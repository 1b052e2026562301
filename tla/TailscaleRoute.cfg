CONSTANTS
  router = router
  h1 = h1
  h2 = h2
  pc = pc
  Targets <- MCTargets
  None = None
SPECIFICATION FairSpec
INVARIANTS RouteServed MediaHasRelays TeardownSafe
PROPERTIES RepliesAccepted RouteCallsReturn
