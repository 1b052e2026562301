SPECIFICATION FairSpec
CONSTANTS
  c1 = c1
  c2 = c2
  c3 = c3
  o1 = o1
  o2 = o2
  wg = wg
  nb = nb
  ka = ka
  kb = kb
  kc = kc
  None = None
  Clients = {c1, c2}
  Operators = {o1}
  Providers = {wg}
  Exclusive = {wg}
  Keys = {ka, kb}
  ProviderOf <- OneProvider
  Entries = {1, 2}
  MaxGeneration = 4

INVARIANTS RouteMapCurrent ExclusiveRoute NoLostWakeup NoOrphanProxy ReferencesHeld
PROPERTIES FailedIsFinal CallsReturn
