CONSTANTS
  Nodes = {p1, p2}
  Endpoints = {e1, e2, e3}
  NetmapLists <- MCLists
  TxIds = {t1, t2}
  Rtts = {0, 3}
  Heartbeat = 1
  PingTimeout = 2
  Trust = 3
  MaxCandidates = 2
  MaxFlying = 1
  Absent = Absent
SPECIFICATION PathSpec
INVARIANTS EgressProven ReportFollowsPath
SYMMETRY Symmetry
