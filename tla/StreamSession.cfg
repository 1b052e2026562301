CONSTANTS
  MaxSessions = 1
  Starts = {i1}
  IsSunshine = TRUE
  Workers = {w1}
  Receiver = Receiver
  NoSession = NoSession
SPECIFICATION FairSpec
INVARIANTS PublishedSessionAlive
PROPERTIES StoppedStaysInactive DeadStreamCloses RestartSettles
CHECK_DEADLOCK FALSE
