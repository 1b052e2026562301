CONSTANTS
  MaxSessions = 1
  Starts = {i1}
  IsSunshine = TRUE
  Workers = {w1}
  Receiver = Receiver
  NoSession = NoSession
SPECIFICATION Spec
INVARIANTS HostNotLeftRunning
CHECK_DEADLOCK FALSE
