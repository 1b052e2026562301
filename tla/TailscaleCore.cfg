CONSTANTS
  p1 = p1
  p2 = p2
  Peers = {p1, p2}
  Regions = {1, 2}
  Endpoints = {e1}
  Messages <- MCMessages
  NoList = NoList
  None = None
SPECIFICATION FairSpec
INVARIANTS UpdateOnLiveSession ServerAgrees KeySentOnce
PROPERTIES StopReturns
CHECK_DEADLOCK FALSE
