CONSTANTS
  Cells = {c1, c2, c3, c4, c5}
  None = None
  Dangling = Dangling
  BurstHeadroom = 1
  QueueSizes = {1, 2}
  MaxPushes = 4
SPECIFICATION FairSpec
INVARIANTS FramesOwnedOnce RenderedFrameStable PlayoutOrder FramesAccounted
PROPERTIES HeldFrameReleased
