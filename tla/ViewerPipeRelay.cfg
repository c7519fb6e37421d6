SPECIFICATION FairSpec
CONSTANTS
  v1 = v1
  None = None
  Viewers = {v1}
  CatchUp = 0
  LagLimit = 1
  MaxFrames = 2
  MaxBytes = 3
  AskGap = 1
  AskAgain = 2
  Size <- MCSize
  MaxItems = 3
  MaxStale = 1
  MaxLost = 1
INVARIANTS Decodable
PROPERTIES QueueIsKept WaitingViewerIsServed
CHECK_DEADLOCK FALSE
