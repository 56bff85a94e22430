SPECIFICATION FairSpec
CONSTANTS
  Group = 3
  Width = 10
  IntBits = 8
  Bad = Bad
  Panic = Panic
  Intervals = {1, 2}
  Default = 2
  Grace = 1
  Delay = 0
  Backoff = 1
  MaxWait = 2
  Frames <- MCFrames
  Foreign <- MCForeign
  MaxUnacked = 2
INVARIANTS SessionTypeOK OneWriter AcksInOrder
PROPERTIES HealthyKept DeadIsReplaced StopEndsRun
CHECK_DEADLOCK FALSE
