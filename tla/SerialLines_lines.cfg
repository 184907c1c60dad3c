CONSTANTS
  Lengths <- MCLengths
  Faults <- MCFaults
  MaxAcq = 3
  MaxConfig = 2
  MaxFaults = 2
SPECIFICATION FairSpec
CHECK_DEADLOCK FALSE
INVARIANTS
  TypeOK
  BufferFromOneFrame
  CleanFrameWhole
  StatusOwnLines
PROPERTIES
  AsksWhenQuiet
  LoopReturns
  StopIsLifted
