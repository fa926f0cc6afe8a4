SPECIFICATION FairSpec
CONSTANTS
  MaxJobs = 2
  MaxLives = 2
  Faults <- EveryFault
CHECK_DEADLOCK FALSE
INVARIANTS
  OneTokenPerChild
  JobBound
  LoopReceiptTrue
  StopIsClean
PROPERTIES
  AloneAtStart
  JobsAreSerial
  ControllerEnds
