SPECIFICATION FairSpec
CONSTANTS
  NumChannels = 2
  SlowSource = FALSE
  SlowDetector = FALSE
INVARIANTS
  TypeOK
  NoDestroyWhileRunning
  SubmitToLiveTask
PROPERTIES
  TeardownEnds
CHECK_DEADLOCK FALSE
