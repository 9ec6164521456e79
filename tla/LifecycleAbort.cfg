SPECIFICATION FairSpec
CONSTANTS
  NumChannels = 2
  SlowSource = TRUE
  SlowDetector = TRUE
INVARIANTS
  NoDestroyWhileRunning
CHECK_DEADLOCK FALSE
