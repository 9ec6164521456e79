SPECIFICATION ScheduledSpec
CONSTANTS
  SegmentChoices <- MCSegmentChoices
  DefaultSegment = 2
  AnomalySeconds = 1
  ImageIndices <- MCImageIndices
PROPERTIES
  StopAlwaysEndsThread
