SPECIFICATION FairSpec
CONSTANTS
  SegmentChoices <- MCSegmentChoices
  DefaultSegment = 2
  AnomalySeconds = 1
  ImageIndices <- MCImageIndices
PROPERTIES
  EventNotLost
