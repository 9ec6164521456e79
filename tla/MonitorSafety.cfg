SPECIFICATION ScheduledSpec
CONSTANTS
  SegmentChoices <- MCSegmentChoices
  DefaultSegment = 2
  AnomalySeconds = 1
  ImageIndices <- MCImageIndices
INVARIANTS
  TypeOK
  WriterExclusion
  SessionFlag
  FilesAccounted
  SessionImages
PROPERTIES
  NoRecordingGap
  StopEndsThread
  SessionEnds
  DisablingCloses
  EventStartsSession
