SPECIFICATION Spec
CONSTANTS
  Channels <- MCChannels
  MaxLag = 1
  MaxFrames <- MCMaxFrames
  MaxCalls = 2
INVARIANTS
  TypeOK
  ShownIsCurrent
  OffHoldsNoBoxes
  SwitchConverges
  ResultsFollowFrames
PROPERTIES
  AlarmIsShown
