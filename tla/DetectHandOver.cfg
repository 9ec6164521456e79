SPECIFICATION FairSpec
CONSTANTS
  MaxFrames = 5
  MaxCalls = 3
  FrameWidth = 16
  FrameHeight = 4
  PerPixel = 2
  Outputs <- MCOutputs
INVARIANTS
  TypeOK
  WakeupToken
  FrameOrder
  BoxesInFrame
  EachThingOnce
PROPERTIES
  ImplementsMailbox
  EventLoopReturns
