SPECIFICATION FairGrabSpec
CONSTANTS
  Consumers = {c1, c2}
  Timed = {c2}
  Capture = capture
  Free = free
  MaxQueueSize = 1
  TimeQueueLength = 2
  MinTimes = 2
  MaxFrames = 2
  MaxTear = 1
INVARIANTS
  FpsCoversImage
  NoSharedFrame
PROPERTIES
  KeepsUp
  InvokeReturns
