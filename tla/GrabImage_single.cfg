SPECIFICATION GrabSpec
CONSTANTS
  Consumers = {c1}
  Timed = {}
  Capture = capture
  Free = free
  MaxQueueSize = 2
  TimeQueueLength = 3
  MinTimes = 2
  MaxFrames = 5
  MaxTear = 1
INVARIANT
  FreshImage
CHECK_DEADLOCK FALSE
