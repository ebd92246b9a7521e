SPECIFICATION GrabSpec
CONSTANTS
  Consumers = {c1, c2}
  Timed = {}
  Capture = capture
  Free = free
  MaxQueueSize = 2
  TimeQueueLength = 3
  MinTimes = 2
  MaxFrames = 3
  MaxTear = 1
SYMMETRY FilterSymmetry
INVARIANT FreshImage
CHECK_DEADLOCK FALSE
