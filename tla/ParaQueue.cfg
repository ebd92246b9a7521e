SPECIFICATION FairSpec
CONSTANTS
  Consumers = {c1, c2}
  Capture = capture
  Free = free
  MaxQueueSize = 2
  TimeQueueLength = 3
  MinTimes = 2
  MaxFrames = 4
INVARIANTS
  PopSeesBoundedQueue
  LossOnlyByOverflow
  DeliveredInOrder
  PeriodCoversDelivered
  FpsNearlyRight
PROPERTIES
  HasEnqueuedMeans
  ImplementsLossyFifo
  PushCompletes
