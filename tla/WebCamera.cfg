SPECIFICATION FairSpec
CONSTANTS
  Callers = {c1, c2}
  Rates = {1, 2}
  InitialRate = 0
  FaultModes = {{}, {"stat"}, {"create"}, {"read", "again"}, {"start"}, {"mmap"}, {"stat", "create", "read", "again", "stop", "setfps", "start", "mmap"}}
INVARIANTS
  EndingExplained
  LoopUsesLiveObjects
  NoThreadOutlives
  RunningMeansCapturing
  RatesAgree
  QueuesOnlyImages
PROPERTIES
  SerialExclusiveDevice
  CallsComplete
  ImplementsCamera
CHECK_DEADLOCK FALSE
