SPECIFICATION FairSpec
CONSTANTS
  mjpg = mjpg
  yuyv = yuyv
  Formats = {mjpg, yuyv}
  Lists <- FormatLists
  Loopback = TRUE
  Rates = {0, 30}
  Failing = {"open", "QUERYCAP", "G_FMT", "S_FMT", "substitute", "S_PARM", "S_CTRL", "start"}
  LogLevels = {TRUE, FALSE}
  Drivers <- DriverKinds
  None = none
  BadSize = bad
INVARIANTS
  NoDescriptorLeaked
  ReadyIsConfigured
  BufferSizeRight
PROPERTY CreateReturns
