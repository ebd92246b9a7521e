SPECIFICATION Spec
CONSTANTS
  NbBuffer = 3
  Grants = {1, 3, 4}
  Length = 3
  Sizes = {2}
  DeviceTypes = {"capture", "output"}
  Failing = {"REQBUFS", "mmap", "QBUF", "DQBUF", "STREAMON", "STREAMOFF"}
  Leftovers <- MCLeftovers
  MaxFrames = 4
INVARIANTS
  ReadsInOrder
  SoundMemory
  BuffersAccounted
  PartialWriteOwnsBuffer
PROPERTY
  ImplementsStream
CHECK_DEADLOCK FALSE
