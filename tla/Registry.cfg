SPECIFICATION Spec
CONSTANTS
  Inputs = {f1, f2}
  Settings = {s1}
  Closers = {x1}
  Indices = {0, 1}
  Cameras = {k1, k2, k3}
  None = None
  FaultModes <- AllModes
SYMMETRY CameraSymmetry
INVARIANTS
  LiveIsRegistered
  ReadyHasCamera
  FoundIsOpen
  MisuseExplained
PROPERTY
  FreedByDestructor
CHECK_DEADLOCK FALSE
