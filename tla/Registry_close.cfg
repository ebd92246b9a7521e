SPECIFICATION Spec
CONSTANTS
  Inputs = {f1}
  Settings = {s1}
  Closers = {x1}
  Indices = {0, 1}
  Cameras = {k1, k2}
  None = None
  FaultModes <- NoFault
SYMMETRY CameraSymmetry
INVARIANT
  CloseIsClean
CHECK_DEADLOCK FALSE
