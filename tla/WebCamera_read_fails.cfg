SPECIFICATION Spec
CONSTANTS
  Callers = {c1}
  Rates = {1, 2}
  InitialRate = 0
  FaultModes = {{"read"}}
INVARIANT NeverTerminated
CHECK_DEADLOCK FALSE
