SPECIFICATION Spec
CONSTANTS
  Callers = {c1, c2}
  Times = {10, 20, 30}
  InitialExposure = 30
  Refusals = {"mode", "time"}
INVARIANT
  ReportedOnceAuto
