SPECIFICATION StartupSpec
CONSTANTS
  d1 = d1
  d2 = d2
  None = None
  Dead = Dead
  Daemons = {d1, d2}
  Attempts = 3
  Crashing = FALSE
  OpenFails = FALSE
INVARIANTS
  RestartLeavesOneReachable
CHECK_DEADLOCK FALSE
