SPECIFICATION FairStartupSpec
CONSTANTS
  d1 = d1
  d2 = d2
  None = None
  Dead = Dead
  Daemons = {d1, d2}
  Attempts = 3
  Crashing = TRUE
  OpenFails = TRUE
INVARIANTS
  ServingIsReachable
PROPERTIES
  ListenSparesLive
  StartIsDecided
  StartFindsOne
  StopIsObeyed
CHECK_DEADLOCK FALSE
