SPECIFICATION FairRelayStartSpec
CONSTANTS
  t1 = t1
  r1 = r1
  r2 = r2
  c1 = c1
  c2 = c2
  c3 = c3
  Legacy = Legacy
  None = None
  Own = Own
  Restarting = TRUE
  Targets = {t1}
  Regs = {r1, r2}
  Conns = {c1, c2, c3}
  Relay = c1
  Target = t1
INVARIANTS
  HalvesAgree
  FoundIsObeyed
  ConnectorIsStopped
PROPERTIES
  ReleaseIsWhole
  StartEnds
  SignalIsObeyed
CHECK_DEADLOCK FALSE
