SPECIFICATION FairRelayStartSpec
CONSTANTS
  t1 = t1
  r1 = r1
  r2 = r2
  c1 = c1
  c2 = c2
  c3 = c3
  Legacy = Legacy
  None = None
  Own = Own
  Restarting = FALSE
  Targets = {t1}
  Regs = {r1}
  Conns = {c1}
  Relay = c1
  Target = t1
PROPERTIES
  ClientGoneEndsRelay
CHECK_DEADLOCK FALSE
