SPECIFICATION PairingSpec
CONSTANTS
  i1 = i1
  i2 = i2
  None = None
  Ids = {i1, i2}
  Versions = {1, 2, 3}
  Since = 2
  MaxSent = 3
SYMMETRY IdSymmetry
INVARIANTS
  OutcomeIsOwn
PROPERTIES
  DialectIsNegotiated
  NothingUndecidedPasses
CHECK_DEADLOCK FALSE
