SPECIFICATION Spec
CONSTANTS
  s1 = s1
  h1 = h1
  Sessions = {s1}
  Humans = {h1}
  MaxSeq = 1
  RuleEffects = {"ask"}
  Cap = 1
  QueueCap = 2
  LongArguments = TRUE
  JournalFails = FALSE
  MaxExits = 0
INVARIANTS
  HumanRejectionIsHuman
CHECK_DEADLOCK FALSE
