SPECIFICATION FairDaemonSpec
CONSTANTS
  s1 = s1
  h1 = h1
  h2 = h2
  Sessions = {s1}
  Humans = {h1, h2}
  MaxSeq = 1
  RuleEffects = {"allow", "deny", "ask"}
  Cap = 1
  QueueCap = 2
  LongArguments = TRUE
  JournalFails = TRUE
  MaxExits = 1
INVARIANTS
  ApprovedWasShown
  NoSecondDecision
PROPERTIES
  HeldIsSettled
CHECK_DEADLOCK FALSE
