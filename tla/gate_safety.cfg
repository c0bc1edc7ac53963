SPECIFICATION FairRelaySpec
CONSTANTS
  s1 = s1
  h1 = h1
  Sessions = {s1}
  Humans = {h1}
  MaxSeq = 2
  RuleEffects = {"allow", "ask"}
  Cap = 1
  QueueCap = 2
  LongArguments = FALSE
  JournalFails = TRUE
  MaxExits = 1
INVARIANTS
  ForwardedIsRecorded
  RefusalMatchesRecord
  HumanRejectionIsHuman
  OutcomeFollowsGrant
  NoOrphanHold
  FinalAnswersAreAwaited
PROPERTIES
  AllowStaysWithinBudget
  ImplementsGate
  AskedIsAnswered
CHECK_DEADLOCK FALSE
