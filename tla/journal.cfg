SPECIFICATION JournalSpec
CONSTANTS
  w1 = w1
  w2 = w2
  b1 = b1
  b2 = b2
  None = None
  Forged = Forged
  Writers = {w1, w2}
  Bodies = {b1, b2}
  Page = 2
  MaxEntries = 4
  MaxSeeds = 2
INVARIANTS
  UndamagedVerifies
  EditIsNoticed
  HeadCovers
  GrowthIsNoAccusation
  ServingCanRecord
  FollowerIsGapless
