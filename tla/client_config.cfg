SPECIFICATION ClientConfigSpec
CONSTANTS
  r1 = r1
  r2 = r2
  r3 = r3
  github = github
  my_server = my_server
  old = old
  new = new
  None = None
  Partial = Partial
  Runs = {r1, r2, r3}
  Keys = {github, my_server}
  ValidKeys = {github}
  Paths = {old, new}
  Stamps = {1, 2}
  MaxSuffix = 2
  MaxEdits = 1
SYMMETRY RunSymmetry
INVARIANTS
  NothingIsLost
  OneHop
PROPERTIES
  UndoRestores
CHECK_DEADLOCK FALSE
