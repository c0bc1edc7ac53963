SPECIFICATION PolicySpec
CONSTANTS
  c1 = c1
  c2 = c2
  s1 = s1
  a1 = a1
  a2 = a2
  claude = claude
  github = github
  push = push
  None = None
  Conns = {c1, c2}
  Sessions = {s1}
  Agents = {a1, a2}
  Images = {claude}
  Connectors = {github}
  Calls = {push}
  Requests <- PolicyRequests
  MaxEntries = 4
SYMMETRY ConnsAlike
INVARIANTS
  TablesFollowJournal
  DecideIsSafest
  OneStoryPerSession
PROPERTIES
  JournalExplains
  ImplementsLedger
