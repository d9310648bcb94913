SPECIFICATION FairSpec
CONSTANTS
  Processes = {p1, p2}
  Pids = {i1, i2}
  Fetches = {f1, f2}
  NoFetch = NoFetch
  Bodies = {2, 3}
  MaxBytes = 2
INVARIANTS
  HeldIsFetched
  FilesAccounted
  RequestsArePublic
PROPERTIES
  NamingEnds
