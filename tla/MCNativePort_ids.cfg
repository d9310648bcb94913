SPECIFICATION FairSpec
CONSTANTS
  Calls = {c1}
  Malformed = {c1}
  MaxPorts = 1
INVARIANTS
  EveryResponseHasItsId
