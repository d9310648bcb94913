SPECIFICATION FairSpec
CONSTANTS
  Calls = {c1, c2, c3}
  Malformed = {c3}
  MaxPorts = 2
INVARIANTS
  WaitsOnOpenPort
  DeliveredIsSettled
  HandledOnce
  OneProcessPerPage
PROPERTIES
  CallsSettle
  OrphansExit
