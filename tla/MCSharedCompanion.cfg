SPECIFICATION AmongSpec
CONSTANTS
  Receivers = {r1}
  Fingerprints = {f1}
  NoFingerprint = NoFingerprint
  Peers = {p1}
  Self = Self
  LeaseIds = {}
  NoLease = NoLease
  Origins = {o1}
  HttpsOrigins = {}
  MaxTtl = 1
  MaxTime = 0
  MaxLoads = 3
  MaxRevision = 2
VIEW MCView
INVARIANTS
  RelayedFileIsHeld
PROPERTIES
  ChangeHasRevision
