SPECIFICATION Spec
CONSTANTS
  NoFingerprint = NoFingerprint
  NoLease = NoLease
  MaxTtl = 1
  MaxTime = 0
  MaxRevision = 1
  Receivers = {r1}
  Fingerprints = {f1}
  LeaseIds = {}
  Origins = {o1}
  HttpsOrigins = {}
  MaxLoads = 3
INVARIANTS
  FilesAreSessionOwned
