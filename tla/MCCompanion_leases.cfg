SPECIFICATION Spec
CONSTANTS
  Receivers = {r1, r2}
  Fingerprints = {f1, f2}
  NoFingerprint = NoFingerprint
  LeaseIds = {l1}
  NoLease = NoLease
  Origins = {o1, o2}
  HttpsOrigins = {o1}
  MaxTtl = 1
  MaxTime = 1
  MaxLoads = 1
  MaxRevision = 1
SYMMETRY MCSymmetry
VIEW MCView
INVARIANTS
  LeaseSpentOnce
PROPERTIES
  SessionBornOnPinned
  LeasedSessionIsBound
