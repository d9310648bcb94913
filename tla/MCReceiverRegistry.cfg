SPECIFICATION SharedSpec
CONSTANTS
  Receivers = {r1, r2}
  Fingerprints = {f1, f2}
  NoFingerprint = NoFingerprint
  Peers = {p1}
  Self = Self
SYMMETRY MCSymmetry
INVARIANTS
  ConnectedIsPinned
  OnlyApprovedIsPinned
  TrustIsPersisted
PROPERTIES
  ForgottenIsNotListed
  TrustIsNeverInvented
  UsesSharedStore
