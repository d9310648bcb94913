SPECIFICATION Spec
CONSTANTS
  Tokens = {t1}
  NoToken = none
  Connections = {c1, c2}
  Ttl = 1
  MaxBytes = 2
  Sizes = {0, 2, 3}
  Places = {0, 1, 2}
  Unbounded = 9
  BufferBytes = 2
  MaxTime = 1
SYMMETRY MCSymmetry
INVARIANTS
  RangeIsExact
  SilentOnlyToHangUp
  RefusedIsGone
