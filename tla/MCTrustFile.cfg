SPECIFICATION Spec
CONSTANTS
  Fingerprints = {f1, f2}
  Processes = {p1, p2}
  Pids = {i1, i2, i3}
SYMMETRY MCSymmetry
INVARIANTS
  RenamesItsOwnWrite
  MemoryMatchesDisk
PROPERTIES
  ImplementsSharedStore
