---------------------------- MODULE MCTrustFile ----------------------------
EXTENDS TrustFile, TLC
MCSymmetry ==
  Permutations(Fingerprints) \cup Permutations(Processes) \cup Permutations(Pids)
=============================================================================
