------------------------ MODULE MCReceiverRegistry ------------------------
EXTENDS SharedRegistry, TLC
MCSymmetry == Permutations(Receivers) \cup Permutations(Fingerprints)
=============================================================================
