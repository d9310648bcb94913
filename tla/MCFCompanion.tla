---------------------------- MODULE MCFCompanion ----------------------------
(* Two connections that ask for the same resource; the connections are alike. *)
EXTENDS FCompanion, TLC
MCSymmetry == Permutations(Connections)
=============================================================================
