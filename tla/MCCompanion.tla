---------------------------- MODULE MCCompanion ----------------------------
EXTENDS Companion, TLC
MCSymmetry ==
  Permutations(Receivers) \cup Permutations(Fingerprints)

(***************************************************************************)
(* What tells two states apart.  No guard reads reply or screen, and the   *)
(* properties of these runs read at most what the step itself writes to    *)
(* screen, so states that differ in nothing else have the same futures.    *)
(***************************************************************************)
MCView ==
  <<receivers, store, devices, approved, leases, now, uses, sessions, files,
    loads>>
=============================================================================
