---------------------------- MODULE TrustStore ----------------------------
(***************************************************************************)
(* What crates/receiver-trust promises its caller: a persistent set of     *)
(* fingerprints in which trust adds exactly one entry, forget removes      *)
(* exactly one, and nothing else - a failed write, a crash, a restart -    *)
(* changes any.                                                            *)
(***************************************************************************)
CONSTANT Fingerprints

VARIABLE entries  \* the fingerprints a TrustStore::load would return now

Init == entries = {}

Trust(f) == entries' = entries \cup {f}

Forget(f) == entries' = entries \ {f}

Next == \E f \in Fingerprints : Trust(f) \/ Forget(f)

Spec == Init /\ [][Next]_entries
=============================================================================
