---------------------------- MODULE SharedStore ----------------------------
(***************************************************************************)
(* What crates/receiver-trust promises when several companion processes    *)
(* share one trust.json: each answers from the view it loaded, a request   *)
(* changes one entry of that view, and the whole view becomes the file.    *)
(* The file is never torn and never mixes two views; that a view is older  *)
(* than the file it replaces is not excluded, and is why a forgotten       *)
(* fingerprint can come back.                                              *)
(***************************************************************************)
CONSTANTS Fingerprints, Processes

VARIABLES
  entries,  \* the fingerprints a TrustStore::load would return now
  view      \* the fingerprints each process answers from

Init ==
  /\ entries = {}
  /\ view = [p \in Processes |-> {}]

Load(p) ==
  /\ view' = [view EXCEPT ![p] = entries]
  /\ UNCHANGED entries

Save(p, s) ==
  /\ entries' = s
  /\ view' = [view EXCEPT ![p] = s]

Trust(p, f) == Save(p, view[p] \cup {f})

Forget(p, f) ==
  /\ f \in view[p]
  /\ Save(p, view[p] \ {f})

Next ==
  \E p \in Processes :
    \/ Load(p)
    \/ \E f \in Fingerprints : Trust(p, f) \/ Forget(p, f)

Spec == Init /\ [][Next]_<<entries, view>>
=============================================================================
