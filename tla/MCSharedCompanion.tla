------------------------- MODULE MCSharedCompanion -------------------------
EXTENDS SharedCompanion

(***************************************************************************)
(* What tells two states apart.  No guard reads reply, screen, revoked or  *)
(* backed, and the properties of this run read none of them.               *)
(***************************************************************************)
MCView ==
  <<receivers, store, devices, approved, leases, now, uses, sessions, files,
    loads, disk, copies>>
=============================================================================
