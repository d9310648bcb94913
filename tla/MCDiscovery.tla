---------------------------- MODULE MCDiscovery ----------------------------
(* One browse with up to two packets. *)
EXTENDS Discovery
=============================================================================
