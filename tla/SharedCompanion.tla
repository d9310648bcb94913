-------------------------- MODULE SharedCompanion --------------------------
(***************************************************************************)
(* One companion process with its leases and sessions, beside the other    *)
(* companion processes: they write the trust file this one loads at its    *)
(* start, and they show media on the receivers this one plays on.  Of      *)
(* their sessions only what reaches a receiver is modelled.                *)
(***************************************************************************)
EXTENDS Companion, SharedRegistry

everything == <<allVars, companionVars>>

AmongInit == Init /\ SharedInit

\* Another process loads media on a receiver, or stops what is shown there;
\* a user has approved the receiver in that process.
PeerCasts ==
  /\ \E f \in approved :
       \/ /\ loads < MaxLoads
          /\ loads' = loads + 1
          /\ screen' = [screen EXCEPT ![f] = loads + 1]
       \/ screen' = [screen EXCEPT ![f] = Nothing] /\ UNCHANGED loads
  /\ UNCHANGED <<allVars, leaseVars, now, sessions, files>>

AmongNext ==
  \/ (SharedRequest \/ PeerRequest) /\ UNCHANGED companionVars
  \/ CastRequest /\ UNCHANGED sharedVars
  \/ RestartShared /\ EndProcess
  \/ PeerCasts

AmongSpec == AmongInit /\ [][AmongNext]_everything

----------------------------------------------------------------------------
(* The inductive invariant: what a user approved, every copy of it, and    *)
(* the leases and sessions of this process.                                *)
AmongInv == SharedInv /\ LeaseInv /\ SessionInv
=============================================================================
