-------------------------- MODULE SharedRegistry --------------------------
(***************************************************************************)
(* The receiver registry of one companion process, composed with the file  *)
(* that all companion processes share.  Each extension page has a process  *)
(* of its own, which loaded trust.json when it started, answers from that  *)
(* copy and writes the whole copy back (SharedStore says so, and TrustFile *)
(* shows that the write protocol delivers it).  This process is modelled   *)
(* with its receivers and handles; of the others only what reaches the     *)
(* file.                                                                   *)
(***************************************************************************)
EXTENDS ReceiverRegistry

CONSTANTS
  Peers,  \* the other companion processes
  Self    \* this one

ASSUME SelfAssumption == Self \notin Peers

VARIABLES
  disk,    \* the fingerprints in trust.json
  copies,  \* TrustStore.receivers of the other processes
  revoked, \* history: what was forgotten here since this process started,
           \* and not approved here since
  backed   \* history: what this process read from trust.json or wrote to it

sharedVars == <<disk, copies, revoked, backed>>
allVars == <<registryVars, sharedVars>>

----------------------------------------------------------------------------
SharedInit ==
  /\ RegistryInit
  /\ disk = {}
  /\ copies = [p \in Peers |-> {}]
  /\ revoked = {}
  /\ backed = {}

\* This process replaces the file by a copy.
Saves(copy) ==
  /\ disk' = copy
  /\ backed' = backed \cup copy

\* Mutant: the new entry is added to the file instead of the copy.
TrustAppends(r, f) ==
  /\ TrustReceiver(r, f)
  /\ IF reply' = "ok"
       THEN Saves(disk \cup {f}) /\ revoked' = revoked \ {f}
       ELSE UNCHANGED <<disk, revoked, backed>>
  /\ UNCHANGED copies

\* receiver.trust: TrustStore::trust always writes, even a known entry.
TrustShared(r, f) ==
  /\ TrustReceiver(r, f)
  /\ IF reply' = "ok"
       THEN Saves(store') /\ revoked' = revoked \ {f}
       ELSE UNCHANGED <<disk, revoked, backed>>
  /\ UNCHANGED copies

\* What receiver.forget asks the store to remove.
Listed(r) == {receivers[x].fingerprint : x \in {r} \cap DOMAIN receivers}

\* receiver.forget: TrustStore::forget writes only if it held the entry.
ForgetShared(r) ==
  /\ ForgetReceiver(r)
  /\ IF reply' = "ok"
       THEN /\ IF Listed(r) \subseteq store THEN Saves(store')
                                           ELSE UNCHANGED <<disk, backed>>
            /\ revoked' = revoked \cup (Listed(r) \cap Fingerprints)
       ELSE UNCHANGED <<disk, revoked, backed>>
  /\ UNCHANGED copies

OtherRequest ==
  /\ \/ DiscoverReceivers
     \/ \E r \in Receivers : ConnectReceiver(r) \/ DisconnectReceiver(r)
  /\ UNCHANGED sharedVars

\* This process ends and the next call starts one that loads the file.
RestartShared ==
  /\ RestartWith(disk)
  /\ revoked' = {}
  /\ backed' = disk
  /\ UNCHANGED <<disk, copies>>

----------------------------------------------------------------------------
(* The other processes.  Their registries are not modelled: one of them    *)
(* may have discovered any receiver of the network.                        *)

PeerSaves(p, s) ==
  /\ disk' = s
  /\ copies' = [copies EXCEPT ![p] = s]

PeerStarts(p) ==
  /\ copies' = [copies EXCEPT ![p] = disk]
  /\ UNCHANGED <<registryVars, disk, revoked, backed>>

PeerTrusts(p, f) ==
  /\ PeerSaves(p, copies[p] \cup {f})
  /\ approved' = approved \cup {f}
  /\ UNCHANGED <<receivers, store, devices, reply, revoked, backed>>

PeerForgets(p, f) ==
  /\ f \in copies[p]
  /\ PeerSaves(p, copies[p] \ {f})
  /\ UNCHANGED <<registryVars, revoked, backed>>

PeerRequest ==
  \E p \in Peers :
    \/ PeerStarts(p)
    \/ \E f \in Fingerprints : PeerTrusts(p, f) \/ PeerForgets(p, f)

SharedRequest ==
  \/ \E r \in Receivers : \E f \in Fingerprints : TrustShared(r, f)
  \/ \E r \in Receivers : ForgetShared(r)
  \/ OtherRequest

SharedNext == SharedRequest \/ RestartShared \/ PeerRequest

SharedSpec == SharedInit /\ [][SharedNext]_allVars

----------------------------------------------------------------------------
(* The type invariant of what the composition adds.                        *)
SharedTypeOK ==
  /\ disk \subseteq Fingerprints
  /\ copies \in [Peers -> SUBSET Fingerprints]
  /\ revoked \subseteq Fingerprints
  /\ backed \subseteq Fingerprints

\* A copy of an approval: on disk, or in the memory of some process.
Copied == disk \cup store \cup UNION {copies[p] : p \in Peers}

(***************************************************************************)
(* A record is listed as trusted only with a fingerprint that this process *)
(* found in trust.json or put there: an approval whose write failed leaves *)
(* nothing behind that a later discovery could take for trust (TrustStore  *)
(* takes the new entry over after the write).  That the next start still   *)
(* finds it is not promised: another process may write an older copy.      *)
(***************************************************************************)
TrustIsPersisted ==
  \A r \in Receivers : ListedTrusted(r) => receivers[r].fingerprint \in backed

(***************************************************************************)
(* Whatever was forgotten, lost and written back, every copy is of a       *)
(* fingerprint that a user approved in some process, and this process's    *)
(* own was once in the file.  RegistryInv is the invariant of the registry *)
(* alone: it survives the composition.                                     *)
(***************************************************************************)
SharedInv ==
  /\ RegistryInv
  /\ SharedTypeOK
  /\ Copied \subseteq approved
  /\ revoked \cap store = {}
  /\ store \subseteq backed
  /\ TrustIsPersisted

(***************************************************************************)
(* receiver.forget holds in the process that served it: until the user     *)
(* approves the fingerprint there again, no record comes to be listed with *)
(* it as trusted, whatever other processes write to the file, and          *)
(* whichever id the receiver comes back under.  A second record that was   *)
(* listed so all the time stays (crates/bridge/src/lib.rs, receiver.forget *)
(* clears one record).                                                     *)
(***************************************************************************)
ForgottenIsNotListed ==
  [][\A r \in Receivers :
       ListedTrusted(r)' /\ receivers'[r].fingerprint \in revoked' =>
         /\ ListedTrusted(r)
         /\ receivers[r].fingerprint = receivers'[r].fingerprint]_allVars

(***************************************************************************)
(* A fingerprint is trusted again only by approval or from a copy that was *)
(* never removed: an older memory, the file, or a second record of the     *)
(* same receiver, which receiver.forget leaves listed                      *)
(* (crates/bridge/src/lib.rs, receiver.forget).  Once none of them is left *)
(* it is gone for every process, however the processes start, write and    *)
(* discover in between.                                                    *)
(***************************************************************************)
Held ==
  Copied \cup {receivers[r].fingerprint : r \in {x \in Receivers : ListedTrusted(x)}}

Approval(f) ==
  \/ \E r \in Receivers : Approves(r, f) /\ TrustShared(r, f)
  \/ \E p \in Peers : PeerTrusts(p, f)

TrustIsNeverInvented == [][\A f \in Held' \ Held : Approval(f)]_allVars

(***************************************************************************)
(* This process's registry and the other processes together use the file   *)
(* as SharedStore describes it, the specification that TrustFile           *)
(* implements.                                                             *)
(***************************************************************************)
Shared == INSTANCE SharedStore
  WITH Processes <- Peers \cup {Self},
       entries <- disk,
       view <- [p \in Peers \cup {Self} |->
                  IF p = Self THEN store ELSE copies[p]]

UsesSharedStore == Shared!Spec
=============================================================================
