------------------------- MODULE ReceiverRegistry -------------------------
(***************************************************************************)
(* The receiver side of the companion's main loop: the table of receivers  *)
(* that discovery fills, the persistent trust store, and the SDK device    *)
(* handles that receiver.connect opens.  The companion answers one request *)
(* at a time (crates/companion/src/main.rs, main), so one request is one   *)
(* atomic action; what a request reads may have been changed by any        *)
(* sequence of earlier ones.                                               *)
(*                                                                         *)
(* A fingerprint stands for a receiver's certificate key, that is for the  *)
(* physical receiver.  Two ids may advertise one fingerprint (the id is    *)
(* "instance:port", so a receiver that comes back on another port gets a   *)
(* second record), and one id may advertise another fingerprint later (a   *)
(* receiver that was reset).                                               *)
(***************************************************************************)
CONSTANTS
  Receivers,     \* receiver ids that discovery may report
  Fingerprints,  \* SPKI fingerprints of the certificates on the network
  NoFingerprint  \* Option::None: the record carries no usable fingerprint

ASSUME NoFingerprintAssumption == NoFingerprint \notin Fingerprints

VARIABLES
  receivers,  \* BridgeState.receivers: id -> ReceiverSummary
  store,      \* TrustStore.receivers: the fingerprints the store holds
  devices,    \* the open handles: id -> the fingerprint the SDK pinned
  approved,   \* history: every fingerprint the user ever approved
  reply       \* "ok" or the error code of the last response

registryVars == <<receivers, store, devices, approved, reply>>

----------------------------------------------------------------------------
(* Values.                                                                 *)

ConnectionState == {"discovered", "connected", "disconnected"}

Advertised == Fingerprints \cup {NoFingerprint}

ReceiverSummary ==
  [fingerprint: Advertised, state: ConnectionState, trusted: BOOLEAN]

EmptyMap == [k \in {} |-> k]
Put(map, k, v) == [x \in DOMAIN map \cup {k} |-> IF x = k THEN v ELSE map[x]]
Drop(map, k) == [x \in DOMAIN map \ {k} |-> map[x]]

Known(r) == r \in DOMAIN receivers

----------------------------------------------------------------------------
(* Responses.  A refused request leaves every table as it was.             *)

Refuse(code) ==
  /\ reply' = code
  /\ UNCHANGED <<receivers, store, devices, approved>>

Update(r, summary) == receivers' = Put(receivers, r, summary)

(* What bridge::dispatch then does to the summary of the request.          *)
DispatchTrust(s, f) == [s EXCEPT !.fingerprint = f, !.trusted = TRUE]
DispatchForget(s) ==
  [s EXCEPT !.fingerprint = NoFingerprint, !.trusted = FALSE]
DispatchConnect(s) == [s EXCEPT !.state = "connected"]
DispatchDisconnect(s) == [s EXCEPT !.state = "disconnected"]

----------------------------------------------------------------------------
RegistryInit ==
  /\ receivers = EmptyMap
  /\ store = {}
  /\ devices = EmptyMap
  /\ approved = {}
  /\ reply = "ok"

(***************************************************************************)
(* discovery.start.  Every record found overwrites the summary of its id,  *)
(* connection state included; its trust is looked up in the store.  No     *)
(* record at all is also the case of a discovery that failed: the handler  *)
(* logs a warning and still answers ok.                                    *)
(***************************************************************************)
\* Mutant: whatever advertises a fingerprint is trusted.
DiscoveredTrusted(fp) ==
  [fingerprint |-> fp, state |-> "discovered",
   trusted |-> fp # NoFingerprint]

DiscoveredSummary(fp) ==
  [fingerprint |-> fp, state |-> "discovered", trusted |-> fp \in store]

\* Mutant: a known receiver keeps its connection state.
DiscoverKeepsState ==
  \E found \in SUBSET Receivers : \E fp \in [found -> Advertised] :
    /\ receivers' = [r \in DOMAIN receivers \cup found |->
                       IF r \notin found THEN receivers[r]
                       ELSE IF Known(r)
                              THEN [DiscoveredSummary(fp[r]) EXCEPT
                                      !.state = receivers[r].state]
                              ELSE DiscoveredSummary(fp[r])]
    /\ reply' = "ok"
    /\ UNCHANGED <<store, devices, approved>>

\* Mutant: a known receiver keeps its trust, whatever it advertises now.
DiscoverKeepsTrust ==
  \E found \in SUBSET Receivers : \E fp \in [found -> Advertised] :
    /\ receivers' = [r \in DOMAIN receivers \cup found |->
                       IF r \notin found THEN receivers[r]
                       ELSE IF Known(r)
                              THEN [DiscoveredSummary(fp[r]) EXCEPT
                                      !.trusted = @ \/ receivers[r].trusted]
                              ELSE DiscoveredSummary(fp[r])]
    /\ reply' = "ok"
    /\ UNCHANGED <<store, devices, approved>>

DiscoverReceivers ==
  \E found \in SUBSET Receivers : \E fp \in [found -> Advertised] :
    /\ receivers' = [r \in DOMAIN receivers \cup found |->
                       IF r \in found THEN DiscoveredSummary(fp[r])
                                      ELSE receivers[r]]
    /\ reply' = "ok"
    /\ UNCHANGED <<store, devices, approved>>

(***************************************************************************)
(* receiver.trust.  The approved fingerprint must be the discovered one,   *)
(* and it must be on disk before the record says trusted.                  *)
(***************************************************************************)
Approves(r, f) == Known(r) /\ receivers[r].fingerprint = f

\* Mutant: the entry stays in memory although the write failed.
TrustRemembered(r, f) ==
  \/ ~Known(r) /\ Refuse("receiver_not_found")
  \/ Known(r) /\ ~Approves(r, f) /\ Refuse("fingerprint_mismatch")
  \/ /\ Approves(r, f)
     /\ store' = store \cup {f}
     /\ approved' = approved \cup {f}
     /\ \/ reply' = "trust_store" /\ UNCHANGED receivers
        \/ reply' = "ok" /\ Update(r, DispatchTrust(receivers[r], f))
     /\ UNCHANGED devices

TrustReceiver(r, f) ==
  \/ ~Known(r) /\ Refuse("receiver_not_found")
  \/ Known(r) /\ ~Approves(r, f) /\ Refuse("fingerprint_mismatch")
  \/ Approves(r, f) /\ Refuse("trust_store")
  \/ /\ Approves(r, f)
     /\ store' = store \cup {f}
     /\ approved' = approved \cup {f}
     /\ Update(r, DispatchTrust(receivers[r], f))
     /\ reply' = "ok"
     /\ UNCHANGED devices

(***************************************************************************)
(* receiver.forget.  The store is written only if it holds the record's    *)
(* fingerprint, so only then can the write fail.  The open handle and the  *)
(* connection state stay.                                                  *)
(***************************************************************************)
\* Mutant: the record is cleared before its fingerprint is looked up.
ForgetCleared(r) ==
  \/ ~Known(r) /\ Refuse("receiver_not_found")
  \/ /\ Known(r)
     /\ Update(r, DispatchForget(receivers[r]))
     /\ reply' = "ok"
     /\ UNCHANGED <<store, devices, approved>>

ForgetReceiver(r) ==
  \/ ~Known(r) /\ Refuse("receiver_not_found")
  \/ Known(r) /\ receivers[r].fingerprint \in store /\ Refuse("trust_store")
  \/ /\ Known(r)
     /\ store' = store \ {receivers[r].fingerprint}
     /\ Update(r, DispatchForget(receivers[r]))
     /\ reply' = "ok"
     /\ UNCHANGED <<devices, approved>>

(***************************************************************************)
(* receiver.connect.  endpoint_for makes the checks, in this order; the    *)
(* handle that replaces an older one pins the record's fingerprint.        *)
(***************************************************************************)
Connectable(r) ==
  /\ Known(r)
  /\ receivers[r].fingerprint # NoFingerprint
  /\ receivers[r].trusted

\* A handle that accepts the receiver with the record's fingerprint only.
Pin(r) == devices' = Put(devices, r, receivers[r].fingerprint)

ConnectReceiver(r) ==
  \/ ~Known(r) /\ Refuse("receiver_not_found")
  \/ /\ Known(r) /\ receivers[r].fingerprint = NoFingerprint
     /\ Refuse("receiver_fingerprint_missing")
  \/ /\ Known(r) /\ receivers[r].fingerprint # NoFingerprint
     /\ ~receivers[r].trusted
     /\ Refuse("receiver_not_trusted")
  \/ Connectable(r) /\ Refuse("fcast_connect")
  \/ /\ Connectable(r)
     /\ Pin(r)
     /\ Update(r, DispatchConnect(receivers[r]))
     /\ reply' = "ok"
     /\ UNCHANGED <<store, approved>>

(***************************************************************************)
(* receiver.disconnect.  Without a handle only the record changes.  A      *)
(* handle without a record does not occur (DevicesAreKnown).               *)
(***************************************************************************)
DisconnectReceiver(r) ==
  \/ /\ ~Known(r) /\ r \notin DOMAIN devices
     /\ Refuse("receiver_not_found")
  \/ r \in DOMAIN devices /\ Refuse("fcast_disconnect")
  \/ /\ Known(r)
     /\ devices' = Drop(devices, r)
     /\ Update(r, DispatchDisconnect(receivers[r]))
     /\ reply' = "ok"
     /\ UNCHANGED <<store, approved>>

(***************************************************************************)
(* The browser closes the native port, or the process dies, and the next   *)
(* call starts a new one: main rebuilds every table and TrustStore::load   *)
(* reads the file.                                                         *)
(***************************************************************************)
RestartWith(loaded) ==
  /\ receivers' = EmptyMap
  /\ devices' = EmptyMap
  /\ store' = loaded
  /\ reply' = "ok"
  /\ UNCHANGED approved

\* While this process is the only one that writes the file (see SharedRegistry).
RestartRegistry == RestartWith(store)

RegistryRequest ==
  \/ DiscoverReceivers
  \/ \E r \in Receivers :
       \/ \E f \in Fingerprints : TrustReceiver(r, f)
       \/ ForgetReceiver(r)
       \/ ConnectReceiver(r)
       \/ DisconnectReceiver(r)

RegistryNext == RegistryRequest \/ RestartRegistry

RegistrySpec == RegistryInit /\ [][RegistryNext]_registryVars

----------------------------------------------------------------------------
(* The type invariant: what each table of the companion may hold.          *)
RegistryTypeOK ==
  /\ DOMAIN receivers \subseteq Receivers
  /\ receivers \in [DOMAIN receivers -> ReceiverSummary]
  /\ store \subseteq Fingerprints
  /\ DOMAIN devices \subseteq Receivers
  /\ devices \in [DOMAIN devices -> Fingerprints]
  /\ approved \subseteq Fingerprints

(***************************************************************************)
(* A record listed as connected has an open handle, and if it is also      *)
(* listed as trusted the handle pins the very fingerprint that is listed.  *)
(* These are the two flags dispatch checks before it creates a session     *)
(* (crates/bridge/src/lib.rs, session.load); discovery, forget, connect    *)
(* and disconnect each rewrite a different part of this relation.          *)
(***************************************************************************)
ConnectedIsPinned ==
  \A r \in DOMAIN receivers :
    receivers[r].state = "connected" =>
      /\ r \in DOMAIN devices
      /\ receivers[r].trusted => devices[r] = receivers[r].fingerprint

(***************************************************************************)
(* No handle is open on a receiver whose fingerprint the user never        *)
(* approved, whatever discovery reported and however often the process was *)
(* restarted (README.md: "A receiver must be explicitly trusted by its     *)
(* SPKI fingerprint before a session can connect").                        *)
(***************************************************************************)
OnlyApprovedIsPinned == \A r \in DOMAIN devices : devices[r] \in approved

(***************************************************************************)
(* The inductive invariant behind the two above.  What they do not say:    *)
(* no handle outlives its record; a trusted record carries a fingerprint;  *)
(* a connected record that still carries one carries the pinned one, even  *)
(* while it is not trusted (so that trusting it again is harmless); and    *)
(* whatever is stored or listed as trusted was approved at some time.      *)
(***************************************************************************)
DevicesAreKnown == DOMAIN devices \subseteq DOMAIN receivers

TrustedIsApproved ==
  \A r \in DOMAIN receivers :
    receivers[r].trusted => receivers[r].fingerprint \in approved

ConnectedKeepsPin ==
  \A r \in DOMAIN receivers :
    receivers[r].state = "connected" =>
      /\ r \in DOMAIN devices
      /\ receivers[r].fingerprint \in {NoFingerprint, devices[r]}

RegistryInv ==
  /\ RegistryTypeOK
  /\ DevicesAreKnown
  /\ store \subseteq approved
  /\ TrustedIsApproved
  /\ OnlyApprovedIsPinned
  /\ ConnectedKeepsPin

ListedTrusted(r) == Known(r) /\ receivers[r].trusted
=============================================================================
