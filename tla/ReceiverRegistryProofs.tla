---------------------- MODULE ReceiverRegistryProofs ----------------------
(***************************************************************************)
(* Proofs about the receiver table, the trust store and the device handles *)
(* for any sets of receiver ids and fingerprints: of one process that has  *)
(* the trust file to itself, and then of one that shares it.               *)
(***************************************************************************)
EXTENDS SharedRegistry, TLAPS

----------------------------------------------------------------------------
(* Facts about the maps that stand for the companion's BTreeMaps.          *)

(* Inserting a value keeps a map a map between the same sets.              *)
LEMMA PutType ==
  ASSUME NEW K, NEW V, NEW m, NEW k \in K, NEW v \in V,
         DOMAIN m \subseteq K, m \in [DOMAIN m -> V]
  PROVE  /\ DOMAIN Put(m, k, v) = DOMAIN m \cup {k}
         /\ DOMAIN Put(m, k, v) \subseteq K
         /\ Put(m, k, v) \in [DOMAIN Put(m, k, v) -> V]
BY DEF Put

(* A lookup after an insert finds the new value at its key, the old ones   *)
(* elsewhere.                                                              *)
LEMMA PutAt ==
  ASSUME NEW m, NEW k, NEW v, NEW x \in DOMAIN m \cup {k}
  PROVE  Put(m, k, v)[x] = IF x = k THEN v ELSE m[x]
BY DEF Put

(* Removing a key keeps a map a map ...                                    *)
LEMMA DropType ==
  ASSUME NEW K, NEW V, NEW m, NEW k,
         DOMAIN m \subseteq K, m \in [DOMAIN m -> V]
  PROVE  /\ DOMAIN Drop(m, k) = DOMAIN m \ {k}
         /\ DOMAIN Drop(m, k) \subseteq K
         /\ Drop(m, k) \in [DOMAIN Drop(m, k) -> V]
BY DEF Drop

(* ... and every other value.                                              *)
LEMMA DropAt ==
  ASSUME NEW m, NEW k, NEW x \in DOMAIN m \ {k}
  PROVE  Drop(m, k)[x] = m[x]
BY DEF Drop

----------------------------------------------------------------------------
(* The companion starts with the inductive invariant.                      *)
LEMMA RegistryInvInit == RegistryInit => RegistryInv
BY DEF RegistryInit, RegistryInv, RegistryTypeOK, DevicesAreKnown,
       TrustedIsApproved, OnlyApprovedIsPinned, ConnectedKeepsPin, EmptyMap

(* A refused request keeps it: it changes no table.                        *)
LEMMA RefuseKeepsInv ==
  ASSUME RegistryInv, NEW code, Refuse(code)
  PROVE  RegistryInv'
BY DEF Refuse, RegistryInv, RegistryTypeOK, DevicesAreKnown,
       TrustedIsApproved, OnlyApprovedIsPinned, ConnectedKeepsPin

(* Discovery replaces records by fresh ones and touches no handle.         *)
LEMMA DiscoverKeepsInv ==
  ASSUME RegistryInv, DiscoverReceivers
  PROVE  RegistryInv'
<1>1. PICK found \in SUBSET Receivers : \E fp \in [found -> Advertised] :
        /\ receivers' = [r \in DOMAIN receivers \cup found |->
                           IF r \in found THEN DiscoveredSummary(fp[r])
                                          ELSE receivers[r]]
        /\ UNCHANGED <<store, devices, approved>>
  BY DEF DiscoverReceivers
<1>2. PICK fp \in [found -> Advertised] :
        /\ receivers' = [r \in DOMAIN receivers \cup found |->
                           IF r \in found THEN DiscoveredSummary(fp[r])
                                          ELSE receivers[r]]
        /\ UNCHANGED <<store, devices, approved>>
  BY <1>1
<1>3. \A r \in found : DiscoveredSummary(fp[r]) \in ReceiverSummary
  BY DEF DiscoveredSummary, ReceiverSummary, ConnectionState
<1>4. RegistryTypeOK'
  BY <1>2, <1>3 DEF RegistryInv, RegistryTypeOK
<1>5. /\ DevicesAreKnown'
      /\ (store \subseteq approved)'
      /\ OnlyApprovedIsPinned'
  BY <1>2 DEF RegistryInv, DevicesAreKnown, OnlyApprovedIsPinned
<1>6. TrustedIsApproved'
  BY <1>2 DEF RegistryInv, TrustedIsApproved, DiscoveredSummary
<1>7. ConnectedKeepsPin'
  BY <1>2 DEF RegistryInv, ConnectedKeepsPin, DiscoveredSummary
<1> QED
  BY <1>4, <1>5, <1>6, <1>7 DEF RegistryInv

(* The update of one known record keeps the record table well-typed.       *)
LEMMA UpdateType ==
  ASSUME RegistryTypeOK, NEW r \in DOMAIN receivers,
         NEW s \in ReceiverSummary, Update(r, s)
  PROVE  /\ DOMAIN receivers' = DOMAIN receivers
         /\ receivers' \in [DOMAIN receivers' -> ReceiverSummary]
         /\ \A x \in DOMAIN receivers :
              receivers'[x] = IF x = r THEN s ELSE receivers[x]
<1>1. /\ r \in Receivers
      /\ DOMAIN receivers \cup {r} = DOMAIN receivers
  BY DEF RegistryTypeOK
<1>2. /\ DOMAIN receivers' = DOMAIN receivers
      /\ receivers' \in [DOMAIN receivers' -> ReceiverSummary]
  BY <1>1, PutType DEF Update, RegistryTypeOK
<1>3. \A x \in DOMAIN receivers :
        receivers'[x] = IF x = r THEN s ELSE receivers[x]
  BY <1>1, PutAt DEF Update
<1> QED BY <1>2, <1>3

(* Approving a fingerprint adds it to the store and to the history at      *)
(* once, and leaves the record's fingerprint as it was discovered.         *)
LEMMA TrustKeepsInv ==
  ASSUME RegistryInv, NEW r \in Receivers, NEW f \in Fingerprints,
         TrustReceiver(r, f)
  PROVE  RegistryInv'
<1>1. CASE \E code : Refuse(code)
  BY <1>1, RefuseKeepsInv
<1>2. CASE /\ Approves(r, f)
           /\ store' = store \cup {f}
           /\ approved' = approved \cup {f}
           /\ Update(r, [receivers[r] EXCEPT !.fingerprint = f,
                                             !.trusted = TRUE])
           /\ UNCHANGED devices
  <2> DEFINE s == [receivers[r] EXCEPT !.fingerprint = f, !.trusted = TRUE]
  <2>1. r \in DOMAIN receivers /\ receivers[r].fingerprint = f
    BY <1>2 DEF Approves, Known
  <2>2. /\ s \in ReceiverSummary
        /\ s.fingerprint = f /\ s.trusted /\ s.state = receivers[r].state
    BY <2>1 DEF RegistryInv, RegistryTypeOK, ReceiverSummary, Advertised
  <2>3. /\ DOMAIN receivers' = DOMAIN receivers
        /\ receivers' \in [DOMAIN receivers' -> ReceiverSummary]
        /\ \A x \in DOMAIN receivers :
             receivers'[x] = IF x = r THEN s ELSE receivers[x]
    <3> HIDE DEF s
    <3> QED BY <1>2, <2>1, <2>2, UpdateType DEF RegistryInv, s
  <2> HIDE DEF s
  <2>4. RegistryTypeOK'
    BY <1>2, <2>3 DEF RegistryInv, RegistryTypeOK
  <2>5. DevicesAreKnown' /\ (store \subseteq approved)'
    BY <1>2, <2>3 DEF RegistryInv, DevicesAreKnown
  <2>6. TrustedIsApproved'
    BY <1>2, <2>2, <2>3 DEF RegistryInv, TrustedIsApproved
  <2>7. OnlyApprovedIsPinned'
    BY <1>2 DEF RegistryInv, OnlyApprovedIsPinned
  <2>8. ConnectedKeepsPin'
    BY <1>2, <2>1, <2>2, <2>3 DEF RegistryInv, ConnectedKeepsPin
  <2> QED BY <2>4, <2>5, <2>6, <2>7, <2>8 DEF RegistryInv
<1> QED BY <1>1, <1>2 DEF TrustReceiver, DispatchTrust

(* Forgetting drops the record's fingerprint, so an open handle stays      *)
(* compatible with it; the history keeps what was approved.                *)
LEMMA ForgetKeepsInv ==
  ASSUME RegistryInv, NEW r \in Receivers, ForgetReceiver(r)
  PROVE  RegistryInv'
<1>1. CASE \E code : Refuse(code)
  BY <1>1, RefuseKeepsInv
<1>2. CASE /\ Known(r)
           /\ store' = store \ {receivers[r].fingerprint}
           /\ Update(r, [receivers[r] EXCEPT !.fingerprint = NoFingerprint,
                                             !.trusted = FALSE])
           /\ UNCHANGED <<devices, approved>>
  <2> DEFINE s == [receivers[r] EXCEPT !.fingerprint = NoFingerprint,
                                       !.trusted = FALSE]
  <2>1. r \in DOMAIN receivers
    BY <1>2 DEF Known
  <2>2. /\ s \in ReceiverSummary
        /\ s.fingerprint = NoFingerprint /\ ~s.trusted
        /\ s.state = receivers[r].state
    BY <2>1 DEF RegistryInv, RegistryTypeOK, ReceiverSummary, Advertised
  <2>3. /\ DOMAIN receivers' = DOMAIN receivers
        /\ receivers' \in [DOMAIN receivers' -> ReceiverSummary]
        /\ \A x \in DOMAIN receivers :
             receivers'[x] = IF x = r THEN s ELSE receivers[x]
    <3> HIDE DEF s
    <3> QED BY <1>2, <2>1, <2>2, UpdateType DEF RegistryInv, s
  <2> HIDE DEF s
  <2>4. RegistryTypeOK'
    BY <1>2, <2>3 DEF RegistryInv, RegistryTypeOK
  <2>5. DevicesAreKnown' /\ (store \subseteq approved)'
    BY <1>2, <2>3 DEF RegistryInv, DevicesAreKnown
  <2>6. TrustedIsApproved'
    BY <1>2, <2>2, <2>3 DEF RegistryInv, TrustedIsApproved
  <2>7. OnlyApprovedIsPinned'
    BY <1>2 DEF RegistryInv, OnlyApprovedIsPinned
  <2>8. ConnectedKeepsPin'
    BY <1>2, <2>1, <2>2, <2>3 DEF RegistryInv, ConnectedKeepsPin
  <2> QED BY <2>4, <2>5, <2>6, <2>7, <2>8 DEF RegistryInv
<1> QED BY <1>1, <1>2 DEF ForgetReceiver, DispatchForget

(* Connecting pins the listed fingerprint, which was approved because the  *)
(* record is trusted.                                                      *)
LEMMA ConnectKeepsInv ==
  ASSUME RegistryInv, NEW r \in Receivers, ConnectReceiver(r)
  PROVE  RegistryInv'
<1>1. CASE \E code : Refuse(code)
  BY <1>1, RefuseKeepsInv
<1>2. CASE /\ Connectable(r)
           /\ devices' = Put(devices, r, receivers[r].fingerprint)
           /\ Update(r, [receivers[r] EXCEPT !.state = "connected"])
           /\ UNCHANGED <<store, approved>>
  <2> DEFINE s == [receivers[r] EXCEPT !.state = "connected"]
             f == receivers[r].fingerprint
  <2>1. /\ r \in DOMAIN receivers
        /\ f \in Fingerprints /\ f \in approved
    BY <1>2 DEF Connectable, Known, RegistryInv, RegistryTypeOK,
                ReceiverSummary, Advertised, TrustedIsApproved
  <2>2. /\ s \in ReceiverSummary
        /\ s.fingerprint = f /\ s.trusted = receivers[r].trusted
    BY <2>1 DEF RegistryInv, RegistryTypeOK, ReceiverSummary, ConnectionState
  <2>3. /\ DOMAIN receivers' = DOMAIN receivers
        /\ receivers' \in [DOMAIN receivers' -> ReceiverSummary]
        /\ \A x \in DOMAIN receivers :
             receivers'[x] = IF x = r THEN s ELSE receivers[x]
    <3> HIDE DEF s
    <3> QED BY <1>2, <2>1, <2>2, UpdateType DEF RegistryInv, s
  <2>4. /\ DOMAIN devices' = DOMAIN devices \cup {r}
        /\ DOMAIN devices' \subseteq Receivers
        /\ devices' \in [DOMAIN devices' -> Fingerprints]
    <3>1. /\ DOMAIN devices \subseteq Receivers
          /\ devices \in [DOMAIN devices -> Fingerprints]
      BY DEF RegistryInv, RegistryTypeOK
    <3>2. devices' = Put(devices, r, f)
      BY <1>2
    <3> HIDE DEF s, f
    <3> QED BY <2>1, <3>1, <3>2, PutType
  <2>5. \A x \in DOMAIN devices' :
          devices'[x] = IF x = r THEN f ELSE devices[x]
    BY <1>2, <2>4, PutAt
  <2> HIDE DEF s, f
  <2>6. RegistryTypeOK'
    BY <1>2, <2>3, <2>4 DEF RegistryInv, RegistryTypeOK
  <2>7. DevicesAreKnown' /\ (store \subseteq approved)'
    BY <1>2, <2>1, <2>3, <2>4 DEF RegistryInv, DevicesAreKnown
  <2>8. TrustedIsApproved'
    BY <1>2, <2>1, <2>2, <2>3 DEF RegistryInv, TrustedIsApproved
  <2>9. OnlyApprovedIsPinned'
    BY <1>2, <2>1, <2>4, <2>5 DEF RegistryInv, OnlyApprovedIsPinned
  <2>10. ConnectedKeepsPin'
    BY <1>2, <2>1, <2>2, <2>3, <2>4, <2>5 DEF RegistryInv, ConnectedKeepsPin
  <2> QED BY <2>6, <2>7, <2>8, <2>9, <2>10 DEF RegistryInv
<1> QED BY <1>1, <1>2 DEF ConnectReceiver, Pin, DispatchConnect

(* Disconnecting drops the handle and the connected state together.        *)
LEMMA DisconnectKeepsInv ==
  ASSUME RegistryInv, NEW r \in Receivers, DisconnectReceiver(r)
  PROVE  RegistryInv'
<1>1. CASE \E code : Refuse(code)
  BY <1>1, RefuseKeepsInv
<1>2. CASE /\ Known(r)
           /\ devices' = Drop(devices, r)
           /\ Update(r, [receivers[r] EXCEPT !.state = "disconnected"])
           /\ UNCHANGED <<store, approved>>
  <2> DEFINE s == [receivers[r] EXCEPT !.state = "disconnected"]
  <2>1. r \in DOMAIN receivers
    BY <1>2 DEF Known
  <2>2. /\ s \in ReceiverSummary
        /\ s.fingerprint = receivers[r].fingerprint
        /\ s.trusted = receivers[r].trusted
        /\ s.state # "connected"
    BY <2>1 DEF RegistryInv, RegistryTypeOK, ReceiverSummary, ConnectionState
  <2>3. /\ DOMAIN receivers' = DOMAIN receivers
        /\ receivers' \in [DOMAIN receivers' -> ReceiverSummary]
        /\ \A x \in DOMAIN receivers :
             receivers'[x] = IF x = r THEN s ELSE receivers[x]
    <3> HIDE DEF s
    <3> QED BY <1>2, <2>1, <2>2, UpdateType DEF RegistryInv, s
  <2>4. /\ DOMAIN devices' = DOMAIN devices \ {r}
        /\ DOMAIN devices' \subseteq Receivers
        /\ devices' \in [DOMAIN devices' -> Fingerprints]
        /\ \A x \in DOMAIN devices' : devices'[x] = devices[x]
    <3>1. /\ DOMAIN devices \subseteq Receivers
          /\ devices \in [DOMAIN devices -> Fingerprints]
      BY DEF RegistryInv, RegistryTypeOK
    <3>2. devices' = Drop(devices, r)
      BY <1>2
    <3>3. /\ DOMAIN Drop(devices, r) = DOMAIN devices \ {r}
          /\ DOMAIN Drop(devices, r) \subseteq Receivers
          /\ Drop(devices, r) \in [DOMAIN Drop(devices, r) -> Fingerprints]
      BY <3>1, DropType
    <3>4. \A x \in DOMAIN devices \ {r} : Drop(devices, r)[x] = devices[x]
      BY DropAt
    <3> QED BY <3>2, <3>3, <3>4
  <2> HIDE DEF s
  <2>5. RegistryTypeOK'
    BY <1>2, <2>3, <2>4 DEF RegistryInv, RegistryTypeOK
  <2>6. DevicesAreKnown' /\ (store \subseteq approved)'
    BY <1>2, <2>3, <2>4 DEF RegistryInv, DevicesAreKnown
  <2>7. TrustedIsApproved'
    BY <1>2, <2>2, <2>3 DEF RegistryInv, TrustedIsApproved
  <2>8. OnlyApprovedIsPinned'
    BY <1>2, <2>4 DEF RegistryInv, OnlyApprovedIsPinned
  <2>9. ConnectedKeepsPin'
    BY <2>2, <2>3, <2>4 DEF RegistryInv, ConnectedKeepsPin
  <2> QED BY <2>5, <2>6, <2>7, <2>8, <2>9 DEF RegistryInv
<1> QED BY <1>1, <1>2 DEF DisconnectReceiver, DispatchDisconnect

(* A restart forgets records and handles and keeps the store.              *)
LEMMA RestartKeepsInv ==
  ASSUME RegistryInv, RestartRegistry
  PROVE  RegistryInv'
BY DEF RestartRegistry, RestartWith, RegistryInv, RegistryTypeOK, DevicesAreKnown,
       TrustedIsApproved, OnlyApprovedIsPinned, ConnectedKeepsPin, EmptyMap

(* A step that touches no table keeps the invariant.                       *)
LEMMA StutterKeepsInv ==
  ASSUME RegistryInv, UNCHANGED <<receivers, store, devices, approved>>
  PROVE  RegistryInv'
BY DEF RegistryInv, RegistryTypeOK, DevicesAreKnown,
       TrustedIsApproved, OnlyApprovedIsPinned, ConnectedKeepsPin

(* Every request keeps the inductive invariant.                            *)
LEMMA RequestKeepsInv ==
  ASSUME RegistryInv, RegistryRequest
  PROVE  RegistryInv'
<1>1. CASE DiscoverReceivers
  BY <1>1, DiscoverKeepsInv
<1>2. ASSUME NEW r \in Receivers, NEW f \in Fingerprints, TrustReceiver(r, f)
      PROVE  RegistryInv'
  BY <1>2, TrustKeepsInv
<1>3. ASSUME NEW r \in Receivers, ForgetReceiver(r)
      PROVE  RegistryInv'
  BY <1>3, ForgetKeepsInv
<1>4. ASSUME NEW r \in Receivers, ConnectReceiver(r)
      PROVE  RegistryInv'
  BY <1>4, ConnectKeepsInv
<1>5. ASSUME NEW r \in Receivers, DisconnectReceiver(r)
      PROVE  RegistryInv'
  BY <1>5, DisconnectKeepsInv
<1> QED
  BY <1>1, <1>2, <1>3, <1>4, <1>5 DEF RegistryRequest

(* Every step of the registry, stuttering included, keeps it.              *)
LEMMA RegistryInvStep ==
  ASSUME RegistryInv, [RegistryNext]_registryVars
  PROVE  RegistryInv'
<1>1. CASE RegistryRequest
  BY <1>1, RequestKeepsInv
<1>2. CASE RestartRegistry
  BY <1>2, RestartKeepsInv
<1>3. CASE UNCHANGED registryVars
  BY <1>3, StutterKeepsInv DEF registryVars
<1> QED BY <1>1, <1>2, <1>3 DEF RegistryNext

(* The inductive invariant gives the two that speak of the handles.        *)
LEMMA RegistryInvImplies ==
  RegistryInv => ConnectedIsPinned /\ OnlyApprovedIsPinned
BY NoFingerprintAssumption
   DEF RegistryInv, ConnectedIsPinned, OnlyApprovedIsPinned, TrustedIsApproved,
       ConnectedKeepsPin, RegistryTypeOK

----------------------------------------------------------------------------
(* In every reachable state the tables relate as the inductive invariant   *)
(* says, for any receivers and fingerprints.                               *)
THEOREM RegistryInvariance == RegistrySpec => []RegistryInv
<1>1. RegistryInit => RegistryInv
  BY RegistryInvInit
<1>2. RegistryInv /\ [RegistryNext]_registryVars => RegistryInv'
  BY RegistryInvStep
<1> QED BY <1>1, <1>2, PTL DEF RegistrySpec

(* The tables are always well-typed.                                       *)
THEOREM RegistryTypeCorrect == RegistrySpec => []RegistryTypeOK
<1>1. RegistryInv => RegistryTypeOK
  BY DEF RegistryInv
<1> QED BY <1>1, RegistryInvariance, PTL

(* A receiver that dispatch would accept for session.load (trusted and     *)
(* connected) always has an open handle pinned to its listed fingerprint.  *)
THEOREM ConnectedIsPinnedAlways == RegistrySpec => []ConnectedIsPinned
BY RegistryInvImplies, RegistryInvariance, PTL

(* A handle is open only on fingerprints the user approved, across any     *)
(* discoveries, forgets, failed writes and restarts.                       *)
THEOREM OnlyApprovedAlways == RegistrySpec => []OnlyApprovedIsPinned
BY RegistryInvImplies, RegistryInvariance, PTL

----------------------------------------------------------------------------
(* The registry of one process whose file other processes write too.       *)

(* What a request of this process lists as trusted was listed before, or   *)
(* is in its store afterwards.                                             *)
LEMMA ListedStep ==
  ASSUME RegistryInv, RegistryRequest, NEW x \in Receivers, ListedTrusted(x)'
  PROVE  \/ receivers'[x].fingerprint \in store'
         \/ /\ ListedTrusted(x)
            /\ receivers'[x].fingerprint = receivers[x].fingerprint
<1> DEFINE Goal ==
      \/ receivers'[x].fingerprint \in store'
      \/ /\ ListedTrusted(x)
         /\ receivers'[x].fingerprint = receivers[x].fingerprint
<1> SUFFICES Goal
  OBVIOUS
<1>1. ASSUME NEW code, Refuse(code)
      PROVE  Goal
  BY <1>1 DEF Refuse, ListedTrusted, Known
<1>2. CASE DiscoverReceivers
  <2>1. PICK found \in SUBSET Receivers : \E fp \in [found -> Advertised] :
          /\ receivers' = [r \in DOMAIN receivers \cup found |->
                             IF r \in found THEN DiscoveredSummary(fp[r])
                                            ELSE receivers[r]]
          /\ store' = store
    BY <1>2 DEF DiscoverReceivers
  <2>2. PICK fp \in [found -> Advertised] :
          /\ receivers' = [r \in DOMAIN receivers \cup found |->
                             IF r \in found THEN DiscoveredSummary(fp[r])
                                            ELSE receivers[r]]
          /\ store' = store
    BY <2>1
  <2>3. x \in DOMAIN receivers' /\ receivers'[x].trusted
    BY DEF ListedTrusted, Known
  <2>4. CASE x \in found
    BY <2>2, <2>3, <2>4 DEF DiscoveredSummary
  <2>5. CASE x \notin found
    BY <2>2, <2>3, <2>5 DEF ListedTrusted, Known
  <2> QED BY <2>4, <2>5
<1>3. ASSUME NEW r \in Receivers, NEW f \in Fingerprints, TrustReceiver(r, f),
             ~ \E code : Refuse(code)
      PROVE  Goal
  <2>1. /\ r \in DOMAIN receivers /\ receivers[r] \in ReceiverSummary
        /\ store' = store \cup {f}
        /\ receivers' = Put(receivers, r,
             [receivers[r] EXCEPT !.fingerprint = f, !.trusted = TRUE])
    BY <1>3 DEF TrustReceiver, DispatchTrust, Approves, Known, Update,
                RegistryInv, RegistryTypeOK
  <2> QED BY <2>1 DEF Put, ReceiverSummary, ListedTrusted, Known
<1>4. ASSUME NEW r \in Receivers, ~ \E code : Refuse(code),
             ForgetReceiver(r) \/ ConnectReceiver(r) \/ DisconnectReceiver(r)
      PROVE  Goal
  <2>1. PICK s \in {[receivers[r] EXCEPT !.fingerprint = NoFingerprint,
                                         !.trusted = FALSE],
                    [receivers[r] EXCEPT !.state = "connected"],
                    [receivers[r] EXCEPT !.state = "disconnected"]} :
          /\ r \in DOMAIN receivers /\ receivers[r] \in ReceiverSummary
          /\ receivers' = Put(receivers, r, s)
    BY <1>4 DEF DispatchForget, DispatchConnect, DispatchDisconnect,
                ForgetReceiver, ConnectReceiver, Pin, DisconnectReceiver,
                Connectable, Known, Update, RegistryInv, RegistryTypeOK
  <2>2. s.trusted => /\ receivers[r].trusted
                     /\ s.fingerprint = receivers[r].fingerprint
    BY <2>1 DEF ReceiverSummary
  <2> QED BY ONLY <2>1, <2>2, ListedTrusted(x)' DEF Put, ListedTrusted, Known
<1> HIDE DEF Goal
<1>5. CASE \E code : Refuse(code)
  BY <1>1, <1>5
<1>6. CASE ~ \E code : Refuse(code)
  BY <1>2, <1>3, <1>4, <1>6 DEF RegistryRequest
<1> QED BY <1>5, <1>6

(* The outcomes of the two requests that write the file: a refusal that    *)
(* touches nothing, or the store and the file change together.             *)
LEMMA TrustOutcome ==
  ASSUME NEW r \in Receivers, NEW f \in Fingerprints, TrustShared(r, f)
  PROVE  /\ UNCHANGED copies
         /\ \/ UNCHANGED <<receivers, store, devices, approved, disk, revoked, backed>>
            \/ /\ Approves(r, f)
               /\ store' = store \cup {f} /\ disk' = store \cup {f}
               /\ backed' = backed \cup store'
               /\ approved' = approved \cup {f}
               /\ revoked' = revoked \ {f}
<1>1. TrustShared(r, f) => UNCHANGED copies
  BY DEF TrustShared
<1>2. CASE reply' = "ok"
  BY <1>1, <1>2 DEF TrustShared, TrustReceiver, Refuse, Saves
<1>3. CASE reply' # "ok"
  BY <1>1, <1>3 DEF TrustShared, TrustReceiver, Refuse
<1> QED BY <1>2, <1>3

LEMMA ForgetOutcome ==
  ASSUME NEW r \in Receivers, ForgetShared(r)
  PROVE  /\ UNCHANGED <<copies, approved>>
         /\ \/ UNCHANGED <<receivers, store, devices, disk, revoked, backed>>
            \/ /\ Known(r)
               /\ store' = store \ {receivers[r].fingerprint}
               /\ disk' = IF receivers[r].fingerprint \in store THEN store'
                                                               ELSE disk
               /\ backed' \in {backed, backed \cup store'}
               /\ revoked' = revoked
                    \cup ({receivers[r].fingerprint} \cap Fingerprints)
<1>1. Known(r) => Listed(r) = {receivers[r].fingerprint}
  BY DEF Known, Listed
<1>2. ~Known(r) => UNCHANGED <<receivers, store, devices, approved>> /\ reply' # "ok"
  BY DEF ForgetShared, ForgetReceiver, Refuse
<1>3. CASE reply' # "ok"
  BY <1>3 DEF ForgetShared, ForgetReceiver, Refuse
<1>4. CASE reply' = "ok" /\ receivers[r].fingerprint \in store
  BY <1>1, <1>2, <1>4 DEF ForgetShared, ForgetReceiver, Refuse, Saves
<1>5. CASE reply' = "ok" /\ receivers[r].fingerprint \notin store
  BY <1>1, <1>2, <1>5 DEF ForgetShared, ForgetReceiver, Refuse
<1> QED BY <1>3, <1>4, <1>5

(* The requests of this process, seen without the file, are those of the   *)
(* registry.                                                               *)
LEMMA SharedIsRequest ==
  ASSUME SharedNext
  PROVE  \/ RegistryRequest
         \/ RestartShared
         \/ PeerRequest
BY DEF SharedNext, SharedRequest, RegistryRequest, TrustShared, ForgetShared, OtherRequest

(* What every copy holds, one copy at a time.                              *)
CopiesWithin(set) ==
  /\ disk \subseteq set /\ store \subseteq set
  /\ \A p \in Peers : copies[p] \subseteq set

LEMMA CopiedParts ==
  /\ Copied \subseteq approved <=> CopiesWithin(approved)
  /\ (Copied \subseteq approved)' <=> CopiesWithin(approved)'
BY DEF Copied, CopiesWithin

LEMMA SharedInvInit == SharedInit => SharedInv
<1> SUFFICES ASSUME SharedInit PROVE SharedInv
  OBVIOUS
<1>1. RegistryInv
  BY RegistryInvInit DEF SharedInit
<1>2. SharedTypeOK /\ revoked \cap store = {}
  BY DEF SharedInit, SharedTypeOK
<1>4. store \subseteq backed /\ TrustIsPersisted
  BY DEF SharedInit, RegistryInit, EmptyMap, TrustIsPersisted, ListedTrusted, Known
<1>3. CopiesWithin(approved)
  BY DEF SharedInit, RegistryInit, CopiesWithin
<1> QED BY <1>1, <1>2, <1>3, <1>4, CopiedParts DEF SharedInv

(* The registry's own invariant survives the other processes: a restart    *)
(* loads what they wrote, and that was approved somewhere.                 *)
LEMMA RegistryBesideOthers ==
  ASSUME SharedInv, [SharedNext]_allVars
  PROVE  RegistryInv'
<1> USE DEF SharedInv
<1>1. CASE RegistryRequest
  BY <1>1, RequestKeepsInv
<1>2. CASE RestartShared
  <2>1. disk \subseteq approved /\ disk \subseteq Fingerprints
    BY DEF Copied, SharedTypeOK
  <2> QED BY <1>2, <2>1
          DEF RestartShared, RestartWith, RegistryInv, RegistryTypeOK,
              DevicesAreKnown, TrustedIsApproved, OnlyApprovedIsPinned,
              ConnectedKeepsPin, EmptyMap
<1>3. CASE UNCHANGED <<receivers, store, devices, approved>>
  BY <1>3, StutterKeepsInv
<1>4. ASSUME NEW p \in Peers, NEW f \in Fingerprints, PeerTrusts(p, f)
      PROVE  RegistryInv'
  <2>1. UNCHANGED <<receivers, store, devices>> /\ approved' = approved \cup {f}
    BY <1>4 DEF PeerTrusts
  <2> QED BY <2>1 DEF RegistryInv, RegistryTypeOK, DevicesAreKnown,
                      TrustedIsApproved, OnlyApprovedIsPinned, ConnectedKeepsPin
<1>5. PeerRequest => \/ \E p \in Peers, f \in Fingerprints : PeerTrusts(p, f)
                     \/ UNCHANGED <<receivers, store, devices, approved>>
  BY DEF PeerRequest, PeerStarts, PeerForgets, registryVars
<1> QED BY <1>1, <1>2, <1>3, <1>4, <1>5, SharedIsRequest DEF allVars, registryVars

(* What is listed as trusted after a step was listed before, or is in the  *)
(* store afterwards.                                                       *)
LEMMA SharedListedStep ==
  ASSUME SharedInv, [SharedNext]_allVars, NEW x \in Receivers, ListedTrusted(x)'
  PROVE  \/ receivers'[x].fingerprint \in store'
         \/ /\ ListedTrusted(x)
            /\ receivers'[x].fingerprint = receivers[x].fingerprint
            /\ ~RestartShared
<1>0. ~RestartShared
  BY DEF RestartShared, RestartWith, EmptyMap, ListedTrusted, Known
<1>1. CASE RegistryRequest
  BY <1>0, <1>1, ListedStep DEF SharedInv
<1>2. CASE UNCHANGED receivers
  BY <1>0, <1>2 DEF ListedTrusted, Known
<1>3. PeerRequest => UNCHANGED receivers
  BY DEF PeerRequest, PeerStarts, PeerTrusts, PeerForgets, registryVars
<1> QED BY <1>0, <1>1, <1>2, <1>3, SharedIsRequest DEF allVars, registryVars

(* Every step keeps the copies among the approved, what this process       *)
(* forgot out of its store, and its store among what was in the file.      *)
LEMMA SharedInvStep ==
  ASSUME SharedInv, [SharedNext]_allVars
  PROVE  SharedInv'
<1> DEFINE Goal ==
      /\ SharedTypeOK' /\ CopiesWithin(approved)' /\ (revoked \cap store = {})'
      /\ store' \subseteq backed' /\ (backed \subseteq backed' \/ RestartShared)
<1> SUFFICES Goal
  <2>1. Goal => TrustIsPersisted'
    <3> SUFFICES ASSUME Goal, NEW x \in Receivers, ListedTrusted(x)'
                 PROVE  receivers'[x].fingerprint \in backed'
      BY DEF TrustIsPersisted
    <3> HIDE DEF Goal
    <3>1. store' \subseteq backed' /\ (backed \subseteq backed' \/ RestartShared)
      BY DEF Goal
    <3> QED BY <3>1, SharedListedStep DEF SharedInv, TrustIsPersisted
  <2> QED BY <2>1, RegistryBesideOthers, CopiedParts DEF SharedInv
<1>0. /\ SharedTypeOK /\ CopiesWithin(approved) /\ revoked \cap store = {}
      /\ store \subseteq backed
      /\ store \subseteq Fingerprints /\ approved \subseteq Fingerprints
  BY CopiedParts DEF SharedInv, RegistryInv, RegistryTypeOK
<1>1. ASSUME NEW r \in Receivers, NEW f \in Fingerprints, TrustShared(r, f)
      PROVE  Goal
  BY <1>0, <1>1, TrustOutcome DEF SharedTypeOK, CopiesWithin
<1>2. ASSUME NEW r \in Receivers, ForgetShared(r)
      PROVE  Goal
  BY <1>0, <1>2, ForgetOutcome DEF SharedTypeOK, CopiesWithin
<1>3. CASE OtherRequest
  <2>1. UNCHANGED <<disk, copies, revoked, backed, store, approved>>
    BY <1>3 DEF OtherRequest, sharedVars, DiscoverReceivers, ConnectReceiver,
                DisconnectReceiver, Refuse
  <2> QED BY <1>0, <2>1 DEF SharedTypeOK, CopiesWithin
<1>4. CASE RestartShared
  BY <1>0, <1>4 DEF RestartShared, RestartWith, SharedTypeOK, CopiesWithin
<1>5. CASE PeerRequest
  <2>1. PICK p \in Peers : \/ PeerStarts(p)
                           \/ \E f \in Fingerprints : PeerTrusts(p, f) \/ PeerForgets(p, f)
    BY <1>5 DEF PeerRequest
  <2>2. copies \in [Peers -> SUBSET Fingerprints] /\ copies[p] \subseteq approved
    BY <1>0 DEF SharedTypeOK, CopiesWithin
  <2>3. CASE PeerStarts(p)
    BY <1>0, <2>2, <2>3 DEF PeerStarts, registryVars, SharedTypeOK, CopiesWithin
  <2>4. ASSUME NEW f \in Fingerprints, PeerTrusts(p, f) PROVE Goal
    BY <1>0, <2>2, <2>4 DEF PeerTrusts, PeerSaves, SharedTypeOK, CopiesWithin
  <2>5. ASSUME NEW f \in Fingerprints, PeerForgets(p, f) PROVE Goal
    BY <1>0, <2>2, <2>5 DEF PeerForgets, PeerSaves, registryVars, SharedTypeOK,
                            CopiesWithin
  <2> QED BY <2>1, <2>3, <2>4, <2>5
<1>6. CASE UNCHANGED allVars
  BY <1>0, <1>6 DEF allVars, registryVars, sharedVars, SharedTypeOK, CopiesWithin
<1> HIDE DEF Goal
<1> QED BY <1>1, <1>2, <1>3, <1>4, <1>5, <1>6 DEF SharedNext, SharedRequest

----------------------------------------------------------------------------
(* Beside any number of other processes, whatever they write, everything   *)
(* that is stored anywhere was approved, and what this process forgot      *)
(* stays out of its store.                                                 *)
THEOREM SharedInvariance == SharedSpec => []SharedInv
<1>1. SharedInit => SharedInv
  BY SharedInvInit
<1>2. SharedInv /\ [SharedNext]_allVars => SharedInv'
  BY SharedInvStep
<1> QED BY <1>1, <1>2, PTL DEF SharedSpec

(* A trusted and connected record has a handle on the key it lists, also   *)
(* when other processes rewrite the trust file.                            *)
THEOREM ConnectedIsPinnedBesideOthers == SharedSpec => []ConnectedIsPinned
<1>1. SharedInv => ConnectedIsPinned
  BY RegistryInvImplies DEF SharedInv
<1> QED BY <1>1, SharedInvariance, PTL

(* A handle is open only on keys that a user approved in some process.     *)
THEOREM OnlyApprovedBesideOthers == SharedSpec => []OnlyApprovedIsPinned
<1>1. SharedInv => OnlyApprovedIsPinned
  BY RegistryInvImplies DEF SharedInv
<1> QED BY <1>1, SharedInvariance, PTL

(* What is listed as trusted was read from the file or written to it: no   *)
(* failed write leaves trust behind, in a record or in the store.          *)
THEOREM TrustIsPersistedAlways == SharedSpec => []TrustIsPersisted
<1>1. SharedInv => TrustIsPersisted
  BY DEF SharedInv
<1> QED BY <1>1, SharedInvariance, PTL

(* What was forgotten here is not listed as trusted again before the user  *)
(* approves it here: a record becomes trusted only from the store, and the *)
(* store holds nothing that was forgotten.                                 *)
THEOREM ForgottenIsNotListedAlways == SharedSpec => ForgottenIsNotListed
<1>1. SharedInv /\ SharedInv' /\ [SharedNext]_allVars
        => [\A r \in Receivers :
              ListedTrusted(r)' /\ receivers'[r].fingerprint \in revoked' =>
                /\ ListedTrusted(r)
                /\ receivers[r].fingerprint = receivers'[r].fingerprint]_allVars
  BY SharedListedStep DEF SharedInv
<1> QED BY <1>1, SharedInvariance, PTL DEF SharedSpec, ForgottenIsNotListed

----------------------------------------------------------------------------
(* Where trust can come from.                                              *)

LEMMA HeldParts ==
  /\ CopiesWithin(Held)
  /\ \A r \in Receivers : ListedTrusted(r) => receivers[r].fingerprint \in Held
BY DEF CopiesWithin, Held, Copied

\* What a step may bring in beside what was held.
ComesFrom(set) ==
  /\ disk' \subseteq set /\ store' \subseteq set
  /\ \A p \in Peers : copies'[p] \subseteq set
  /\ \A r \in Receivers : ListedTrusted(r)' => receivers'[r].fingerprint \in set

LEMMA HeldNext ==
  ASSUME NEW set, ComesFrom(set)
  PROVE  Held' \subseteq set
BY DEF ComesFrom, Held, Copied

(* A step holds what was held before, and at most one approval more.       *)
LEMMA HeldStep ==
  ASSUME SharedInv, [SharedNext]_allVars
  PROVE  \A f \in Held' \ Held : Approval(f)
<1> DEFINE Goal == \A f \in Held' \ Held : Approval(f)
<1> SUFFICES Goal
  OBVIOUS
<1>0. /\ RegistryInv /\ copies \in [Peers -> SUBSET Fingerprints]
      /\ \A p \in Peers : copies[p] \subseteq Held
      /\ \A r \in Receivers : ListedTrusted(r) => receivers[r].fingerprint \in Held
  BY HeldParts DEF SharedInv, SharedTypeOK, CopiesWithin
<1>1. ASSUME NEW set, Held \subseteq set, RegistryRequest, UNCHANGED copies,
             disk' \subseteq set, store' \subseteq set
      PROVE  Held' \subseteq set
  <2>1. ASSUME NEW x \in Receivers, ListedTrusted(x)'
        PROVE  receivers'[x].fingerprint \in set
    BY <1>0, <1>1, <2>1, ListedStep
  <2>2. ComesFrom(set)
    BY <1>0, <1>1, <2>1 DEF ComesFrom
  <2> QED BY <2>2, HeldNext
<1>2. disk \subseteq Held /\ store \subseteq Held
  BY HeldParts DEF CopiesWithin
<1>3. ASSUME NEW r \in Receivers, NEW f \in Fingerprints, TrustShared(r, f)
      PROVE  Goal
  <2>1. CASE UNCHANGED <<store, disk>>
    <3>1. Held' \subseteq Held
      BY <1>1, <1>2, <1>3, <2>1, TrustOutcome DEF TrustShared, RegistryRequest
    <3> QED BY <3>1
  <2>2. CASE Approves(r, f) /\ store' = store \cup {f} /\ disk' = store \cup {f}
    <3> DEFINE grown == Held \cup {f}
    <3>1. Held \subseteq grown /\ disk' \subseteq grown /\ store' \subseteq grown
      BY <1>2, <2>2
    <3>2. RegistryRequest /\ UNCHANGED copies
      BY <1>3 DEF TrustShared, RegistryRequest
    <3>3. Held' \subseteq grown
      <4> HIDE DEF grown
      <4> QED BY <1>1, <3>1, <3>2
    <3>4. Approval(f)
      BY <1>3, <2>2 DEF Approval
    <3> QED BY <3>3, <3>4
  <2> QED BY <1>3, <2>1, <2>2, TrustOutcome
<1>4. ASSUME NEW r \in Receivers, ForgetShared(r)
      PROVE  Goal
  <2>1. disk' \subseteq Held /\ store' \subseteq Held /\ UNCHANGED copies
    BY <1>2, <1>4, ForgetOutcome
  <2>2. Held' \subseteq Held
    BY <1>1, <1>4, <2>1 DEF ForgetShared, RegistryRequest
  <2> QED BY <2>2
<1>5. CASE OtherRequest
  <2>1. UNCHANGED <<disk, copies, store>>
    BY <1>5 DEF OtherRequest, sharedVars, DiscoverReceivers, ConnectReceiver,
                DisconnectReceiver, Refuse
  <2>2. Held' \subseteq Held
    BY <1>1, <1>2, <1>5, <2>1 DEF OtherRequest, RegistryRequest
  <2> QED BY <2>2
<1>6. CASE RestartShared
  <2>1. /\ store' = disk /\ UNCHANGED <<disk, copies>>
        /\ \A r : ~ListedTrusted(r)'
    BY <1>6 DEF RestartShared, RestartWith, EmptyMap, ListedTrusted, Known
  <2>2. ComesFrom(Held)
    BY <1>0, <1>2, <2>1 DEF ComesFrom
  <2> QED BY <2>2, HeldNext
<1>7. CASE PeerRequest
  <2>1. PICK p \in Peers : \/ PeerStarts(p)
                           \/ \E f \in Fingerprints : PeerTrusts(p, f) \/ PeerForgets(p, f)
    BY <1>7 DEF PeerRequest
  <2> DEFINE Kept == /\ UNCHANGED <<receivers, store>>
                     /\ \A q \in Peers \ {p} : copies'[q] = copies[q]
  <2>2. ASSUME NEW set, Held \subseteq set, Kept,
               disk' \subseteq set, copies'[p] \subseteq set
        PROVE  Held' \subseteq set
    <3>1. \A r \in Receivers : ListedTrusted(r)' => ListedTrusted(r)
      BY <2>2 DEF ListedTrusted, Known
    <3>2. ComesFrom(set)
      BY <1>0, <1>2, <2>2, <3>1 DEF ComesFrom
    <3> QED BY <3>2, HeldNext
  <2>3. copies[p] \subseteq Held
    BY <1>0
  <2>4. CASE PeerStarts(p)
    <3>1. Kept /\ disk' = disk /\ copies'[p] = disk
      BY <1>0, <2>4 DEF PeerStarts, registryVars
    <3> QED BY <1>2, <2>2, <3>1
  <2>5. ASSUME NEW f \in Fingerprints, PeerTrusts(p, f) PROVE Goal
    <3>1. Kept /\ disk' = copies[p] \cup {f} /\ copies'[p] = copies[p] \cup {f}
      BY <1>0, <2>5 DEF PeerTrusts, PeerSaves
    <3> DEFINE grown == Held \cup {f}
    <3>2. Held \subseteq grown /\ disk' \subseteq grown /\ copies'[p] \subseteq grown
      BY <2>3, <3>1
    <3>3. Held' \subseteq grown
      <4> HIDE DEF grown
      <4> QED BY <2>2, <3>1, <3>2
    <3>4. Approval(f)
      BY <2>5 DEF Approval
    <3> QED BY <3>3, <3>4
  <2>6. ASSUME NEW f \in Fingerprints, PeerForgets(p, f) PROVE Goal
    <3>1. Kept /\ disk' \subseteq copies[p] /\ copies'[p] \subseteq copies[p]
      BY <1>0, <2>6 DEF PeerForgets, PeerSaves, registryVars
    <3> QED BY <2>2, <2>3, <3>1
  <2> QED BY <2>1, <2>4, <2>5, <2>6
<1>8. CASE UNCHANGED allVars
  <2>1. ComesFrom(Held)
    BY <1>0, <1>2, <1>8 DEF allVars, registryVars, sharedVars, ComesFrom,
                            ListedTrusted, Known
  <2> QED BY <2>1, HeldNext
<1> HIDE DEF Goal
<1> QED BY <1>3, <1>4, <1>5, <1>6, <1>7, <1>8 DEF SharedNext, SharedRequest

(* Trust is never invented: whatever the processes load, write over and    *)
(* discover, a fingerprint nobody holds any more comes back by approval.   *)
THEOREM TrustIsNeverInventedAlways == SharedSpec => TrustIsNeverInvented
<1>1. SharedInv /\ [SharedNext]_allVars
        => [\A f \in Held' \ Held : Approval(f)]_allVars
  BY HeldStep
<1> QED BY <1>1, SharedInvariance, PTL DEF SharedSpec, TrustIsNeverInvented

----------------------------------------------------------------------------
(* The registry and the other processes use the file as SharedStore says.  *)

\* SharedStore's view: this process's store beside the others' copies.
View == [p \in Peers \cup {Self} |-> IF p = Self THEN store ELSE copies[p]]

\* One process takes a new view, the others keep theirs.
ViewOf(q, set) ==
  /\ store' = IF q = Self THEN set ELSE store
  /\ copies' = IF q = Self THEN copies ELSE [copies EXCEPT ![q] = set]

LEMMA ViewStep ==
  ASSUME copies \in [Peers -> SUBSET Fingerprints],
         NEW q \in Peers \cup {Self}, NEW set, ViewOf(q, set)
  PROVE  View' = [View EXCEPT ![q] = set]
<1>1. CASE q = Self
  BY <1>1 DEF ViewOf, View
<1>2. CASE q # Self
  <2>1. /\ q \in Peers /\ store' = store
        /\ \A p \in Peers : copies'[p] = IF p = q THEN set ELSE copies[p]
    BY <1>2 DEF ViewOf
  <2>2. \A p \in Peers \cup {Self} :
          (IF p = Self THEN store' ELSE copies'[p])
            = IF p = q THEN set ELSE IF p = Self THEN store ELSE copies[p]
    BY <1>2, <2>1
  <2> QED BY <1>2, <2>1, <2>2 DEF View
<1> QED BY <1>1, <1>2

LEMMA SharedInitRefines == SharedInit => Shared!Init
BY DEF SharedInit, RegistryInit, Shared!Init

(* Trust and forget here and there are Trust and Forget of SharedStore,    *)
(* starts are Load, and every other request leaves file and views alone.   *)
LEMMA SharedStepRefines ==
  ASSUME SharedInv, [SharedNext]_allVars
  PROVE  [Shared!Next]_<<disk, View>>
<1>0. copies \in [Peers -> SUBSET Fingerprints] /\ Self \notin Peers
  BY SelfAssumption DEF SharedInv, SharedTypeOK
<1>1. View[Self] = store /\ \A p \in Peers : View[p] = copies[p]
  BY <1>0 DEF View
<1> DEFINE Saved(q, set) == disk' = set /\ View' = [View EXCEPT ![q] = set]
           Goal == [Shared!Next]_<<disk, View>>
<1> SUFFICES Goal
  OBVIOUS
<1>2. UNCHANGED <<disk, store, copies>> => Goal
  BY DEF View
<1>3. ASSUME NEW q \in Peers \cup {Self}, NEW f \in Fingerprints,
             Saved(q, View[q] \cup {f})
      PROVE  Goal
  <2>1. Shared!Trust(q, f)
    BY <1>3 DEF Shared!Trust, Shared!Save, View
  <2> QED BY <2>1 DEF Shared!Next
<1>4. ASSUME NEW q \in Peers \cup {Self}, NEW f \in Fingerprints, f \in View[q],
             Saved(q, View[q] \ {f})
      PROVE  Goal
  <2>1. Shared!Forget(q, f)
    BY <1>4 DEF Shared!Forget, Shared!Save, View
  <2> QED BY <2>1 DEF Shared!Next
<1>5. ASSUME NEW q \in Peers \cup {Self},
             disk' = disk, View' = [View EXCEPT ![q] = disk]
      PROVE  Goal
  <2>1. Shared!Load(q)
    BY <1>5 DEF Shared!Load, View
  <2> QED BY <2>1 DEF Shared!Next
<1> HIDE DEF Goal
<1>6. ASSUME NEW r \in Receivers, NEW f \in Fingerprints, TrustShared(r, f)
      PROVE  Goal
  <2>1. CASE UNCHANGED <<disk, store>>
    BY <1>2, <1>6, <2>1, TrustOutcome
  <2>2. CASE store' = store \cup {f} /\ disk' = store \cup {f}
    <3>1. ViewOf(Self, store \cup {f})
      BY <1>6, <2>2, TrustOutcome DEF ViewOf
    <3>2. Saved(Self, View[Self] \cup {f})
      BY <1>0, <1>1, <2>2, <3>1, ViewStep
    <3> HIDE DEF Saved
    <3> QED BY <1>3, <3>2
  <2> QED BY <1>6, <2>1, <2>2, TrustOutcome
<1>7. ASSUME NEW r \in Receivers, ForgetShared(r)
      PROVE  Goal
  <2>1. CASE UNCHANGED <<disk, store>>
    BY <1>2, <1>7, <2>1, ForgetOutcome
  <2> DEFINE f == receivers[r].fingerprint
  <2>2. CASE store' = store \ {f} /\ disk' = (IF f \in store THEN store' ELSE disk)
    <3>1. CASE f \notin store
      BY <1>2, <1>7, <2>2, <3>1, ForgetOutcome
    <3>2. CASE f \in store
      <4>1. f \in Fingerprints
        BY <3>2 DEF SharedInv, RegistryInv, RegistryTypeOK
      <4>2. ViewOf(Self, store \ {f})
        BY <1>7, <2>2, ForgetOutcome DEF ViewOf
      <4>3. Saved(Self, View[Self] \ {f}) /\ f \in View[Self]
        BY <1>0, <1>1, <2>2, <3>2, <4>2, ViewStep
      <4> HIDE DEF Saved, f
      <4> QED BY <1>4, <4>1, <4>3
    <3> QED BY <3>1, <3>2
  <2> QED BY <1>7, <2>1, <2>2, ForgetOutcome
<1>8. CASE OtherRequest
  BY <1>2, <1>8 DEF OtherRequest, sharedVars, DiscoverReceivers, ConnectReceiver,
                    DisconnectReceiver, Refuse
<1>9. CASE RestartShared
  <2>1. ViewOf(Self, disk) /\ disk' = disk
    BY <1>9 DEF RestartShared, RestartWith, ViewOf
  <2> QED BY <1>0, <1>5, <2>1, ViewStep
<1>10. CASE PeerRequest
  <2>1. PICK p \in Peers : \/ PeerStarts(p)
                           \/ \E f \in Fingerprints : PeerTrusts(p, f) \/ PeerForgets(p, f)
    BY <1>10 DEF PeerRequest
  <2>2. p # Self
    BY <1>0
  <2>3. CASE PeerStarts(p)
    <3>1. ViewOf(p, disk) /\ disk' = disk
      BY <2>2, <2>3 DEF PeerStarts, registryVars, ViewOf
    <3> QED BY <1>0, <1>5, <3>1, ViewStep
  <2>4. ASSUME NEW f \in Fingerprints, PeerTrusts(p, f) PROVE Goal
    <3>1. ViewOf(p, copies[p] \cup {f}) /\ disk' = copies[p] \cup {f}
      BY <2>2, <2>4 DEF PeerTrusts, PeerSaves, ViewOf
    <3>2. Saved(p, View[p] \cup {f})
      BY <1>0, <1>1, <3>1, ViewStep
    <3> HIDE DEF Saved
    <3> QED BY <1>3, <3>2
  <2>5. ASSUME NEW f \in Fingerprints, PeerForgets(p, f) PROVE Goal
    <3>1. ViewOf(p, copies[p] \ {f}) /\ disk' = copies[p] \ {f} /\ f \in copies[p]
      BY <2>2, <2>5 DEF PeerForgets, PeerSaves, registryVars, ViewOf
    <3>2. Saved(p, View[p] \ {f}) /\ f \in View[p]
      BY <1>0, <1>1, <3>1, ViewStep
    <3> HIDE DEF Saved
    <3> QED BY <1>4, <3>2
  <2> QED BY <2>1, <2>3, <2>4, <2>5
<1>11. CASE UNCHANGED allVars
  BY <1>2, <1>11 DEF allVars, registryVars, sharedVars
<1> QED BY <1>6, <1>7, <1>8, <1>9, <1>10, <1>11 DEF SharedNext, SharedRequest

(* This process and the others implement SharedStore from the callers'     *)
(* side; TrustFile implements it from the side of the file.                *)
THEOREM ImplementsSharedStoreBesideOthers == SharedSpec => UsesSharedStore
<1>1. SharedInv /\ [SharedNext]_allVars => [Shared!Next]_<<disk, View>>
  BY SharedStepRefines
<1> QED BY <1>1, SharedInitRefines, SharedInvariance, PTL
        DEF SharedSpec, UsesSharedStore, Shared!Spec, View
=============================================================================
