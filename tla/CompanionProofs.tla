-------------------------- MODULE CompanionProofs --------------------------
(***************************************************************************)
(* Proofs about leases, sessions and files, for any receivers, keys, lease *)
(* ids, origins and bounds.  The inductive invariant has three parts that  *)
(* the requests disturb separately: the registry, the leases, and the      *)
(* sessions with their files.                                              *)
(***************************************************************************)
EXTENDS SharedCompanion, ReceiverRegistryProofs, FiniteSetTheorems

----------------------------------------------------------------------------
(* The registry part: every request is one of the registry's or leaves its *)
(* tables alone.                                                           *)
LEMMA RegistryPart ==
  ASSUME RegistryInv, [Next]_vars
  PROVE  RegistryInv'
<1>1. CASE RegistryRequest
  BY <1>1, RequestKeepsInv
<1>2. CASE Restart
  BY <1>2, RestartKeepsInv DEF Restart
<1>3. CASE UNCHANGED <<receivers, store, devices, approved>>
  BY <1>3, StutterKeepsInv
<1>4. Next => \/ RegistryRequest \/ Restart
              \/ UNCHANGED <<receivers, store, devices, approved>>
  BY DEF Next, CastRequest, CreateLease, RevokeLease, LoadDirect, LoadRelay,
         Deliver, ControlSession, SelectTrack, CloseSession, SessionRefused,
         Tick, Refuse, registryVars
<1> QED BY <1>1, <1>2, <1>3, <1>4 DEF vars, registryVars

----------------------------------------------------------------------------
(* The lease part.                                                         *)

(* What a request does to the leases.                                      *)
LeaseStep ==
  \/ UNCHANGED <<leases, now, uses>>
  \/ /\ UNCHANGED <<leases, uses>>
     /\ now < MaxTime /\ now' = now + 1
  \/ /\ leases' = EmptyMap
     /\ UNCHANGED <<now, uses>>
  \/ \E l \in LeaseIds :
       leases' = Drop(leases, l) /\ UNCHANGED <<now, uses>>
  \/ \E l \in LeaseIds : /\ l \in DOMAIN leases
                         /\ Spend(l) /\ now' \in now .. MaxTime
  \/ Spend(NoLease) /\ now' \in now .. MaxTime
  \/ \E l \in LeaseIds, lease \in Lease :
       /\ InsertLease(l, lease)
       /\ uses' = [uses EXCEPT ![l] = 0]
       /\ UNCHANGED now

(* A created lease is bound to a fingerprint the registry knows.           *)
LEMMA CreatedLeaseType ==
  ASSUME RegistryInv, LeaseTypeOK, NEW r \in Receivers, NEW o \in HttpsOrigins,
         NEW ttl \in 1 .. MaxTtl, Connectable(r)
  PROVE  [receiver |-> r, fingerprint |-> receivers[r].fingerprint,
          origin |-> o, expires |-> now + ttl] \in Lease
<1>1. receivers[r].fingerprint \in Fingerprints
  BY DEF Connectable, Known, RegistryInv, RegistryTypeOK, ReceiverSummary,
         Advertised
<1>2. now + ttl \in Nat
  BY CompanionAssumption DEF LeaseTypeOK
<1> QED BY <1>1, <1>2 DEF Lease

(* Every request changes the leases in one of these ways.                  *)
LEMMA NextIsLeaseStep ==
  ASSUME RegistryInv, LeaseTypeOK, [Next]_vars
  PROVE  LeaseStep
<1>1. CASE UNCHANGED vars
  BY <1>1 DEF vars, companionVars, LeaseStep
<1>2. CASE RegistryRequest /\ UNCHANGED companionVars
  BY <1>2 DEF companionVars, LeaseStep
<1>3. ASSUME NEW r \in Receivers, NEW o \in Origins, NEW ttl \in 1 .. MaxTtl,
             CreateLease(r, o, ttl)
      PROVE  LeaseStep
  <2>1. CASE UNCHANGED leaseVars
    BY <1>3, <2>1 DEF CreateLease, leaseVars, LeaseStep
  <2>2. CASE /\ Connectable(r) /\ o \in HttpsOrigins
             /\ \E l \in LeaseIds \ Unexpired :
                  /\ InsertLease(l, [receiver |-> r,
                                     fingerprint |-> receivers[r].fingerprint,
                                     origin |-> o, expires |-> now + ttl])
                  /\ uses' = [uses EXCEPT ![l] = 0]
    <3>1. UNCHANGED now
      BY <1>3 DEF CreateLease
    <3> QED BY <2>2, <3>1, CreatedLeaseType DEF LeaseStep
  <2> QED BY <1>3, <2>1, <2>2 DEF CreateLease
<1>4. ASSUME NEW r \in Receivers, LoadDirect(r)
      PROVE  LeaseStep
  BY <1>4 DEF LoadDirect, Deliver, leaseVars, LeaseStep
<1>5. ASSUME NEW r \in Receivers, NEW o \in Origins,
             NEW l \in LeaseIds \cup {NoLease}, LoadRelay(r, o, l)
      PROVE  LeaseStep
  <2>1. CASE UNCHANGED <<leaseVars, now>>
    BY <2>1 DEF leaseVars, LeaseStep
  <2>2. CASE l # NoLease /\ FailClaim(l) /\ UNCHANGED now
    BY <2>2 DEF FailClaim, LeaseStep
  <2>3. CASE /\ l = NoLease \/ Claimable(l, r, o)
             /\ Spend(l) /\ now' \in now .. MaxTime
    BY <2>3 DEF Claimable, LeaseStep
  <2> QED BY <1>5, <2>1, <2>2, <2>3 DEF LoadRelay, Deliver
<1>6. ASSUME NEW l \in LeaseIds, RevokeLease(l)
      PROVE  LeaseStep
  BY <1>6 DEF RevokeLease, LeaseStep
<1>7. ASSUME NEW s \in Media, NEW action \in Actions, ControlSession(s, action)
      PROVE  LeaseStep
  BY <1>7 DEF ControlSession, leaseVars, LeaseStep
<1>8. ASSUME NEW s \in Media, SelectTrack(s) \/ CloseSession(s)
      PROVE  LeaseStep
  BY <1>8 DEF SelectTrack, CloseSession, companionVars, leaseVars, LeaseStep
<1>9. CASE Tick
  BY <1>9 DEF Tick, leaseVars, LeaseStep
<1>10. CASE Restart
  BY <1>10 DEF Restart, EndProcess, LeaseStep
<1> QED
  BY <1>1, <1>2, <1>3, <1>4, <1>5, <1>6, <1>7, <1>8, <1>9, <1>10
     DEF Next, CastRequest

(* A claimed lease leaves the table with its first use; a new one enters   *)
(* it unused.                                                              *)
LEMMA LeaseStepKeepsInv ==
  ASSUME LeaseInv, LeaseStep
  PROVE  LeaseInv'
<1> USE DEF LeaseInv, LeaseTypeOK, LeaseSpentOnce
<1>1. CASE UNCHANGED <<leases, now, uses>>
  BY <1>1
<1>2. CASE /\ UNCHANGED <<leases, uses>>
           /\ now < MaxTime /\ now' = now + 1
  BY <1>2, CompanionAssumption
<1>3. CASE leases' = EmptyMap /\ UNCHANGED <<now, uses>>
  BY <1>3 DEF EmptyMap
<1>4. ASSUME NEW l \in LeaseIds,
             leases' = Drop(leases, l), UNCHANGED <<now, uses>>
      PROVE  LeaseInv'
  BY <1>4 DEF Drop
<1>5. ASSUME NEW l \in LeaseIds, l \in DOMAIN leases,
             Spend(l), now' \in now .. MaxTime
      PROVE  LeaseInv'
  <2>1. uses' = [uses EXCEPT ![l] = @ + 1] /\ uses[l] = 0
    BY <1>5, CompanionAssumption DEF Spend
  <2>2. leases' = Drop(leases, l)
    BY <1>5 DEF Spend
  <2>3. LeaseTypeOK'
    <3>1. now' \in 0 .. MaxTime
      BY <1>5, CompanionAssumption
    <3> QED BY <2>1, <2>2, <3>1 DEF Drop
  <2>4. LeaseSpentOnce'
    BY <2>1, <2>2 DEF Drop
  <2> QED BY <2>3, <2>4
<1>6. CASE Spend(NoLease) /\ now' \in now .. MaxTime
  <2>1. now' \in 0 .. MaxTime
    BY <1>6, CompanionAssumption
  <2> QED BY <1>6, <2>1 DEF Spend, Drop
<1>7. ASSUME NEW l \in LeaseIds, NEW lease \in Lease, InsertLease(l, lease),
             uses' = [uses EXCEPT ![l] = 0], UNCHANGED now
      PROVE  LeaseInv'
  <2> DEFINE kept == [x \in Unexpired |-> leases[x]]
  <2>1. /\ DOMAIN kept \subseteq DOMAIN leases
        /\ kept \in [DOMAIN kept -> Lease]
    BY DEF Unexpired
  <2>2. leases' = Put(kept, l, lease)
    BY <1>7 DEF InsertLease
  <2>3. /\ DOMAIN leases' = DOMAIN kept \cup {l}
        /\ leases' \in [DOMAIN leases' -> Lease]
    <3> HIDE DEF kept
    <3> QED BY <2>1, <2>2 DEF Put
  <2> HIDE DEF kept
  <2>4. LeaseTypeOK'
    BY <1>7, <2>1, <2>3
  <2>5. LeaseSpentOnce'
    BY <1>7, <2>1, <2>3
  <2> QED BY <2>4, <2>5
<1> QED
  BY <1>1, <1>2, <1>3, <1>4, <1>5, <1>6, <1>7 DEF LeaseStep

----------------------------------------------------------------------------
(* The session part.                                                       *)

Controlled(s, action) ==
  /\ s \in DOMAIN sessions /\ HasDevice(sessions[s].receiver)
  /\ screen' \in {screen, [screen EXCEPT ![devices[sessions[s].receiver]] =
                                           Nothing]}
  /\ sessions' = [sessions EXCEPT ![s].state = StateAfter(action, @),
                                  ![s].revision = SaturatingNext(@)]
  /\ UNCHANGED <<files, loads>>

Closed(s) ==
  /\ s \in DOMAIN sessions
  /\ sessions' = Drop(sessions, s) /\ files' = Drop(files, s)
  /\ UNCHANGED <<screen, loads>>

\* What a request does to the sessions, the files and the screens.
SessionStep ==
  \/ UNCHANGED sessionVars
  \/ \E r \in Receivers, relayed \in BOOLEAN :
       HasDevice(r) /\ Deliver(r, relayed)
  \/ \E s \in Media, action \in Actions : Controlled(s, action)
  \/ \E s \in Media : Closed(s)
  \/ /\ sessions' = EmptyMap /\ files' = EmptyMap
     /\ UNCHANGED <<screen, loads>>

(* Every request changes the sessions in one of these ways.                *)
LEMMA NextIsSessionStep ==
  ASSUME [Next]_vars
  PROVE  SessionStep
<1>1. CASE UNCHANGED vars
  BY <1>1 DEF vars, companionVars, sessionVars, SessionStep
<1>2. CASE RegistryRequest /\ UNCHANGED companionVars
  BY <1>2 DEF companionVars, sessionVars, SessionStep
<1>3. ASSUME NEW r \in Receivers, NEW o \in Origins, NEW ttl \in 1 .. MaxTtl,
             CreateLease(r, o, ttl)
      PROVE  SessionStep
  BY <1>3 DEF CreateLease, SessionStep
<1>4. ASSUME NEW r \in Receivers, LoadDirect(r)
      PROVE  SessionStep
  BY <1>4 DEF LoadDirect, SessionStep
<1>5. ASSUME NEW r \in Receivers, NEW o \in Origins,
             NEW l \in LeaseIds \cup {NoLease}, LoadRelay(r, o, l)
      PROVE  SessionStep
  BY <1>5 DEF LoadRelay, SessionStep
<1>6. ASSUME NEW l \in LeaseIds, RevokeLease(l)
      PROVE  SessionStep
  BY <1>6 DEF RevokeLease, SessionStep
<1>7. ASSUME NEW s \in Media, NEW action \in Actions, ControlSession(s, action)
      PROVE  SessionStep
  <2>1. CASE UNCHANGED <<sessions, screen>>
    BY <1>7, <2>1 DEF ControlSession, Command, sessionVars, SessionStep
  <2>2. CASE Controlled(s, action)
    BY <2>2 DEF SessionStep
  <2> QED BY <1>7, <2>1, <2>2 DEF ControlSession, Command, Controlled
<1>8. ASSUME NEW s \in Media, SelectTrack(s)
      PROVE  SessionStep
  BY <1>8 DEF SelectTrack, companionVars, sessionVars, SessionStep
<1>9. ASSUME NEW s \in Media, CloseSession(s)
      PROVE  SessionStep
  <2>1. CASE UNCHANGED <<sessions, files>>
    BY <1>9, <2>1 DEF CloseSession, sessionVars, SessionStep
  <2>2. CASE Closed(s)
    BY <2>2 DEF SessionStep
  <2> QED BY <1>9, <2>1, <2>2 DEF CloseSession, Closed
<1>10. CASE Tick
  BY <1>10 DEF Tick, sessionVars, SessionStep
<1>11. CASE Restart
  BY <1>11 DEF Restart, EndProcess, SessionStep
<1> QED
  BY <1>1, <1>2, <1>3, <1>4, <1>5, <1>6, <1>7, <1>8, <1>9, <1>10, <1>11
     DEF Next, CastRequest

(* A delivered load gets an id within bounds, and its file, if it has one, *)
(* joins whatever that id already holds.                                   *)
LEMMA DeliverKeepsInv ==
  ASSUME RegistryInv, SessionInv, NEW r \in Receivers, NEW relayed \in BOOLEAN,
         HasDevice(r), Deliver(r, relayed)
  PROVE  SessionInv'
<1> DEFINE id == NextSessionId
           new == NewSession(r, relayed)
           m == loads + 1
<1>0. \A s \in DOMAIN sessions :
        sessions[s].media \in Nat /\ sessions[s].media <= loads
  BY CompanionAssumption
     DEF SessionInv, SessionTypeOK, MediaDelivered, Session, Media
<1>1. /\ loads \in Nat /\ MaxLoads \in Nat /\ loads < MaxLoads
      /\ m \in Media /\ loads' = m
      /\ loads' \in 0 .. MaxLoads
  BY CompanionAssumption DEF SessionInv, SessionTypeOK, Deliver, Show, Media
<1>2. screen' \in [Fingerprints -> 0 .. MaxLoads]
  <2>1. m \in 0 .. MaxLoads
    BY <1>1
  <2>2. screen' = [screen EXCEPT ![devices[r]] = m]
    BY DEF Deliver, Show
  <2> HIDE DEF m
  <2> QED BY <2>1, <2>2 DEF SessionInv, SessionTypeOK
<1>3. CASE ~Accepts(r)
  <2>1. UNCHANGED <<sessions, files>>
    BY <1>3 DEF Deliver
  <2>2. SessionTypeOK'
    BY <1>1, <1>2, <2>1 DEF SessionInv, SessionTypeOK
  <2>3. SessionsCounted'
    <3>1. Cardinality(DOMAIN sessions) \in Nat
      BY FS_CardinalityType DEF SessionInv, SessionsCounted
    <3> QED BY <1>1, <2>1, <3>1 DEF SessionInv, SessionsCounted
  <2>4. RelayedFileIsHeld' /\ FilesHaveSession'
    BY <2>1 DEF SessionInv, RelayedFileIsHeld, FilesHaveSession, FilesOf
  <2>5. MediaDelivered'
    BY <1>0, <1>1, <2>1 DEF MediaDelivered
  <2> QED BY <2>2, <2>3, <2>4, <2>5 DEF SessionInv
<1>4. CASE Accepts(r)
  <2>1. /\ sessions' = Put(sessions, id, new)
        /\ files' = IF relayed THEN Put(files, id, FilesOf(id) \cup {m})
                               ELSE files
    BY <1>4 DEF Deliver, HoldFile
  <2>2. /\ IsFiniteSet(DOMAIN sessions)
        /\ Cardinality(DOMAIN sessions) \in Nat
        /\ Cardinality(DOMAIN sessions) <= loads
    BY FS_CardinalityType DEF SessionInv, SessionsCounted
  <2>3. id \in Media
    BY <1>1, <2>2 DEF NextSessionId, Media
  <2>4. new \in Session /\ new.media = m /\ new.relayed = relayed
    BY <1>1, CompanionAssumption DEF NewSession, Session, SessionState
  <2>5. /\ DOMAIN sessions' = DOMAIN sessions \cup {id}
        /\ sessions' \in [DOMAIN sessions' -> Session]
        /\ \A s \in DOMAIN sessions' :
             sessions'[s] = IF s = id THEN new ELSE sessions[s]
    <3> HIDE DEF id, new
    <3> QED BY <2>1, <2>4 DEF Put, SessionInv, SessionTypeOK
  <2>6. FilesOf(id) \cup {m} \in SUBSET Media
    BY <1>1 DEF FilesOf, SessionInv, SessionTypeOK
  <2>7. /\ DOMAIN files' \subseteq DOMAIN files \cup {id}
        /\ files' \in [DOMAIN files' -> SUBSET Media]
        /\ \A s \in DOMAIN files : s \in DOMAIN files' /\ files[s] \subseteq files'[s]
        /\ relayed => id \in DOMAIN files' /\ m \in files'[id]
    <3>1. CASE relayed
      <4> DEFINE held == FilesOf(id) \cup {m}
      <4>1. files' = Put(files, id, held)
        BY <2>1, <3>1
      <4>2. id \in DOMAIN files => files[id] \subseteq held
        BY DEF FilesOf
      <4>3. held \in SUBSET Media /\ m \in held
        BY <2>6
      <4> HIDE DEF held, id, m
      <4> QED BY <4>1, <4>2, <4>3 DEF Put, SessionInv, SessionTypeOK
    <3>2. CASE ~relayed
      BY <2>1, <3>2 DEF SessionInv, SessionTypeOK
    <3> QED BY <3>1, <3>2
  <2>8. SessionTypeOK'
    <3> HIDE DEF id, new, m
    <3> QED BY <1>1, <1>2, <2>3, <2>5, <2>7 DEF SessionInv, SessionTypeOK
  <2>9. SessionsCounted'
    <3>1. /\ IsFiniteSet(DOMAIN sessions \cup {id})
          /\ Cardinality(DOMAIN sessions \cup {id}) \in Nat
          /\ Cardinality(DOMAIN sessions \cup {id})
               <= Cardinality(DOMAIN sessions) + 1
      <4> HIDE DEF id
      <4>1. /\ IsFiniteSet(DOMAIN sessions \cup {id})
            /\ \/ Cardinality(DOMAIN sessions \cup {id})
                    = Cardinality(DOMAIN sessions)
               \/ Cardinality(DOMAIN sessions \cup {id})
                    = Cardinality(DOMAIN sessions) + 1
        BY <2>2, FS_AddElement
      <4> QED BY <2>2, <4>1
    <3> QED BY <1>1, <2>2, <2>5, <3>1 DEF SessionsCounted
  <2>10. RelayedFileIsHeld'
    <3> SUFFICES ASSUME NEW s \in DOMAIN sessions', sessions'[s].relayed
                 PROVE  /\ s \in DOMAIN files'
                        /\ sessions'[s].media \in files'[s]
      BY DEF RelayedFileIsHeld, FilesOf
    <3>1. CASE s = id
      BY <2>4, <2>5, <2>7, <3>1
    <3>2. CASE s # id
      <4>1. s \in DOMAIN sessions /\ sessions'[s] = sessions[s]
        <5> HIDE DEF id, new
        <5> QED BY <2>5, <3>2
      <4>2. s \in DOMAIN files /\ sessions[s].media \in files[s]
        BY <4>1 DEF SessionInv, RelayedFileIsHeld, FilesOf
      <4> QED BY <2>7, <4>1, <4>2
    <3> QED BY <3>1, <3>2
  <2>11. FilesHaveSession'
    <3> HIDE DEF id, new, m
    <3> QED BY <2>5, <2>7 DEF SessionInv, FilesHaveSession
  <2>12. MediaDelivered'
    <3>1. m \in Nat /\ m <= m /\ \A n \in Nat : n <= loads => n <= m
      BY <1>1
    <3> HIDE DEF id, new, m
    <3>2. ASSUME NEW s \in DOMAIN sessions'
          PROVE  sessions'[s].media <= m
      <4>1. CASE s = id
        BY <2>4, <2>5, <3>1, <4>1
      <4>2. CASE s # id
        <5>1. s \in DOMAIN sessions /\ sessions'[s] = sessions[s]
          BY <2>5, <4>2
        <5> QED BY <1>0, <3>1, <5>1
      <4> QED BY <4>1, <4>2
    <3> QED BY <1>1, <3>2 DEF MediaDelivered
  <2> QED BY <2>8, <2>9, <2>10, <2>11, <2>12 DEF SessionInv
<1> QED BY <1>3, <1>4

(* Controlling a session changes neither its media nor its files.          *)
LEMMA ControlKeepsInv ==
  ASSUME RegistryInv, SessionInv, NEW s \in Media, NEW action \in Actions,
         Controlled(s, action)
  PROVE  SessionInv'
<1>1. s \in DOMAIN sessions /\ sessions[s] \in Session
  BY DEF Controlled, SessionInv, SessionTypeOK
<1>2. /\ StateAfter(action, sessions[s].state) \in SessionState
      /\ SaturatingNext(sessions[s].revision) \in 1 .. MaxRevision
  BY <1>1, CompanionAssumption
     DEF Session, SessionState, StateAfter, SaturatingNext
<1>3. /\ DOMAIN sessions' = DOMAIN sessions
      /\ sessions' \in [DOMAIN sessions' -> Session]
      /\ \A x \in DOMAIN sessions :
           /\ sessions'[x].media = sessions[x].media
           /\ sessions'[x].relayed = sessions[x].relayed
  BY <1>1, <1>2 DEF Controlled, SessionInv, SessionTypeOK, Session
<1>4. screen' \in [Fingerprints -> 0 .. MaxLoads]
  BY CompanionAssumption DEF Controlled, SessionInv, SessionTypeOK, Nothing
<1>5. SessionTypeOK'
  BY <1>3, <1>4 DEF Controlled, SessionInv, SessionTypeOK
<1>6. SessionsCounted' /\ FilesHaveSession'
  BY <1>3 DEF Controlled, SessionInv, SessionsCounted, FilesHaveSession
<1>7. RelayedFileIsHeld'
  BY <1>3 DEF Controlled, SessionInv, RelayedFileIsHeld, FilesOf
<1>8. MediaDelivered'
  BY <1>3 DEF Controlled, SessionInv, MediaDelivered
<1> QED BY <1>5, <1>6, <1>7, <1>8 DEF SessionInv

(* Closing a session takes its files, and only its files, with it.         *)
LEMMA CloseKeepsInv ==
  ASSUME SessionInv, NEW s \in Media, Closed(s)
  PROVE  SessionInv'
<1>1. /\ DOMAIN sessions' = DOMAIN sessions \ {s}
      /\ sessions' \in [DOMAIN sessions' -> Session]
      /\ \A x \in DOMAIN sessions' : sessions'[x] = sessions[x]
  BY DEF Closed, Drop, SessionInv, SessionTypeOK
<1>2. /\ DOMAIN files' = DOMAIN files \ {s}
      /\ files' \in [DOMAIN files' -> SUBSET Media]
      /\ \A x \in DOMAIN files' : files'[x] = files[x]
  BY DEF Closed, Drop, SessionInv, SessionTypeOK
<1>3. SessionTypeOK'
  BY <1>1, <1>2 DEF Closed, SessionInv, SessionTypeOK
<1>4. SessionsCounted'
  <2>1. /\ IsFiniteSet(DOMAIN sessions \ {s})
        /\ Cardinality(DOMAIN sessions \ {s}) \in Nat
        /\ Cardinality(DOMAIN sessions) \in Nat
        /\ Cardinality(DOMAIN sessions \ {s}) <= Cardinality(DOMAIN sessions)
    <3> DEFINE live == DOMAIN sessions
    <3>1. IsFiniteSet(live)
      BY DEF SessionInv, SessionsCounted
    <3> HIDE DEF live
    <3>2. /\ IsFiniteSet(live \ {s})
          /\ Cardinality(live \ {s})
               = IF s \in live THEN Cardinality(live) - 1 ELSE Cardinality(live)
      BY <3>1, FS_RemoveElement
    <3>3. Cardinality(live) \in Nat /\ Cardinality(live \ {s}) \in Nat
      BY <3>1, <3>2, FS_CardinalityType
    <3>4. Cardinality(live \ {s}) <= Cardinality(live)
      BY <3>2, <3>3
    <3> QED BY <3>2, <3>3, <3>4 DEF live
  <2> QED BY <1>1, <2>1 DEF Closed, SessionInv, SessionsCounted, SessionTypeOK
<1>5. RelayedFileIsHeld'
  BY <1>1, <1>2 DEF SessionInv, RelayedFileIsHeld, FilesOf
<1>6. FilesHaveSession'
  BY <1>1, <1>2 DEF SessionInv, FilesHaveSession
<1>7. MediaDelivered'
  BY <1>1 DEF Closed, SessionInv, MediaDelivered
<1> QED BY <1>3, <1>4, <1>5, <1>6, <1>7 DEF SessionInv

(* Every change of the sessions keeps the session part.                    *)
LEMMA SessionStepKeepsInv ==
  ASSUME RegistryInv, SessionInv, SessionStep
  PROVE  SessionInv'
<1>1. CASE UNCHANGED sessionVars
  BY <1>1 DEF sessionVars, SessionInv, SessionTypeOK, SessionsCounted,
              MediaDelivered, RelayedFileIsHeld, FilesHaveSession, FilesOf
<1>2. CASE /\ sessions' = EmptyMap /\ files' = EmptyMap
           /\ UNCHANGED <<screen, loads>>
  <2>1. DOMAIN sessions' = {} /\ DOMAIN files' = {}
    BY <1>2 DEF EmptyMap
  <2>2. SessionTypeOK' /\ MediaDelivered' /\ RelayedFileIsHeld' /\ FilesHaveSession'
    BY <1>2, <2>1 DEF EmptyMap, SessionInv, SessionTypeOK, MediaDelivered,
                      RelayedFileIsHeld, FilesHaveSession
  <2>3. SessionsCounted'
    BY <1>2, <2>1, FS_EmptySet DEF SessionInv, SessionTypeOK, SessionsCounted
  <2> QED BY <2>2, <2>3 DEF SessionInv
<1> QED
  BY <1>1, <1>2, DeliverKeepsInv, ControlKeepsInv, CloseKeepsInv
     DEF SessionStep

----------------------------------------------------------------------------
(* The companion starts with the inductive invariant.                      *)
LEMMA CompanionInvInit == Init => CompanionInv
<1> SUFFICES ASSUME Init PROVE CompanionInv
  OBVIOUS
<1>1. RegistryInv
  BY RegistryInvInit DEF Init
<1>2. LeaseInv
  BY CompanionAssumption
     DEF Init, LeaseInv, LeaseTypeOK, LeaseSpentOnce, EmptyMap
<1>3. DOMAIN sessions = {} /\ DOMAIN files = {}
  BY DEF Init, EmptyMap
<1>4. SessionsCounted
  BY <1>3, FS_EmptySet DEF Init, SessionsCounted
<1>5. SessionInv
  BY <1>3, <1>4, CompanionAssumption
     DEF Init, SessionInv, SessionTypeOK, MediaDelivered, RelayedFileIsHeld,
         FilesHaveSession, EmptyMap, Nothing
<1> QED BY <1>1, <1>2, <1>5 DEF CompanionInv

(* Every request keeps it.                                                 *)
LEMMA CompanionInvStep ==
  ASSUME CompanionInv, [Next]_vars
  PROVE  CompanionInv'
<1>1. RegistryInv'
  BY RegistryPart DEF CompanionInv
<1>2. LeaseInv'
  BY NextIsLeaseStep, LeaseStepKeepsInv DEF CompanionInv, LeaseInv
<1>3. SessionInv'
  BY NextIsSessionStep, SessionStepKeepsInv DEF CompanionInv
<1> QED BY <1>1, <1>2, <1>3 DEF CompanionInv

----------------------------------------------------------------------------
(* The registry, the leases and the sessions of the companion relate as    *)
(* the inductive invariant says in every reachable state.                  *)
THEOREM CompanionInvariance == Spec => []CompanionInv
<1>1. Init => CompanionInv
  BY CompanionInvInit
<1>2. CompanionInv /\ [Next]_vars => CompanionInv'
  BY CompanionInvStep
<1> QED BY <1>1, <1>2, PTL DEF Spec

(* All tables of the companion are always well-typed.                      *)
THEOREM CompanionTypeCorrect == Spec => []CompanionTypeOK
<1>1. CompanionInv => CompanionTypeOK
  BY DEF CompanionInv, RegistryInv, LeaseInv, SessionInv, CompanionTypeOK
<1> QED BY <1>1, CompanionInvariance, PTL

(* A credential lease is used at most once.                                *)
THEOREM LeaseSpentOnceAlways == Spec => []LeaseSpentOnce
<1>1. CompanionInv => LeaseSpentOnce
  BY DEF CompanionInv, LeaseInv
<1> QED BY <1>1, CompanionInvariance, PTL

(* The file a live relayed session streams is held.                        *)
THEOREM RelayedFileIsHeldAlways == Spec => []RelayedFileIsHeld
<1>1. CompanionInv => RelayedFileIsHeld
  BY DEF CompanionInv, SessionInv
<1> QED BY <1>1, CompanionInvariance, PTL

(* No file is held for a session that is gone.                             *)
THEOREM FilesHaveSessionAlways == Spec => []FilesHaveSession
<1>1. CompanionInv => FilesHaveSession
  BY DEF CompanionInv, SessionInv
<1> QED BY <1>1, CompanionInvariance, PTL

----------------------------------------------------------------------------
(* A session is born only in a delivered load that dispatch accepted; then *)
(* the record is connected and trusted, so the handle pins its fingerprint *)
(* and the media went to that very receiver.                               *)
LEMMA BirthIsPinned ==
  ASSUME CompanionInv, [Next]_vars, NEW s \in Media, Born(s)
  PROVE  BornOnPinned(s)
<1>1. SessionStep
  BY NextIsSessionStep
<1>2. CASE \E r \in Receivers, relayed \in BOOLEAN :
             HasDevice(r) /\ Deliver(r, relayed)
  <2>1. PICK r \in Receivers, relayed \in BOOLEAN :
          HasDevice(r) /\ Deliver(r, relayed)
    BY <1>2
  <2>2. Accepts(r) /\ sessions' = Put(sessions, NextSessionId,
                                      NewSession(r, relayed))
    BY <2>1 DEF Deliver, Born
  <2>3. s = NextSessionId /\ sessions'[s] = NewSession(r, relayed)
    BY <2>2 DEF Born, Put
  <2>4. sessions'[s].receiver = r /\ sessions'[s].media = loads + 1
    BY <2>3 DEF NewSession
  <2>5. ListedTrusted(r) /\ receivers[r].state = "connected"
    BY <2>2 DEF Accepts, ListedTrusted
  <2>6. devices[r] = receivers[r].fingerprint
    BY <2>5, RegistryInvImplies
       DEF CompanionInv, ConnectedIsPinned, ListedTrusted, Known
  <2>7. devices[r] \in Fingerprints
    BY <2>1 DEF HasDevice, CompanionInv, RegistryInv, RegistryTypeOK
  <2>8. screen'[devices[r]] = loads + 1
    <3>1. screen' = [screen EXCEPT ![devices[r]] = loads + 1]
      BY <2>1 DEF Deliver, Show
    <3> QED BY <2>7, <3>1 DEF CompanionInv, SessionInv, SessionTypeOK
  <2> QED BY <2>1, <2>4, <2>5, <2>6, <2>8 DEF BornOnPinned
<1>3. CASE \E x \in Media, action \in Actions : Controlled(x, action)
  BY <1>3 DEF Controlled, Born, CompanionInv, SessionInv, SessionTypeOK,
              Session
<1>4. CASE \E x \in Media : Closed(x)
  BY <1>4 DEF Closed, Drop, Born
<1>5. CASE UNCHANGED sessionVars \/ sessions' = EmptyMap
  BY <1>5 DEF sessionVars, EmptyMap, Born
<1> QED BY <1>1, <1>2, <1>3, <1>4, <1>5 DEF SessionStep

(* No session comes to life on a receiver that is not trusted, or through  *)
(* a handle that pins another key than the one listed.                     *)
THEOREM SessionBornOnPinnedAlways == Spec => SessionBornOnPinned
<1>1. CompanionInv /\ [Next]_vars
        => [\A s \in Media : Born(s) => BornOnPinned(s)]_vars
  BY BirthIsPinned
<1> QED BY <1>1, CompanionInvariance, PTL DEF Spec, SessionBornOnPinned

----------------------------------------------------------------------------
(* Only session.load claims a lease and starts a session in one step.  The *)
(* claim compared the lease with the record, the birth is on a receiver    *)
(* that is pinned to the record's fingerprint (BirthIsPinned).             *)
LEMMA ClaimIsByLoad ==
  ASSUME LeaseTypeOK, [Next]_vars, NEW s \in Media, Born(s),
         NEW l \in LeaseIds, Claimed(l)
  PROVE  \E r \in Receivers, o \in Origins :
           Claimable(l, r, o) /\ Deliver(r, TRUE)
<1> DEFINE Goal == \E r \in Receivers, o \in Origins :
                     Claimable(l, r, o) /\ Deliver(r, TRUE)
<1> SUFFICES Goal
  OBVIOUS
<1>0. uses \in [LeaseIds -> Nat] /\ uses'[l] > uses[l]
  BY DEF LeaseTypeOK, Claimed
<1>1. uses' # uses
  BY <1>0
<1>2. sessions' # sessions
  BY DEF Born
<1>3. ASSUME NEW r \in Receivers, NEW o \in Origins,
             NEW k \in LeaseIds \cup {NoLease}, LoadRelay(r, o, k)
      PROVE  Goal
  <2>1. Deliver(r, TRUE) /\ (k = NoLease \/ Claimable(k, r, o)) /\ Spend(k)
    BY <1>1, <1>2, <1>3 DEF LoadRelay, leaseVars, sessionVars, FailClaim
  <2>2. k # NoLease /\ uses' = [uses EXCEPT ![k] = @ + 1]
    BY <1>1, <2>1 DEF Spend
  <2>3. k = l
    BY <1>0, <2>2
  <2> QED BY <2>1, <2>2, <2>3
<1> HIDE DEF Goal
<1>4. ASSUME \/ RegistryRequest /\ UNCHANGED companionVars
             \/ \E r \in Receivers :
                  \/ \E o \in Origins, ttl \in 1 .. MaxTtl : CreateLease(r, o, ttl)
                  \/ LoadDirect(r)
             \/ \E k \in LeaseIds : RevokeLease(k)
             \/ \E x \in Media :
                  \/ \E action \in Actions : ControlSession(x, action)
                  \/ SelectTrack(x)
                  \/ CloseSession(x)
             \/ Tick \/ Restart \/ UNCHANGED vars
      PROVE  FALSE
  BY <1>1, <1>2, <1>4
     DEF CreateLease, LoadDirect, RevokeLease, ControlSession, SelectTrack,
         CloseSession, Tick, Restart, EndProcess, vars, companionVars, leaseVars,
         sessionVars
<1> QED BY <1>3, <1>4 DEF Next, CastRequest

LEMMA LeasedBirthIsBound ==
  ASSUME CompanionInv, [Next]_vars, NEW s \in Media, NEW l \in LeaseIds,
         Born(s), Claimed(l)
  PROVE  /\ leases[l].receiver = sessions'[s].receiver
         /\ leases[l].fingerprint = devices[sessions'[s].receiver]
         /\ ~Expired(l)
<1>1. PICK r \in Receivers, o \in Origins :
        Claimable(l, r, o) /\ Deliver(r, TRUE)
  BY ClaimIsByLoad DEF CompanionInv, LeaseInv
<1>2. sessions' # sessions /\ Born(s)
  BY DEF Born
<1>3. sessions' = Put(sessions, NextSessionId, NewSession(r, TRUE))
  BY <1>1, <1>2 DEF Deliver
<1>4. sessions'[s].receiver = r
  BY <1>2, <1>3 DEF Born, Put, NewSession
<1>5. devices[r] = receivers[r].fingerprint
  BY <1>4, BirthIsPinned DEF BornOnPinned
<1> QED BY <1>1, <1>4, <1>5 DEF Claimable

(* A session that a lease paid for runs where the lease says, through a    *)
(* handle that pins the key the lease is bound to, however long the fetch  *)
(* between the claim and the session takes.                                *)
THEOREM LeasedSessionIsBoundAlways == Spec => LeasedSessionIsBound
<1>1. CompanionInv /\ [Next]_vars
        => [\A s \in Media, l \in LeaseIds :
              Born(s) /\ Claimed(l) =>
                /\ leases[l].receiver = sessions'[s].receiver
                /\ leases[l].fingerprint = devices[sessions'[s].receiver]
                /\ ~Expired(l)]_vars
  BY LeasedBirthIsBound
<1> QED BY <1>1, CompanionInvariance, PTL DEF Spec, LeasedSessionIsBound

----------------------------------------------------------------------------
(* A session that stays the same session changes only under control, which *)
(* counts its revision; a load that takes an id, free or not, brings media *)
(* that is newer than that of every session (MediaDelivered).              *)
LEMMA ChangeIsRevised ==
  ASSUME CompanionInv, [Next]_vars, NEW s \in DOMAIN sessions',
         s \in DOMAIN sessions => sessions'[s] # sessions[s]
  PROVE  Revised(s) \/ StartsAnew(s)
<1>1. SessionStep
  BY NextIsSessionStep
<1>2. ASSUME NEW r \in Receivers, NEW relayed \in BOOLEAN, Deliver(r, relayed)
      PROVE  StartsAnew(s)
  <2>1. sessions' = Put(sessions, NextSessionId, NewSession(r, relayed))
    BY <1>2 DEF Deliver
  <2>2. sessions'[s] = NewSession(r, relayed)
    BY <2>1 DEF Put
  <2>3. sessions'[s].revision = 1 /\ sessions'[s].media = loads + 1
    BY <2>2 DEF NewSession
  <2>4. \A x \in DOMAIN sessions :
          /\ sessions[x].media \in Nat /\ sessions[x].media <= loads
          /\ loads \in Nat
    BY CompanionAssumption
       DEF CompanionInv, SessionInv, SessionTypeOK, MediaDelivered, Session,
           Media
  <2> QED BY <2>3, <2>4 DEF StartsAnew
<1>3. ASSUME NEW x \in Media, NEW action \in Actions, Controlled(x, action)
      PROVE  Revised(s)
  <2>1. s = x /\ s \in DOMAIN sessions /\ sessions[s] \in Session
    BY <1>3 DEF Controlled, CompanionInv, SessionInv, SessionTypeOK
  <2>2. /\ sessions'[s].revision = SaturatingNext(sessions[s].revision)
        /\ sessions'[s].media = sessions[s].media
        /\ sessions'[s].receiver = sessions[s].receiver
    BY <1>3, <2>1 DEF Controlled, Session
  <2>3. sessions[s].revision \in 1 .. MaxRevision /\ MaxRevision \in Nat
    BY <2>1, CompanionAssumption DEF Session
  <2> QED BY <2>1, <2>2, <2>3 DEF SaturatingNext, Revised
<1>4. ASSUME NEW x \in Media, Closed(x)
      PROVE  FALSE
  BY <1>4 DEF Closed, Drop
<1>5. ~ UNCHANGED sessionVars /\ sessions' # EmptyMap
  BY DEF sessionVars, EmptyMap
<1> QED BY <1>1, <1>2, <1>3, <1>4, <1>5 DEF SessionStep

(* What is listed under a session id is revised or starts anew with a      *)
(* newer load, ids that are taken over or given out again included.        *)
THEOREM ChangeHasRevisionAlways == Spec => ChangeHasRevision
<1>1. CompanionInv /\ [Next]_vars
        => [\A s \in DOMAIN sessions' :
              \/ s \in DOMAIN sessions /\ sessions'[s] = sessions[s]
              \/ Revised(s)
              \/ StartsAnew(s)]_vars
  BY ChangeIsRevised
<1> QED BY <1>1, CompanionInvariance, PTL DEF Spec, ChangeHasRevision

----------------------------------------------------------------------------
(* The registry inside the companion.                                      *)

registryTables == <<receivers, store, devices, approved>>

(* What a request of the companion does to the registry's tables, the      *)
(* registry alone would have done.                                         *)
LEMMA CastKeepsRegistry == CastRequest => UNCHANGED registryTables
BY DEF CastRequest, CreateLease, RevokeLease, LoadDirect, LoadRelay, Deliver,
       ControlSession, SelectTrack, CloseSession, SessionRefused, Tick, Refuse,
       registryVars, registryTables

LEMMA NextIsRegistryStep == [Next]_vars => [RegistryNext]_registryTables
BY CastKeepsRegistry
   DEF Next, vars, RegistryNext, Restart, registryVars, registryTables

(* The companion implements the registry, whatever leases, sessions and    *)
(* loads come in between: its tables start as RegistryInit says and change *)
(* by steps of RegistryNext only.                                          *)
THEOREM CompanionRunsRegistry ==
  Spec => RegistryInit /\ [][RegistryNext]_registryTables
<1>1. Init => RegistryInit
  BY DEF Init
<1> QED BY <1>1, NextIsRegistryStep, PTL DEF Spec

----------------------------------------------------------------------------
(* The companion beside other companion processes.                         *)

(* What it does to the registry's tables, the file and the copies, the     *)
(* registry beside other processes would have done.                        *)
LEMMA AmongIsSharedStep ==
  [AmongNext]_everything =>
    \/ [SharedNext]_allVars
    \/ CastRequest /\ UNCHANGED <<registryTables, sharedVars>>
BY CastKeepsRegistry DEF AmongNext, SharedNext, PeerCasts, everything

(* Another process that casts to the same receivers takes numbers of loads *)
(* and screens, and nothing of this process's sessions.                    *)
LEMMA PeerCastsKeepsInv ==
  ASSUME RegistryInv, SessionInv, PeerCasts
  PROVE  SessionInv'
<1>1. /\ UNCHANGED <<sessions, files>>
      /\ loads \in 0 .. MaxLoads /\ loads' \in 0 .. MaxLoads /\ loads <= loads'
  BY CompanionAssumption DEF PeerCasts, SessionInv, SessionTypeOK
<1>2. screen' \in [Fingerprints -> 0 .. MaxLoads]
  <2>1. PICK f \in approved, m \in 0 .. MaxLoads : screen' = [screen EXCEPT ![f] = m]
    BY CompanionAssumption DEF PeerCasts, SessionInv, SessionTypeOK, Nothing
  <2> QED BY <2>1 DEF SessionInv, SessionTypeOK
<1>3. SessionTypeOK'
  BY <1>1, <1>2 DEF SessionInv, SessionTypeOK
<1>4. SessionsCounted'
  <2>1. Cardinality(DOMAIN sessions) \in Nat
    BY FS_CardinalityType DEF SessionInv, SessionsCounted
  <2> QED BY <1>1, <2>1 DEF SessionInv, SessionsCounted
<1>5. MediaDelivered'
  <2>1. \A s \in DOMAIN sessions : sessions[s].media \in Nat
    BY CompanionAssumption DEF SessionInv, SessionTypeOK, Session, Media
  <2> QED BY <1>1, <2>1 DEF SessionInv, MediaDelivered
<1>6. RelayedFileIsHeld' /\ FilesHaveSession'
  BY <1>1 DEF SessionInv, RelayedFileIsHeld, FilesHaveSession, FilesOf
<1> QED BY <1>3, <1>4, <1>5, <1>6 DEF SessionInv

LEMMA AmongInvStep ==
  ASSUME AmongInv, [AmongNext]_everything
  PROVE  AmongInv'
<1>0. SharedInv /\ RegistryInv /\ LeaseInv /\ SessionInv
  BY DEF AmongInv, SharedInv
<1>1. SharedInv'
  <2>1. CASE [SharedNext]_allVars
    BY <1>0, <2>1, SharedInvStep
  <2>2. CASE UNCHANGED <<registryTables, sharedVars>>
    <3>1. RegistryInv'
      BY <1>0, <2>2, StutterKeepsInv DEF registryTables
    <3> QED BY <1>0, <2>2, <3>1
            DEF registryTables, sharedVars, SharedInv, SharedTypeOK, Copied,
                TrustIsPersisted, ListedTrusted, Known
  <2> QED BY <2>1, <2>2, AmongIsSharedStep
<1>2. LeaseInv'
  <2>1. LeaseStep
    <3>1. CASE CastRequest
      BY <1>0, <3>1, NextIsLeaseStep DEF Next, LeaseInv
    <3> QED BY <3>1 DEF AmongNext, EndProcess, PeerCasts, everything,
                        companionVars, leaseVars, LeaseStep
  <2> QED BY <1>0, <2>1, LeaseStepKeepsInv
<1>3. SessionInv'
  <2>1. CASE PeerCasts
    BY <1>0, <2>1, PeerCastsKeepsInv
  <2>2. CASE ~PeerCasts
    <3>1. SessionStep
      <4>1. CASE CastRequest
        BY <4>1, NextIsSessionStep DEF Next
      <4> QED BY <2>2, <4>1 DEF AmongNext, EndProcess, everything,
                                companionVars, sessionVars, SessionStep
    <3> QED BY <1>0, <3>1, SessionStepKeepsInv
  <2> QED BY <2>1, <2>2
<1> QED BY <1>1, <1>2, <1>3 DEF AmongInv

(* Approvals, their copies in every process, leases and sessions relate as *)
(* the inductive invariant says, however many processes run.               *)
THEOREM AmongInvariance == AmongSpec => []AmongInv
<1>1. AmongInit => AmongInv
  BY SharedInvInit, CompanionInvInit
     DEF AmongInit, AmongInv, CompanionInv
<1>2. AmongInv /\ [AmongNext]_everything => AmongInv'
  BY AmongInvStep
<1> QED BY <1>1, <1>2, PTL DEF AmongSpec

LEMMA AmongInvImplies == AmongInv => CompanionInv
BY DEF AmongInv, SharedInv, CompanionInv

(* A session is born or changes only by a request to this process.         *)
LEMMA SessionIsOwn ==
  ASSUME [AmongNext]_everything, NEW s \in DOMAIN sessions',
         s \in DOMAIN sessions => sessions'[s] # sessions[s]
  PROVE  Next
<1>1. CASE CastRequest
  BY <1>1 DEF Next
<1>2. CASE ~CastRequest
  <2>1. UNCHANGED sessions \/ sessions' = EmptyMap
    BY <1>2 DEF AmongNext, EndProcess, PeerCasts, everything, companionVars
  <2> QED BY <2>1 DEF EmptyMap
<1> QED BY <1>1, <1>2

(* What another process wrote, forgot or shows does not open a way to an   *)
(* untrusted receiver, or past the key that is listed.                     *)
THEOREM SessionBornOnPinnedAmongOthers == AmongSpec => SessionBornOnPinned
<1>1. AmongInv /\ [AmongNext]_everything
        => [\A s \in Media : Born(s) => BornOnPinned(s)]_vars
  BY BirthIsPinned, SessionIsOwn, AmongInvImplies DEF Born
<1> QED BY <1>1, AmongInvariance, PTL DEF AmongSpec, SessionBornOnPinned

(* A session that a lease paid for runs where the lease says, although     *)
(* other processes trust, forget and cast in between.                      *)
THEOREM LeasedSessionIsBoundAmongOthers == AmongSpec => LeasedSessionIsBound
<1>1. AmongInv /\ [AmongNext]_everything
        => [\A s \in Media, l \in LeaseIds :
              Born(s) /\ Claimed(l) =>
                /\ leases[l].receiver = sessions'[s].receiver
                /\ leases[l].fingerprint = devices[sessions'[s].receiver]
                /\ ~Expired(l)]_vars
  BY LeasedBirthIsBound, SessionIsOwn, AmongInvImplies DEF Born
<1> QED BY <1>1, AmongInvariance, PTL DEF AmongSpec, LeasedSessionIsBound

(* The file a live relayed session streams is held, whatever the other     *)
(* processes fetch and show.                                               *)
THEOREM RelayedFileIsHeldAmongOthers == AmongSpec => []RelayedFileIsHeld
<1>1. AmongInv => RelayedFileIsHeld
  BY DEF AmongInv, SessionInv
<1> QED BY <1>1, AmongInvariance, PTL

(* Every handle that a load, a control or a close uses is open on a key    *)
(* that the user approved, here or in another process.                     *)
THEOREM OnlyApprovedAmongOthers == AmongSpec => []OnlyApprovedIsPinned
<1>1. AmongInv => OnlyApprovedIsPinned
  BY RegistryInvImplies DEF AmongInv, SharedInv
<1> QED BY <1>1, AmongInvariance, PTL

(* The whole companion still implements the registry beside other          *)
(* processes, so the file is used as SharedStore says.                     *)
THEOREM AmongRunsSharedRegistry ==
  AmongSpec => SharedInit /\ [][SharedNext]_<<registryTables, sharedVars>>
<1>1. AmongInit => SharedInit
  BY DEF AmongInit
<1>2. [AmongNext]_everything => [SharedNext]_<<registryTables, sharedVars>>
  BY AmongIsSharedStep DEF allVars, registryVars, registryTables
<1> QED BY <1>1, <1>2, PTL DEF AmongSpec

(* The trust gate of the loads rests on approvals that reached the file.   *)
THEOREM TrustIsPersistedAmongOthers == AmongSpec => []TrustIsPersisted
<1>1. AmongInv => TrustIsPersisted
  BY DEF AmongInv, SharedInv
<1> QED BY <1>1, AmongInvariance, PTL

(* No lease, session or load makes a record trusted that was forgotten     *)
(* here.                                                                   *)
THEOREM ForgottenAmongOthers == AmongSpec => ForgottenIsNotListed
<1>1. AmongInv /\ AmongInv' /\ [AmongNext]_everything
        => [\A r \in Receivers :
              ListedTrusted(r)' /\ receivers'[r].fingerprint \in revoked' =>
                /\ ListedTrusted(r)
                /\ receivers[r].fingerprint = receivers'[r].fingerprint]_allVars
  <2> SUFFICES ASSUME AmongInv, AmongInv', [AmongNext]_everything,
                      NEW r \in Receivers, ListedTrusted(r)',
                      receivers'[r].fingerprint \in revoked'
               PROVE  /\ ListedTrusted(r)
                      /\ receivers[r].fingerprint = receivers'[r].fingerprint
    OBVIOUS
  <2>1. CASE [SharedNext]_allVars
    BY <2>1, SharedListedStep DEF AmongInv, SharedInv
  <2>2. CASE UNCHANGED registryTables
    BY <2>2 DEF registryTables, ListedTrusted, Known
  <2> QED BY <2>1, <2>2, AmongIsSharedStep
<1> QED BY <1>1, AmongInvariance, PTL DEF AmongSpec, ForgottenIsNotListed

(* Nothing but an approval, in whatever process, brings trust in.          *)
THEOREM TrustIsNeverInventedAmongOthers == AmongSpec => TrustIsNeverInvented
<1>1. ASSUME AmongInv, [AmongNext]_everything
      PROVE  \A f \in Held' \ Held : Approval(f)
  <2>1. CASE [SharedNext]_allVars
    BY <1>1, <2>1, HeldStep DEF AmongInv
  <2>2. CASE UNCHANGED <<registryTables, sharedVars>>
    BY <2>2 DEF registryTables, sharedVars, Held, Copied, ListedTrusted, Known
  <2> QED BY <1>1, <2>1, <2>2, AmongIsSharedStep
<1>2. AmongInv /\ [AmongNext]_everything
        => [\A f \in Held' \ Held : Approval(f)]_allVars
  BY <1>1
<1> QED BY <1>2, AmongInvariance, PTL DEF AmongSpec, TrustIsNeverInvented

(* The file that all processes share is used as SharedStore says, by the   *)
(* whole companion and not by its registry alone.                          *)
THEOREM UsesSharedStoreAmongOthers == AmongSpec => UsesSharedStore
<1>1. AmongInit => Shared!Init
  BY SharedInitRefines DEF AmongInit
<1>2. ASSUME AmongInv, [AmongNext]_everything
      PROVE  [Shared!Next]_<<disk, View>>
  <2>1. CASE [SharedNext]_allVars
    BY <1>2, <2>1, SharedStepRefines DEF AmongInv
  <2>2. CASE UNCHANGED <<registryTables, sharedVars>>
    BY <2>2 DEF registryTables, sharedVars, View
  <2> QED BY <1>2, <2>1, <2>2, AmongIsSharedStep
<1>3. AmongInv /\ [AmongNext]_everything => [Shared!Next]_<<disk, View>>
  BY <1>2
<1> QED BY <1>1, <1>3, AmongInvariance, PTL
        DEF AmongSpec, UsesSharedStore, Shared!Spec, View
=============================================================================
