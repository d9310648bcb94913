----------------------------- MODULE Companion -----------------------------
(***************************************************************************)
(* The companion process as a whole: on top of the receiver registry, the  *)
(* credential leases, the sessions, the fetched files that relayed         *)
(* sessions hold, and what the receivers were told to show.  One request   *)
(* is one action: handle_request (crates/companion/src/main.rs) runs to    *)
(* its end, network calls included, before main reads the next frame.      *)
(*                                                                         *)
(* A load that reaches a device handle is numbered, and that number stands *)
(* for the media, for its file and for what the receiver shows.            *)
(***************************************************************************)
EXTENDS ReceiverRegistry, Naturals, FiniteSets

CONSTANTS
  LeaseIds,      \* ids the companion may draw for credential leases
  NoLease,       \* a session.load without credentialLeaseId
  Origins,       \* origins of media URLs
  HttpsOrigins,  \* those whose scheme is https
  MaxTtl,        \* MAX_CREDENTIAL_LEASE_SECONDS
  MaxTime,       \* bound of the clock
  MaxLoads,      \* bound of the loads that reach a device
  MaxRevision    \* where the revision saturates (u64::MAX)

ASSUME CompanionAssumption ==
  /\ NoLease \notin LeaseIds
  /\ HttpsOrigins \subseteq Origins
  /\ MaxTtl \in Nat \ {0} /\ MaxTime \in Nat /\ MaxLoads \in Nat
  /\ MaxRevision \in Nat \ {0}

VARIABLES
  leases,    \* CredentialLeases.leases: id -> what it is bound to
  now,       \* the monotonic clock
  uses,      \* history: how often each lease was claimed since its issue
  sessions,  \* BridgeState.sessions: n for "session-n" -> SessionSummary
  files,     \* the fetched files each session id holds
  screen,    \* external: the load each physical receiver was told to show
  loads      \* number of loads that reached a device so far

leaseVars == <<leases, uses>>
sessionVars == <<sessions, files, screen, loads>>
companionVars == <<leases, now, uses, sessions, files, screen, loads>>
vars == <<registryVars, companionVars>>

----------------------------------------------------------------------------
Media == 1 .. MaxLoads
Nothing == 0

Lease == [receiver: Receivers, fingerprint: Fingerprints,
          origin: HttpsOrigins, expires: Nat]

SessionState == {"loading", "playing", "paused", "stopped"}

\* media and relayed are history: the code keeps neither in the summary.
Session == [receiver: Receivers, state: SessionState,
            revision: 1 .. MaxRevision, media: Media, relayed: BOOLEAN]

HasDevice(r) == r \in DOMAIN devices

----------------------------------------------------------------------------
Init ==
  /\ RegistryInit
  /\ leases = EmptyMap
  /\ now = 0
  /\ uses = [l \in LeaseIds |-> 0]
  /\ sessions = EmptyMap
  /\ files = EmptyMap
  /\ screen = [f \in Fingerprints |-> Nothing]
  /\ loads = 0

----------------------------------------------------------------------------
(* Credential leases.                                                      *)

Expired(l) == leases[l].expires <= now

(***************************************************************************)
(* credentialLease.create: only for a receiver that is trusted right now,  *)
(* an https URL, allowed headers and a lifetime within the limit.  insert  *)
(* drops the expired leases and draws an id that is not in the table.      *)
(***************************************************************************)
Unexpired == {l \in DOMAIN leases : ~Expired(l)}

InsertLease(l, lease) ==
  leases' = Put([x \in Unexpired |-> leases[x]], l, lease)

CreateLease(r, o, ttl) ==
  /\ UNCHANGED <<now, sessionVars>>
  /\ \/ ~Known(r) /\ Refuse("receiver_not_found") /\ UNCHANGED leaseVars
     \/ /\ Known(r) /\ ~Connectable(r)
        /\ Refuse("receiver_not_trusted") /\ UNCHANGED leaseVars
     \/ /\ Connectable(r)
        /\ Refuse("invalid_params") /\ UNCHANGED leaseVars
     \/ /\ Connectable(r) /\ o \in HttpsOrigins
        /\ \E l \in LeaseIds \ Unexpired :
             /\ InsertLease(l, [receiver |-> r,
                                fingerprint |-> receivers[r].fingerprint,
                                origin |-> o, expires |-> now + ttl])
             /\ uses' = [uses EXCEPT ![l] = 0]
        /\ reply' = "ok"
        /\ UNCHANGED <<receivers, store, devices, approved>>

\* credentialLease.revoke answers ok whether the lease is there or not.
RevokeLease(l) ==
  /\ leases' = Drop(leases, l)
  /\ reply' = "ok"
  /\ UNCHANGED <<receivers, store, devices, approved, now, uses, sessionVars>>

\* Mutant: the lease's receiver is not compared.
ClaimableAnywhere(l, r, o) ==
  /\ l \in DOMAIN leases
  /\ ~Expired(l)
  /\ Known(r) /\ leases[l].fingerprint = receivers[r].fingerprint
  /\ leases[l].origin = o

(***************************************************************************)
(* CredentialLeases::claim for receiver r and a URL of origin o.  It looks *)
(* at the record's fingerprint, not at its trusted flag, and removes the   *)
(* lease when it succeeds and when the lease has expired.                  *)
(***************************************************************************)
Claimable(l, r, o) ==
  /\ l \in DOMAIN leases
  /\ ~Expired(l)
  /\ leases[l].receiver = r
  /\ Known(r) /\ leases[l].fingerprint = receivers[r].fingerprint
  /\ leases[l].origin = o

\* Mutant: the lease is looked up, not removed.
SpendKeeps(l) ==
  /\ UNCHANGED leases
  /\ uses' = IF l = NoLease THEN uses ELSE [uses EXCEPT ![l] = @ + 1]

Spend(l) ==
  /\ leases' = Drop(leases, l)
  /\ uses' = IF l = NoLease THEN uses ELSE [uses EXCEPT ![l] = @ + 1]

FailClaim(l) ==
  /\ leases' = IF l \in DOMAIN leases /\ Expired(l) THEN Drop(leases, l)
                                                    ELSE leases
  /\ UNCHANGED uses

----------------------------------------------------------------------------
(* session.load.                                                           *)

\* Mutant: a trusted record is enough.
AcceptsDisconnected(r) == Known(r) /\ receivers[r].trusted

\* dispatch's own check, made after the media has gone to the device.
Accepts(r) ==
  Known(r) /\ receivers[r].trusted /\ receivers[r].state = "connected"

\* format!("session-{}", sessions.len() + 1)
NextSessionId == Cardinality(DOMAIN sessions) + 1

FilesOf(id) == IF id \in DOMAIN files THEN files[id] ELSE {}

NewSession(r, relayed) ==
  [receiver |-> r, state |-> "loading", revision |-> 1,
   media |-> loads + 1, relayed |-> relayed]

\* Mutant: a session id that already holds a file keeps that one.
HoldFirstFile(id) ==
  files' = IF id \in DOMAIN files THEN files
                                 ELSE Put(files, id, {loads + 1})

HoldFile(id) == files' = Put(files, id, FilesOf(id) \cup {loads + 1})

\* The device behind r's handle is told to show the next load.
Show(r) == screen' = [screen EXCEPT ![devices[r]] = loads + 1]

(***************************************************************************)
(* The device took the media; then dispatch creates the session, or        *)
(* refuses, and then the file of a relayed load is deleted with its        *)
(* handler.                                                                *)
(***************************************************************************)
Deliver(r, relayed) ==
  /\ loads < MaxLoads
  /\ loads' = loads + 1
  /\ Show(r)
  /\ UNCHANGED <<receivers, store, devices, approved>>
  /\ \/ /\ Accepts(r)
        /\ sessions' = Put(sessions, NextSessionId, NewSession(r, relayed))
        /\ IF relayed THEN HoldFile(NextSessionId) ELSE UNCHANGED files
        /\ reply' = "ok"
     \/ /\ ~Accepts(r)
        /\ reply' = "receiver_not_trusted"
        /\ UNCHANGED <<sessions, files>>

\* Any mode but "fcompanion": the receiver fetches the URL itself.
LoadDirect(r) ==
  /\ UNCHANGED leaseVars
  /\ \/ /\ ~HasDevice(r)
        /\ Refuse("fcast_not_connected") /\ UNCHANGED <<now, sessionVars>>
     \/ /\ HasDevice(r)
        /\ \E code \in {"media_url_unavailable", "fcast_load"} : Refuse(code)
        /\ UNCHANGED <<now, sessionVars>>
     \/ HasDevice(r) /\ Deliver(r, FALSE) /\ UNCHANGED now

(***************************************************************************)
(* Mode "fcompanion": the companion fetches, with the lease's headers.     *)
(* The lease's lifetime is looked at when it is claimed; the fetch that    *)
(* follows is limited by the silence of the server and not as a whole, so  *)
(* any time may have passed when the device and dispatch get their turn.   *)
(***************************************************************************)
LoadRelay(r, o, l) ==
  \/ /\ ~HasDevice(r)
     /\ Refuse("fcast_not_connected")
     /\ UNCHANGED <<leaseVars, now, sessionVars>>
  \/ /\ HasDevice(r)
     /\ \E code \in {"media_url_unavailable", "media_headers_invalid"} :
          Refuse(code)
     /\ UNCHANGED <<leaseVars, now, sessionVars>>
  \/ /\ HasDevice(r)
     /\ l # NoLease /\ ~Claimable(l, r, o)
     /\ FailClaim(l) /\ Refuse("credential_lease_invalid")
     /\ UNCHANGED <<now, sessionVars>>
  \/ /\ HasDevice(r)
     /\ l = NoLease \/ Claimable(l, r, o)
     /\ Spend(l)
     /\ now' \in now .. MaxTime
     /\ \/ /\ \E code \in {"fcomp_resource_failed", "fcast_load"} : Refuse(code)
           /\ UNCHANGED sessionVars
        \/ Deliver(r, TRUE)

----------------------------------------------------------------------------
(* The other requests about a session.                                     *)

SessionRefused(s, code) ==
  \/ s \notin DOMAIN sessions /\ Refuse("session_not_found")
  \/ /\ s \in DOMAIN sessions /\ ~HasDevice(sessions[s].receiver)
     /\ Refuse("fcast_not_connected")
  \/ /\ s \in DOMAIN sessions /\ HasDevice(sessions[s].receiver)
     /\ Refuse(code)

\* Mutant: an increment that was forgotten.
SameRevision(revision) == revision

SaturatingNext(revision) ==
  IF revision < MaxRevision THEN revision + 1 ELSE MaxRevision

\* The state each action leads to; seek, volume and speed keep it.
StateAfter(action, state) ==
  CASE action = "play" -> "playing"
    [] action = "pause" -> "paused"
    [] action = "stop" -> "stopped"
    [] OTHER -> state

Actions == {"play", "pause", "stop", "adjust"}

\* The device behind r's handle is told what to do with what it shows.
Command(r, action) ==
  screen' = IF action = "stop" THEN [screen EXCEPT ![devices[r]] = Nothing]
                               ELSE screen

(***************************************************************************)
(* session.control: the device first, then the session.  The device acts   *)
(* on whatever it shows, which need not be this session's media.           *)
(***************************************************************************)
ControlSession(s, action) ==
  /\ UNCHANGED <<now, leaseVars, files, loads>>
  /\ \/ SessionRefused(s, "fcast_control") /\ UNCHANGED <<sessions, screen>>
     \/ /\ s \in DOMAIN sessions /\ HasDevice(sessions[s].receiver)
        /\ Command(sessions[s].receiver, action)
        /\ sessions' = [sessions EXCEPT
                          ![s].state = StateAfter(action, @),
                          ![s].revision = SaturatingNext(@)]
        /\ reply' = "ok"
        /\ UNCHANGED <<receivers, store, devices, approved>>

\* session.selectTrack: neither the session nor what is shown changes.
SelectTrack(s) ==
  /\ UNCHANGED companionVars
  /\ \/ SessionRefused(s, "fcast_track")
     \/ /\ s \in DOMAIN sessions /\ HasDevice(sessions[s].receiver)
        /\ reply' = "ok"
        /\ UNCHANGED <<receivers, store, devices, approved>>

\* session.close: the files go with the session; the receiver plays on.
CloseSession(s) ==
  /\ UNCHANGED <<now, leaseVars, screen, loads>>
  /\ \/ /\ s \notin DOMAIN sessions
        /\ Refuse("session_not_found") /\ UNCHANGED <<sessions, files>>
     \/ /\ s \in DOMAIN sessions
        /\ sessions' = Drop(sessions, s)
        /\ files' = Drop(files, s)
        /\ reply' = "ok"
        /\ UNCHANGED <<receivers, store, devices, approved>>

----------------------------------------------------------------------------
Tick ==
  /\ now < MaxTime
  /\ now' = now + 1
  /\ UNCHANGED <<registryVars, leaseVars, sessionVars>>

\* What the end of the process drops; receivers go on showing what they show.
EndProcess ==
  /\ leases' = EmptyMap
  /\ sessions' = EmptyMap
  /\ files' = EmptyMap
  /\ UNCHANGED <<now, uses, screen, loads>>

\* The process ends and a new one starts: only the trust store survives.
Restart == RestartRegistry /\ EndProcess

\* The requests that are not the registry's own, and time.
CastRequest ==
  \/ \E r \in Receivers :
       \/ \E o \in Origins, ttl \in 1 .. MaxTtl : CreateLease(r, o, ttl)
       \/ LoadDirect(r)
       \/ \E o \in Origins, l \in LeaseIds \cup {NoLease} : LoadRelay(r, o, l)
  \/ \E l \in LeaseIds : RevokeLease(l)
  \/ \E s \in Media :
       \/ \E action \in Actions : ControlSession(s, action)
       \/ SelectTrack(s)
       \/ CloseSession(s)
  \/ Tick

Next ==
  \/ RegistryRequest /\ UNCHANGED companionVars
  \/ CastRequest
  \/ Restart

Spec == Init /\ [][Next]_vars

----------------------------------------------------------------------------
(* The type invariant of the leases, the sessions and their files.         *)
LeaseTypeOK ==
  /\ DOMAIN leases \subseteq LeaseIds
  /\ leases \in [DOMAIN leases -> Lease]
  /\ now \in 0 .. MaxTime
  /\ uses \in [LeaseIds -> Nat]

SessionTypeOK ==
  /\ DOMAIN sessions \subseteq Media
  /\ sessions \in [DOMAIN sessions -> Session]
  /\ DOMAIN files \subseteq Media
  /\ files \in [DOMAIN files -> SUBSET Media]
  /\ screen \in [Fingerprints -> 0 .. MaxLoads]
  /\ loads \in 0 .. MaxLoads

CompanionTypeOK == RegistryTypeOK /\ LeaseTypeOK /\ SessionTypeOK

(***************************************************************************)
(* A lease is claimed at most once, and is gone from the table when it has *)
(* been, although claiming, fetching and loading can each fail afterwards  *)
(* (docs/security-model.md: "single-use").                                 *)
(***************************************************************************)
LeaseSpentOnce ==
  \A l \in LeaseIds : uses[l] <= 1 /\ (l \in DOMAIN leases => uses[l] = 0)

(***************************************************************************)
(* As long as a relayed session lives, the file its receiver streams is    *)
(* kept, even when the session took over the id of an older one.           *)
(***************************************************************************)
RelayedFileIsHeld ==
  \A s \in DOMAIN sessions :
    sessions[s].relayed => sessions[s].media \in FilesOf(s)

(***************************************************************************)
(* No file outlives the sessions: every entry of the file table has a live *)
(* session under the same id.                                              *)
(***************************************************************************)
FilesHaveSession == DOMAIN files \subseteq DOMAIN sessions

(***************************************************************************)
(* The inductive invariant of the companion.  Beyond the registry's and    *)
(* the three above it says that the live sessions are never more than the  *)
(* loads that were delivered, so that the id of the next one is within     *)
(* bounds, and that each plays one of those loads, so that a session that  *)
(* takes over an id never passes for the one that had it.                  *)
(***************************************************************************)
SessionsCounted ==
  IsFiniteSet(DOMAIN sessions) /\ Cardinality(DOMAIN sessions) <= loads

MediaDelivered == \A s \in DOMAIN sessions : sessions[s].media <= loads

LeaseInv == LeaseTypeOK /\ LeaseSpentOnce

SessionInv ==
  /\ SessionTypeOK
  /\ SessionsCounted /\ MediaDelivered
  /\ RelayedFileIsHeld /\ FilesHaveSession

CompanionInv == RegistryInv /\ LeaseInv /\ SessionInv

(***************************************************************************)
(* A session comes to life only on a receiver that is trusted, whose       *)
(* handle pins the listed fingerprint, and that was told to show exactly   *)
(* this session's media: what dispatch checks after the fact on the record *)
(* does speak about the device the media went to.                          *)
(***************************************************************************)
Born(s) ==
  /\ s \in DOMAIN sessions'
  /\ s \in DOMAIN sessions => sessions'[s].media # sessions[s].media

BornOnPinned(s) ==
  LET r == sessions'[s].receiver
  IN /\ ListedTrusted(r)
     /\ HasDevice(r) /\ devices[r] = receivers[r].fingerprint
     /\ screen'[devices[r]] = sessions'[s].media

SessionBornOnPinned == [][\A s \in Media : Born(s) => BornOnPinned(s)]_vars

(***************************************************************************)
(* A session that a lease paid for runs on the receiver the lease is bound *)
(* to, through a handle that pins the fingerprint the lease is bound to.   *)
(* The lease had not expired when it was claimed, which is before the      *)
(* fetch; the session itself may start after the lease's time is up.       *)
(***************************************************************************)
Claimed(l) == uses'[l] > uses[l]

LeasedSessionIsBound ==
  [][\A s \in Media, l \in LeaseIds :
       Born(s) /\ Claimed(l) =>
         /\ leases[l].receiver = sessions'[s].receiver
         /\ leases[l].fingerprint = devices[sessions'[s].receiver]
         /\ ~Expired(l)]_vars

(***************************************************************************)
(* What is listed under a session id changes in two ways only: the same    *)
(* session goes one revision up (until the counter saturates), or a load   *)
(* that is newer than everything listed takes the id, at revision 1.  So   *)
(* revisions order the states of one load, and no outdated load returns;   *)
(* they do not order what one id stands for, since the revision falls back *)
(* whenever an id is taken over or given out again.                        *)
(***************************************************************************)
Revised(s) ==
  /\ s \in DOMAIN sessions
  /\ sessions'[s].media = sessions[s].media
  /\ sessions'[s].receiver = sessions[s].receiver
  /\ \/ sessions'[s].revision = sessions[s].revision + 1
     \/ sessions[s].revision = MaxRevision /\ sessions'[s].revision = MaxRevision

StartsAnew(s) ==
  /\ sessions'[s].revision = 1
  /\ \A x \in DOMAIN sessions : sessions[x].media < sessions'[s].media

ChangeHasRevision ==
  [][\A s \in DOMAIN sessions' :
       \/ s \in DOMAIN sessions /\ sessions'[s] = sessions[s]
       \/ Revised(s)
       \/ StartsAnew(s)]_vars

----------------------------------------------------------------------------
(* What the documents say and the code does not keep.                      *)

(***************************************************************************)
(* docs/architecture.md puts the trust gate before direct FCast and before *)
(* FCompanion: a receiver is told to show media only while some record     *)
(* with an open handle on it is trusted.                                   *)
(***************************************************************************)
MediaPassesTrustGate ==
  [][\A f \in Fingerprints :
       screen'[f] \notin {screen[f], Nothing} =>
         \E r \in DOMAIN devices : devices[r] = f /\ ListedTrusted(r)]_vars

(***************************************************************************)
(* docs/bridge-protocol.md: the file lease is "session-owned".  Every file *)
(* is kept for the session that streams it and for no other.               *)
(***************************************************************************)
FilesAreSessionOwned ==
  \A s \in DOMAIN files : files[s] \subseteq {sessions[s].media}
=============================================================================
