# Verification of FCast Web Sender

TLA+ models of FCast Web Sender, the TLC runs that check them on small
instances, and TLAPS proofs of their safety properties for every value of the
constants. FCast Web Sender is a browser extension (TypeScript, Chromium and
Firefox) and a local companion process (Rust) that casts web media to FCast
receivers. Paths below are relative to `src/`.

Contents: 1 the system, 2 the modules, 3 the runs, 4 fairness, 5 proofs,
6 where code and documents disagree, 7 observations, 8 what is not modelled,
9 plan.

## 1. The system

    page ── content script ──► background page ┐
                                               ├─ bridgeCall ─► native port ─► companion process ─► FCast SDK ─► receiver
                       popup, settings page ───┘                              │                          ▲
                                                                              ├─ trust.json (shared)     │
                                                                              ├─ $TMP media files ───────┘
                                                                              └─ mDNS, media servers

Every extension page that calls the companion has a native port of its own, and
the browser starts one companion process per port. A process answers one
request after the other; only events of the SDK (`mirror.answer` and others)
are written by other threads. The processes share two things on disk: the
trust store and the directory of temporary media files.

| component | its state | operations | what is hard | what makes it correct |
|---|---|---|---|---|
| receiver registry (`companion/src/main.rs`, `bridge/src/lib.rs`) | records by id, open SDK handles | discover, trust, forget, connect, disconnect | discovery overwrites records under open handles; each request does something that may fail between its checks and its updates | a record the session gate accepts has a handle that pins the listed fingerprint; only approved fingerprints are pinned; what is listed as trusted was read from the file or written to it |
| trust store (`receiver-trust/src/lib.rs`) | `trust.json`, its copy in memory, the temporary file of a write | load, trust, forget | crash between create, write and rename; failing I/O; several processes; reused process ids | the file is always one complete view of one process; a start reads it; an entry appears only by a trust |
| credential leases (`companion/src/main.rs` 91-199) | leases by random id, with an expiry | create, revoke, claim | expiry against claim; rediscovery between create and claim; spent before fetch and load | claimed once, in time, for the receiver and fingerprint it is bound to; the session runs there |
| sessions and file leases (`main.rs` 534-667, `bridge/src/lib.rs` 380-566) | session summaries by id, fetched files by id, what each receiver plays | load (direct and relayed), control, selectTrack, close | ids are reused; the device is told before the record is checked; revision saturates | a session starts only on a trusted pinned receiver; the file of a live relayed session is kept; no file without session; what an id stands for goes one revision up or starts anew with a newer load |
| native messaging channel (`extension-chromium/src/browser.ts` 109-170, `main.rs` 816-945) | pending map, timers, the port; the frame loop | call, answer, timeout, disconnect, reload; read, handle, write | timeout against a late answer; death at any point of the loop; page closed under a working process | every call settles; no call is handled twice; no answer is lost or taken for another's; orphans end |
| tab mirroring (`background.ts` 55-79, `mirroring.ts`, `upstream.rs` 430-530) | `activeMirror`, its listener, the captures; signallers and their sinks | click with its awaits, start, offer, answer | overlapping clicks; shared variables read after an await; late answers; slow SDK | one capture; a peer gets only the answer to its own description, from its own receiver |
| media fetcher (`media-fetcher/src/lib.rs`) | the file under way, the files sessions hold, the directory | check and pin an address, name, create, download, drop | names shared by all processes; failure in the middle of a body; kill; a server that sends more than it declared | a held file stays what was fetched, whole if the response says where it ends; none longer than the maximum; none forgotten; the request goes to the address that was checked |
| mDNS discovery (`discovery/src/lib.rs`) | the parser's place in a packet, the sockets, the records found | bind, query, receive, parse, assemble | pointers and counts that say anything; records in any order; two sockets read one after the other under one deadline | the parser stays in the packet and ends; the browse returns in bounded time with all that it read, and reads what came in time unless it is busy across the deadline |
| FCompanion fixture (`fcompanion/src/lib.rs`) | resources by random token, connections | register, get, remove, expire, serve | expiry against a request under way, a wall clock that goes back, concurrent connections, a full request buffer, ranges at a boundary | exactly the bytes asked for; an expired resource stays gone; nobody who waits is left without an answer |
| extension state, resolver, content script, popup, manifest rewriter, diagnostics, generated types, packaging | | | | see section 8 |

## 2. The modules

One module per component; a request the companion serves to its end before the
next frame is one action, with every call the handler makes that changes state.
Where other processes, threads or a crash can come between two calls, the calls
are actions of their own. Definitions keep the names of the source where that
is possible; `PROJECT.json` maps each of them to its lines.

| module | models | composition |
|---|---|---|
| `ReceiverRegistry` | the receiver requests of one process | |
| `TrustStore` | what a trust store promises a process that is alone: a set that a request changes by one entry | abstract |
| `SharedStore` | what it promises several processes: each answers from the view it loaded and replaces the file by it | abstract |
| `TrustFile` | the write protocol of `receiver-trust` for several processes | implements `SharedStore`, and `TrustStore` when one process runs |
| `SharedRegistry` | the registry of one process and the file it shares with others | EXTENDS `ReceiverRegistry`; implements `SharedStore` from the side of the caller |
| `Companion` | one companion process: leases, sessions, files | EXTENDS `ReceiverRegistry`; its `Next` has the registry's requests and restart as disjuncts |
| `SharedCompanion` | that process beside the others | EXTENDS `Companion` and `SharedRegistry`; implements the latter |
| `NativePort` | one page, its ports and their processes | the requests are abstract here; `Companion` is what `Handle` does |
| `Mirroring` | the click handler, `mirror.negotiate`, the SDK's signaller | has the channel's queues of its own |
| `MediaFetch` | the fetches of several processes in one directory | the steps behind the fetch of `LoadRelay` of `Companion` |
| `DnsPacket` | the parser of one mDNS packet | |
| `Discovery` | one browse: sockets, deadline, assembly of records | EXTENDS `DnsPacket`; the steps behind `DiscoverReceivers` of `ReceiverRegistry` |
| `FCompanion` | the loopback resource server | |
| `*Proofs` | the theorems about the module they are named after; those about `SharedRegistry` are in `ReceiverRegistryProofs`, about `SharedCompanion` in `CompanionProofs` | |
| `MC*` | the instances TLC checks: symmetry and view | |

### ReceiverRegistry

`receivers` is `BridgeState.receivers` (fingerprint, connection state, trusted),
`store` the contents of the `TrustStore`, `devices` the companion's map of SDK
handles with the fingerprint the SDK pinned. `approved` is history and `reply`
the last response's code. A fingerprint stands for the physical receiver. Two
ids may advertise one fingerprint and one id may change its fingerprint,
because an id is `instance:port`. A discovery reports any set of records, none
included (a failed discovery answers ok). `RestartRegistry` is the end of a
process and the start of the next on the same store.

### SharedRegistry

Every extension page has a companion process of its own. `TrustShared` and
`ForgetShared` are the registry's actions together with the write of this
process's whole copy to `disk`; `RestartShared` reads `disk` instead of the
copy. Of the other processes (`Peers`) only what reaches the file is modelled:
`PeerStarts`, `PeerTrusts`, `PeerForgets`. Two variables are history: `revoked`
is what the user forgot here and has not approved here since, `backed` what
this process read from the file or wrote to it. A save is one step, as
`SharedStore` says; `TrustFile` shows that the write protocol delivers that.
The two sides meet there: `UsesSharedStore` and `ImplementsSharedStore` are the
same abstract specification.

### TrustFile, SharedStore, TrustStore

`Start` loads the file, `OpenTemp` creates `trust.tmp-<pid>` (refused if it
exists), `WriteAll` writes and syncs it, `Rename` puts it over the store and
then takes the new set into memory, `Fail` is any of these calls returning an
error, which leaves the temporary file behind, `Stop` a kill at any point.
Process ids are unique among live processes and reused afterwards. In
`SharedStore` a rename is `Trust` or `Forget` of the process's view; that a view
may be older than the file it replaces is part of the promise.

### Companion

A load that reaches a handle gets a number, which stands for its media, the
file of a relayed load and what the receiver then shows (`screen`, external).
`CreateLease`, `RevokeLease`, `Claimable`/`Spend` are the lease handlers; an
expired lease is dropped by the claim that finds it. `LoadDirect` and
`LoadRelay` follow `load_session`: claim, fetch, `device.load`, dispatch (trust
and connection of the record), file insertion, each with the state left behind
when it is the one to fail. The claim looks at the clock before the fetch, and
the fetch may take any time (`now'`), so the session may start after the
lease's expiry. `NextSessionId` is the code's `sessions.len() + 1`. `ControlSession`, `SelectTrack` and `CloseSession` speak
to the handle of the session's receiver first and to the summary after.
`MaxRevision` is where `u64` saturates; `Tick` the monotonic clock.

### SharedCompanion

`AmongNext` lets the requests of this process (`SharedRequest` for the registry,
`CastRequest` for leases and sessions) alternate with `PeerRequest`, which
writes the trust file, and `PeerCasts`: another process loads media on a
receiver approved there, or stops what it shows, so `screen` and the numbering
of loads are common to all processes. A restart reads the file
(`RestartShared`) and drops leases, sessions and files (`EndProcess`).

### NativePort

`Call`, `Deliver`, `TimeOut`, `Disconnected` are `bridgeCall`,
`receiveNativeMessage`, its timer and `onDisconnect`; `ClosePage` is a closed
popup or a reload. `Read`, `Handle`, `Write` are the loop of `main`, `Crash`
every other way a process ends. `posted`, `handled`, `written` and `delivered`
are positions in the same sequence per port. `Malformed` are the requests
`Request::parse` refuses; they are answered under the id `invalid-request`.

### Mirroring

`step` is the await at which each run of the handler stands; `active`,
`remover`, `listeners` and `capturing` are shared by all runs. The handler does
not look at responses, so a response is only the click it belongs to. `Reject`
is the ten second timeout. `offer()` has two awaits: `Described` is the end of
`createOffer` and `setLocalDescription`, which a closed peer need not reach
(`Stranded` is a handler that waits there), and `Gathered` the end of gathering,
five seconds later at the latest. `Handle` serves one request, `SetOfferSink` is the SDK's late
callback, `Answer` the receiver's answer on an SDK thread, `Crash` the end of
the process with everything on its way.

### MediaFetch

`Begin`/`Send` check the URL and pin the client to the first public address of
the host; `Respond` checks the declared length; `Name`/`Open` are
`temporary_path` and `create_new` (a name that exists is skipped); `Chunk` and
`Finish` the bounded loop over the body. The code compares no length: `BodyEnds`
is what the HTTP library says of the end of a body, whole if the response
declares its length or is chunked (`framed`), cut anywhere if only the end of
the connection delimits it. `Fail` the drop of the unfinished
file. `Hold` hands the file to a session, `Drop` closes the session, `Exit`
drops them all, `Kill` leaves them behind (`left`, history).

### DnsPacket, Discovery

The parser is modelled by positions: every octet it reads may have any value,
so `NameLabel`, `NamePointer`, `NameEnd` and `NameBad` are the outcomes of one
turn of `read_name`, and one behaviour stands for every packet that steers the
parser that way. `NextItem` and `ReadRecord` are the loops of `parse_response`.
A record is its type and its slice; what it says is chosen when the packet is
assembled (`Contents`), and `Assemble` is `assemble_records`. `Bind`,
`SendQuery`, `Receive`, `Record`, `Malformed`, `TimedOut`, `NextSocket` are
`MdnsBrowser`; `Arrive` the network and `Tick` the time a `recv` waits or a
packet is handled. `Receive` takes a packet from its socket; while it is
handled (`received`) up to `MaxWork` ticks pass and others arrive, then
`BeginParse` starts the parser. The parser looks at neither clock nor socket, so
it is the same whether this time passes before it or between its steps. After
the packet the deadline is looked at; `overran` is history: a packet taken
before the deadline was done after it.

### FCompanion

`Register`, `Remove`, `Expire`, `Lookup` are `ResourceStore` under its mutex;
each connection goes through `Accept`, `ReadPiece`, `ReadRequest`, `Lookup` and
`Respond`, or is refused or hangs up, with the other connections and the owner
of the store in between. Bytes are counted: an answer is the first byte and
the number of bytes. The clock is `SystemTime`, so `SetClock` may set it back.

## 3. The runs

Each run checks an `MC*` module under a `.cfg` of the same prefix; together the
passing runs fire every action and every disjunct. Deadlock is checked in all of
them: a process can always be started, restarted or killed, and a page closed.

| run | instance | distinct states | what it shows |
|---|---|---|---|
| `registry` | 2 ids, 2 fingerprints, 1 other process | 45 013 (symmetry) | one process beside another on the same file: connected means pinned, only approved is pinned, listed trust was read from the file or written to it; forgetting holds here; trust is never invented; `SharedStore` is used as specified |
| `trustfile` | 2 processes, 3 pids, 2 fingerprints | 300 151 (symmetry) | a process renames only its own complete write; a process that has just started or written remembers what is on disk; `SharedStore` is implemented |
| `companion_sessions` | 1 receiver, 3 loads, revision up to 2, no leases, 1 other process that trusts and casts | 72 017 (view) | files and sessions; an id's state goes one revision up or starts anew |
| `companion_leases` | 2 ids, 2 fingerprints, 2 origins (1 https), 1 lease id, 1 load, clock 0..1 | 221 460 (view, symmetry) | leases, also when they expire during the fetch; a session is born on a trusted pinned receiver |
| `companion_gate` | 1 receiver, 1 load | counterexample | `MediaPassesTrustGate` fails, section 6 |
| `companion_reuse` | 1 receiver, 3 loads | counterexample | `FilesAreSessionOwned` fails, section 6 |
| `nativeport` | 3 calls (1 unparsable), 2 ports | 76 141 | no call waits on a dead port, none is lost, handled twice or answered by two processes; `CallsSettle`, `OrphansExit` |
| `nativeport_ids` | 1 unparsable call, 1 port | counterexample | `EveryResponseHasItsId` fails, section 6 |
| `mirroring` | 2 clicks, 2 receivers | 87 220 | one capture, right answer, right receiver; `HandlersEnd` |
| `media_fetch` | 2 processes, 2 pids, 2 fetches, bodies of 2 and 3, maximum 2 | 476 832 | held files stay what was fetched, every file has an owner, requests go to the address checked; `NamingEnds` |
| `discovery` | IPv4 and IPv6, 2 packets of 11 or 68 bytes, 1 question, 3 records, 3 turns per name, 1 instance, timeout of 2 ticks, 1 tick of work on a packet | 886 048 | the parser stays in the packet, the browse is bounded in time and misses only what comes behind a packet it handles across the deadline; `BrowseEnds` |
| `fcompanion` | 1 token, 2 connections, sizes 0, 2, 3 with maximum 2, buffer of 2, clock 0..1 | 1 290 940 (symmetry) | exact ranges, no silent end, no return of the expired |

Why these bounds are enough:

* *registry*: two ids with one fingerprint, and one id with two fingerprints,
  are the two hazards of identity; a third id repeats one of them. One other
  process is enough for a write between this one's load and its write, and for
  an entry that comes back after one of them forgot it.
* *trustfile*: two processes are enough for a write over a write; the third
  process id lets a stale temporary file lie beside two live ones.
* *companion*: three loads are the least with which an id is taken over (load,
  load, close the first, load); the other process may take any of their
  numbers. The lease run has one process (with another it has some 1.4 million states
  and the same outcome, in more time than a run should take; the proofs cover
  both). It needs two receivers and two fingerprints so that a wrong binding
  exists, one https and one http origin, and a clock that can pass the expiry; `MaxRevision = 2` reaches saturation.
* *nativeport*: two ports give a crash or reload with a successor, three calls
  a call before, during and after it, with one that no answer matches.
* *mirroring*: two overlapping clicks are the least at which `activeMirror`
  changes under a handler, each with its own receiver.
* *media_fetch*: a body at the maximum and one above it; two processes with two
  process ids, so that a killed one's id and names come back; each response is
  `framed` or not. A chunk is any part of what is left.
* *discovery*: 68 bytes hold the header, a question and three records with
  short names and data of 6 bytes, so that all three kinds (PTR, SRV, address) meet in each order,
  and 11 bytes is a packet shorter than its header. A label of 20 bytes can
  cross the end of the packet; the pointer targets are the start of the names
  and the middle of the packet, which gives loops, jumps forward and pointers to
  pointers; three turns stand for 128. Two packets let one socket
  be served while the other waits, or wait behind the other in one socket; two
  ticks separate a packet before the deadline from one after it, and one tick of
  work takes a packet across it. No SRV record of the run is shorter than its
  fixed fields: that refusal (first disjunct of `Unassembled`) ends like the
  other, which the run has, and the proofs cover it.
* *fcompanion*: two connections on one token, so that one may expire what the
  other has just found; positions 0..2 and an open end on resources of 0 and 2
  bytes are the boundary cases of a range; one tick passes the expiry, and
  going back undoes it.

Symmetry is declared only in runs without liveness, and only for sets whose
members the specification treats alike (ids, fingerprints, processes, process
ids, connections). `MCView` leaves `reply` and `screen` out of the state: no guard reads
`reply`; no guard reads `screen`; and the action properties checked under it
read `screen` only in the primed state at the place that step has just
written, so no state that is merged with another could have shown a violation.
The view of `MCSharedCompanion` leaves out `revoked` and `backed` too, histories
that neither its guards nor its properties read.
The three counterexample runs use neither view nor symmetry.

Every property of a passing run has a mutant in `PROJECT.json`: a change of one
mapped definition of the kind a maintainer might make (the connection state of
a rediscovered record kept, the session's file inserted under the next id,
memory changed before the rename, a capture switched without closing the
previous peer), under which TLC finds the property violated. The mutated forms
stand beside the definitions they change, under a comment that begins with
"Mutant".

## 4. Fairness

Safety runs and proofs assume none. Four runs check liveness:

* `NativePort!FairSpec`: timers fire (`TimeOut`), the browser reports a dead
  port (`Disconnected`), a process that can read or write does (`Read`,
  `Write`). *Not* assumed: that `handle_request` returns. `fetch_to_file` sets no
  overall timeout, so a media server may hold it for ever; `OrphansExit`
  therefore says that an orphan ends or hangs in its last request. Nor is any
  delivery assumed: `CallsSettle` holds by the timer alone.
* `Mirroring!FairSpec`: the browser answers a capture request one way or the
  other and makes the description of a peer that is open (`Described`, weakly
  fair only while the peer captures); the ten second limit of a call (`Reject`)
  and the five second limit of gathering (`Gathered`) fire. WebRTC does not
  settle what was asked of a peer that is then closed, so `HandlersEnd` says that
  a handler ends or is `Stranded` there. Nothing is assumed of the companion, the SDK or
  the receiver.
* `MediaFetch!FairSpec`: the loop of `temporary_path` goes on (`Name`).
  Failures, kills and the network are never forced to happen.
* `Discovery!Spec`: the thread runs, and a `recv` that waits comes to its
  timeout: weak fairness of `Thread \/ Tick` together, which does not force time
  to pass while a packet is handled. No packet is forced to arrive. `MaxPackets` bounds the packets of
  one browse, so the model does not show what an endless flow within one tick
  would do; the code looks at the deadline after every packet, and
  `BrowseInTime` bounds the ticks for every number of packets the model has.

## 5. Proofs

Each component with an inductive invariant has a `*Proofs` module; the
assumptions are the named `ASSUME`s of the modules (the "no value" constants are
not members of their sets; bounds are natural numbers). Each follows the plan
`Init => Inv`, `Inv /\ [Next]_vars => Inv'` by one lemma or step per action, and
`Inv => property`, with `PTL` only at the end.

| theorem | argument |
|---|---|
| `RegistryInvariance` and `ConnectedIsPinnedAlways`, `OnlyApprovedAlways`, `RegistryTypeCorrect` | `ConnectedIsPinned` alone is not inductive: forget clears a connected record's fingerprint and a later step trusts it again. `ConnectedKeepsPin` says the record carries the pinned fingerprint or none, and `TrustedIsApproved` that trust implies a fingerprint that was approved |
| `SharedInvariance`, and `ConnectedIsPinnedBesideOthers`, `OnlyApprovedBesideOthers`, `TrustIsPersistedAlways` | what other processes write changes only what a restart loads, so `RegistryInv` survives if every copy of a fingerprint, on disk or in a memory, is of one that was approved (`Copied`). `TrustIsPersisted` alone is not inductive: a discovery takes trust from the memory, so the invariant adds that the memory holds only what was read or written (`store \subseteq backed`) |
| `ForgottenIsNotListedAlways` | a record that is listed as trusted after a step was so before it, with the same fingerprint, or the store has that fingerprint (`SharedListedStep`), and `revoked` and the store are disjoint: a request moves a fingerprint from one to the other, a restart empties `revoked` |
| `TrustIsNeverInventedAlways` | case by case, what is held after a step was held before it, or is the one fingerprint that the step approves (`HeldStep`); `ListedStep` says so of a single record |
| `ImplementsSharedStoreBesideOthers` | refinement with the view of this process as its store: trust and forget, here and in others, are `Trust` and `Forget`, starts are `Load`. `ProcessesImplementSharedStore` is the same specification from the side of the file |
| `TrustFileInvariance`, `DiskNeverTornAlways`, `RenamesItsOwnWriteAlways` | live processes have distinct ids, a temporary file is created only where there was none, so what stands under a writer's name is its own |
| `MemoryMatchesDiskAlways` | the processes in `fresh` loaded or wrote last; every other rename takes them out |
| `ProcessesImplementSharedStore` | refinement: a rename is a `Trust` or `Forget` of `SharedStore`, a start a `Load`, every other step a stutter. It needs `PendingIsOneStep`: what is written is the request applied to the view of its process |
| `SoleProcessImplementsTrustStore` | with one process the view is the file, so the same steps are steps of `TrustStore` |
| `CompanionInvariance`, `CompanionTypeCorrect`, `LeaseSpentOnceAlways`, `RelayedFileIsHeldAlways`, `FilesHaveSessionAlways` | the registry's invariant is carried over the steps that leave it alone; `SessionsCounted` bounds the id of the next session, which is a cardinality, by the number of loads |
| `CompanionRunsRegistry` | refinement: a request about leases or sessions leaves the registry's tables alone (`CastKeepsRegistry`), the others are the registry's |
| `LeasedSessionIsBoundAlways` | only a relayed load claims a lease and starts a session (`ClaimIsByLoad`), whatever time its fetch takes; the claim compared the lease with the record, and the handle pins the record's key by `BirthIsPinned` |
| `ChangeHasRevisionAlways` | a load brings media that is newer than that of every session, because every session plays a load delivered earlier (`MediaDelivered`, the conjunct this needs), so what takes an id starts anew; what is left is control, which counts |
| `AmongInvariance`, `AmongRunsSharedRegistry`, and `SessionBornOnPinned`, `LeasedSessionIsBound`, `RelayedFileIsHeld`, `OnlyApproved`, `TrustIsPersisted`, `Forgotten`, `TrustIsNeverInvented`, `UsesSharedStore`, each with `AmongOthers` | the two invariants together are inductive: a step of the composition is one of `SharedRegistry` or leaves its tables alone (`AmongIsSharedStep`), and a session starts or changes only by a request to its own process (`SessionIsOwn`), so the lemmas about the single process apply |
| `SessionBornOnPinnedAlways` | from `RegistryInv`: a record that passes the gate of dispatch has a handle pinning its fingerprint, and it is the handle the media went to |
| `NativePortInvariance` and `WaitsOnOpenPortAlways`, `AnsweredWasHandledAlways`, `DeliveredIsSettledAlways`, `OneProcessPerPageAlways` | `PostedOnce` (a call stands at one position of one port) and `Positions` (delivered ≤ written ≤ handled ≤ posted, one apart at most) |
| `HandledOnceAlways` | follows from `PostedOnce` |
| `MirroringInvariance`, `OneCaptureAlways`, `AnswerFitsOfferAlways`, `MirroredToTargetAlways` | a session exists once its click has switched to its own peer; from then on its target is fixed and it never becomes active again. So what travels for the active session was made on its own peer, and an overtaken handler's offer travels under a session nobody listens to |
| `MediaFetchInvariance`, `HeldIsFetchedAlways`, `SizeBoundedAlways`, `FilesAccountedAlways`, `RequestsArePublicAlways` | no path is used twice (`Exclusive`), and an unfinished file is a prefix of its own fetch, which ends where the library says it does (`Unfinished`); the address of a request is the one that was checked |
| `DiscoveryInvariance`, `RecordsFitAlways`, `BrowseInTimeAlways`, `InTimeIsFoundAlways` | the parser: a name that follows no pointer yet stands at or behind `offset`, and the place behind its first pointer is greater (`NameAhead`), so the parser only moves forward and every record ends where it stands or before (`EndBy`). The browse: while a socket is read, `elapsed` is at most what is due for the sockets before it plus the wait of this `recv` and the work on its packet (`SocketPlace`, `Due`); the IPv6 socket is read after the deadline only. A packet that came in time is read or waits in its socket, and after the deadline it waits there only behind one that was taken before it (`Accounted`) |
| `AnyOrderAnnouncesAlways` | with one SRV for each instance, the one that the map holds (`LastSrv`, a `CHOOSE`) is that one (`LastSrvIsOnly`); then what is assembled and the pairs of PTR and SRV that announce are the same set, element by element |
| `FCompanionInvariance`, `RangeIsExactAlways`, `SilentOnlyToHangUpAlways`, `RefusedIsGoneAlways` | a refused token is not in the store; the request, the copy and the answer of a connection agree with each other at each of its stages, so that the bytes answered are those of the request (`FCompanionInv`) |

Only model-checked: the liveness properties (`CallsSettle`, `OrphansExit`,
`HandlersEnd`, `NamingEnds`, `BrowseEnds`), since the prover does not treat
fairness and `ENABLED`, and the violated properties. Every other property that a
passing run checks is a theorem. No module has a `RECURSIVE` operator.

## 6. Where code and documents disagree

1. **The media is sent before the trust gate** (`companion_gate`).
   `load_session` calls `device.load` and then dispatch
   (`companion/src/main.rs:585`). After `receiver.forget` the handle is still
   open, so the receiver plays and the request is then refused with
   `receiver_not_trusted`. `docs/architecture.md:20` puts the trust gate first.
2. **Session ids are taken over** (`companion_reuse`). The id is
   `sessions.len() + 1` (`bridge/src/lib.rs:496`): load, load, close the first,
   load replaces the second session's summary, and its file joins the new
   one's entry and stays until that session closes. `docs/bridge-protocol.md:14`
   calls the file lease session-owned.
3. **An unparsable request is answered under no call's id** (`nativeport_ids`).
   `malformed_request_response` (`companion/src/main.rs:934`) answers as
   `invalid-request`, so the page's call waits for its ten seconds.
   `docs/bridge-protocol.md:8` says responses have the same request id. An SDP
   offer longer than the 16 KiB a string may have takes this way.

## 7. Observations

Met while reading; no document contradicts them, so no run claims them.

* Both manifests set `default_popup`, so the click events that start mirroring
  do not fire as shipped. `Mirroring` models the handler as written.
* The popup has no message listener and so no media candidates, the extension's
  state never gets a session, and no page calls `receiver.forget`, `receiver.disconnect` or the
  `stop` phase of mirroring. The companion's models are of the bridge
  interface, which serves these requests whoever sends them.
* A lease's expiry is looked at when it is claimed (`companion/src/main.rs:177`);
  `fetch_to_file` then has no overall limit, so the session may start, with the
  lease's headers already used, long after the lease's time.
* A load that takes over the id of a live session starts again at revision 1
  (`bridge/src/lib.rs:496-505`). No page reads the revision today; the reducer of
  `extension-core` drops what is older than the highest revision it has seen
  (`state.ts:26-33`), so with revisions in the events it would keep the session
  that is gone.
* A lease is compared with the record, while the media goes to the handle that
  was opened earlier. `LeasedSessionIsBound` holds for the session that starts;
  after a rediscovery a load that is refused afterwards may already have gone
  to the older handle's receiver.
* A response without a length that is not chunked ends with its connection, and
  one that is cut short is kept and played as it is. `FetchedFile.length` is
  compared with nothing (`media-fetcher/src/lib.rs:208-233`).
* A click that overtakes another while the browser still makes the other's
  description closes its peer, and the other's handler then waits for ever
  (`mirroring.ts:13-14`); it holds nothing that the newer one needs.
* A killed process leaves its temporary files, and a stale `trust.tmp-<pid>`
  keeps a later process with that id from saving anything. Nothing removes them.
* A forgotten fingerprint can come back: a process writes the whole copy it
  loaded at its start (`receiver-trust/src/lib.rs:189`), so when one process
  forgets an entry and another then trusts something else, the entry is on disk
  again, and the other process never stopped trusting it. `SharedStore` allows
  this; `ForgottenIsNotListed` is what still holds, in the process that served
  the request, and `TrustIsNeverInvented` what holds for all of them.
* `forget` clears one record; another record with the same fingerprint stays
  listed as trusted until the next discovery, and can still be connected.
* Once the deadline has passed, each further socket gives the browse at most
  one packet, and a packet that came in time is left unread when the one before
  it is handled across the deadline (`discovery/src/lib.rs:388`). `Vec::with_capacity`
  (line 136) reserves for the record counts the header claims, whatever the
  packet holds. One malformed packet from any host of the network drops the
  results of the whole browse. Records split over several packets are never
  combined, and a later packet replaces an announcement of the same id.
* `serve_next` of the FCompanion fixture waits without a limit for a client that
  connects and sends nothing.
* The numeric `revision` of `connect` events is not sent, so a reader of events
  cannot order them.

## 8. What is not modelled

* `extension-core` (state, detector, resolver), the content script, the popup:
  in Chromium the list of receivers is filled by the result of `receiver.list`
  (`browser.ts:150-158`), which the popup shows and the mirroring click picks a
  trusted receiver from (`Click` of `Mirroring` takes any). Sessions never enter
  the state and the popup has no message listener, so it has no candidates and
  `castCandidate` is not reached. What is left is rendering. The detector and the resolver are pure functions on strings
  and DOM elements.
* `manifest-rewriter`, `fetch_manifest`: pure text transformation that no binary
  calls.
* In `discovery`: TTLs, the contents of TXT records (only that a cut string is an
  error), the letters and case of names, the order and repetition of addresses, datagrams longer than the buffer.
* In `fcompanion`: URLs, content types and the texts of responses; `register`
  draws a fresh token.
* ICE, the media path and the receivers: external. `screen` and `Answer` are
  what the code in `src/` can tell of them.
* `bridgeCall` where `connectNative` is missing (`browser.ts:135-139`): the call
  then goes through `sendNativeMessage`, without the pending map and the timeout.
  The supported browsers have `connectNative`.
* Contents: header values, SPKI parsing, JSON limits, formatting of events,
  redaction. They appear only as the outcome a check has.
* `diagnostics` and `mock-receiver` (no state of the product), generated bridge
  types, settings and popup rendering, packaging and installers.
* The Firefox adapter is covered where it has the Chromium adapter's functions
  (the channel); its capture window is not.

## 9. Plan

Done, most important behaviour first: the registry with its proof; the trust
file, its two abstract specifications and their refinement proofs; the
companion's leases, sessions and files; the native channel; mirroring; the
media fetcher; the registry beside other processes; discovery; the FCompanion
fixture; the companion beside other processes; the proof of every safety
property that a run checks. Left:

1. An abstract specification of a fetch (a file is there as fetched, or not at all)
   that `MediaFetch` implements and `LoadRelay` uses, and one of a browse for
   `Discovery` and `DiscoverReceivers`: today the two levels are related by their
   properties and not by a refinement.
2. An abstract specification of the native channel (each call is handled at most
   once and settled) and the step simulation by `NativePort`.
