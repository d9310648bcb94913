----------------------------- MODULE FCompanion -----------------------------
(***************************************************************************)
(* The loopback resource server of crates/fcompanion: ResourceStore behind *)
(* its mutex, and connections that CompanionHttpServer serves one by one   *)
(* or at the same time, since serve_next takes &self.  A connection reads  *)
(* its request in pieces, looks the resource up under the lock, and        *)
(* answers from its own copy.  Bytes are counted, not stored.              *)
(***************************************************************************)
EXTENDS Naturals

CONSTANTS Tokens,      \* the random tokens register may draw
          NoToken,     \* of a connection that has not asked yet
          Connections,
          Ttl, MaxBytes,   \* the limits the store was made with
          Sizes,       \* of what callers try to register
          Places,      \* byte positions a Range header may name
          Unbounded,   \* the end of a range that names none: usize::MAX
          BufferBytes, \* of the request buffer: 8 * 1024
          MaxTime      \* bound of the clock

ASSUME FCompanionAssumption ==
    /\ NoToken \notin Tokens
    /\ Ttl \in Nat /\ MaxBytes \in Nat /\ MaxTime \in Nat
    /\ BufferBytes \in Nat \ {0}
    /\ Sizes \subseteq Nat /\ Places \subseteq Nat
    /\ Unbounded \in Nat /\ \A n \in Places \union {MaxBytes} : n <= Unbounded

VARIABLES resources,  \* ResourceStore.resources: token to size and expiry
          clock,      \* SystemTime::now, which may be set back
          step,       \* where each connection stands
          filled,     \* bytes in its request buffer
          request,    \* the resource and range it asks for
          copy,       \* its clone of the resource
          answer,     \* what was written to it
          client,     \* external: whether the other side is still there
          refused     \* history: tokens not found since they were registered

vars == <<resources, clock, step, filled, request, copy, answer, client, refused>>

\* No Range header, or one parse_range refuses, like this.
Whole == [start |-> 1, end |-> 0]
Range == {r \in [start : Places, end : Places \union {Unbounded}] : r.start <= r.end}
Requests == [token : Tokens, range : Range \union {Whole}]

NoRequest == [token |-> NoToken, range |-> Whole]
NoCopy == [size |-> 0, expires |-> 0]
NoAnswer == [status |-> 0, first |-> 0, length |-> 0]

Status(code) == [status |-> code, first |-> 0, length |-> 0]

Init ==
    /\ resources = <<>>
    /\ clock = 0
    /\ step = [c \in Connections |-> "waiting"]
    /\ filled = [c \in Connections |-> 0]
    /\ request = [c \in Connections |-> NoRequest]
    /\ copy = [c \in Connections |-> NoCopy]
    /\ answer = [c \in Connections |-> NoAnswer]
    /\ client = [c \in Connections |-> "open"]
    /\ refused = {}

-----------------------------------------------------------------------------
(* ResourceStore *)

connectionVars == <<step, filled, request, copy, answer, client>>

Put(t, resource) ==
    [u \in DOMAIN resources \union {t} |-> IF u = t THEN resource ELSE resources[u]]

Keep(tokens) == [t \in tokens |-> resources[t]]

\* A resource above the limit is refused and nothing changes.
Register(t, n) ==
    /\ t \notin DOMAIN resources
    /\ n <= MaxBytes
    /\ resources' = Put(t, [size |-> n, expires |-> clock + Ttl])
    /\ refused' = refused \ {t}
    /\ UNCHANGED <<clock, connectionVars>>

Remove(t) ==
    /\ t \in DOMAIN resources
    /\ resources' = Keep(DOMAIN resources \ {t})
    /\ UNCHANGED <<clock, refused, connectionVars>>

Unexpired == {t \in DOMAIN resources : resources[t].expires > clock}

\* expire, when the owner of the store calls it.
Expire ==
    /\ resources' = Keep(Unexpired)
    /\ UNCHANGED <<clock, refused, connectionVars>>

\* The wall clock goes on, or is set to any other time.
SetClock(t) ==
    /\ clock' = t
    /\ UNCHANGED <<resources, refused, connectionVars>>

-----------------------------------------------------------------------------
(* serve_connection *)

storeVars == <<resources, clock, refused>>

Goes(c, next) == step' = [step EXCEPT ![c] = next]

Answer(c, a) ==
    /\ answer' = [answer EXCEPT ![c] = a]
    /\ Goes(c, "done")

\* The client goes away, or its connection breaks.
ClientCloses(c) ==
    /\ client[c] = "open"
    /\ client' = [client EXCEPT ![c] = "closed"]
    /\ UNCHANGED <<storeVars, step, filled, request, copy, answer>>

Accept(c) ==
    /\ step[c] = "waiting"
    /\ Goes(c, "reading")
    /\ UNCHANGED <<storeVars, filled, request, copy, answer, client>>

HasRoom(c) == step[c] = "reading" /\ filled[c] < BufferBytes

\* Mutant: nobody asks whether the buffer has room, and a read into no room
\* returns 0 like the end of the stream.
FullBufferUnnoticed(c) ==
    /\ step[c] = "reading" /\ filled[c] = BufferBytes
    /\ Goes(c, "done")
    /\ UNCHANGED <<storeVars, filled, request, copy, answer, client>>

FullBuffer(c) ==
    /\ step[c] = "reading" /\ filled[c] = BufferBytes
    /\ Answer(c, Status(431))
    /\ UNCHANGED <<storeVars, filled, request, copy, client>>

\* A piece without the end of the header.
ReadPiece(c) ==
    /\ HasRoom(c)
    /\ \E n \in filled[c] + 1 .. BufferBytes : filled' = [filled EXCEPT ![c] = n]
    /\ UNCHANGED <<storeVars, step, request, copy, answer, client>>

\* The piece that completes the header: another method or another path than
\* that of a resource, or a resource.
ReadRequest(c) ==
    /\ HasRoom(c)
    /\ \/ /\ \E code \in {405, 404} : Answer(c, Status(code))
          /\ UNCHANGED request
       \/ /\ \E r \in Requests : request' = [request EXCEPT ![c] = r]
          /\ Goes(c, "locking")
          /\ UNCHANGED answer
    /\ UNCHANGED <<storeVars, filled, copy, client>>

\* A read returns 0 or an error, or a write fails: there is no answer.
HangUp(c) ==
    /\ client[c] = "closed"
    /\ HasRoom(c) \/ step[c] = "found"
    /\ Goes(c, "done")
    /\ UNCHANGED <<storeVars, filled, request, copy, answer, client>>

\* What the connection does with the resource it found, or did not find.
TakeCopy(c, found) ==
    IF found
    THEN /\ copy' = [copy EXCEPT ![c] = resources[request[c].token]]
         /\ Goes(c, "found")
         /\ UNCHANGED <<answer, refused>>
    ELSE /\ Answer(c, Status(404))
         /\ refused' = refused \union {request[c].token}
         /\ UNCHANGED copy

\* Mutant: an expired resource is not served, but it stays in the store.
LookupKeepsExpired(c) ==
    /\ step[c] = "locking"
    /\ TakeCopy(c, request[c].token \in Unexpired)
    /\ UNCHANGED <<resources, clock, filled, request, client>>

\* get under the lock: expire first, then clone what is left under the token.
Lookup(c) ==
    /\ step[c] = "locking"
    /\ resources' = Keep(Unexpired)
    /\ TakeCopy(c, request[c].token \in Unexpired)
    /\ UNCHANGED <<clock, filled, request, client>>

Part(first, last) == [status |-> 206, first |-> first, length |-> last + 1 - first]

\* Mutant: the end of the range is clamped to the size, one too far.
ServeOneTooFar(size, range) ==
    IF range = Whole THEN [status |-> 200, first |-> 0, length |-> size]
    ELSE IF range.start >= size THEN Status(416)
    ELSE IF range.end > size THEN Part(range.start, size)
    ELSE Part(range.start, range.end)

Serve(size, range) ==
    IF range = Whole THEN [status |-> 200, first |-> 0, length |-> size]
    ELSE IF range.start >= size THEN Status(416)
    ELSE IF range.end > size - 1 THEN Part(range.start, size - 1)
    ELSE Part(range.start, range.end)

Respond(c) ==
    /\ step[c] = "found"
    /\ Answer(c, Serve(copy[c].size, request[c].range))
    /\ UNCHANGED <<storeVars, filled, request, copy, client>>

Connection(c) ==
    \/ Accept(c) \/ FullBuffer(c) \/ ReadPiece(c) \/ ReadRequest(c)
    \/ HangUp(c) \/ Lookup(c) \/ Respond(c)

Next ==
    \/ \E t \in Tokens : Remove(t) \/ \E n \in Sizes : Register(t, n)
    \/ Expire
    \/ \E t \in 0 .. MaxTime : SetClock(t)
    \/ \E c \in Connections : ClientCloses(c) \/ Connection(c)

Spec == Init /\ [][Next]_vars

-----------------------------------------------------------------------------
(* Properties *)

FCompanionTypeOK ==
    /\ DOMAIN resources \subseteq Tokens
    /\ resources \in [DOMAIN resources -> [size : 0 .. MaxBytes, expires : Nat]]
    /\ clock \in 0 .. MaxTime
    /\ step \in [Connections -> {"waiting", "reading", "locking", "found", "done"}]
    /\ filled \in [Connections -> 0 .. BufferBytes]
    /\ request \in [Connections -> Requests \union {NoRequest}]
    /\ copy \in [Connections -> [size : 0 .. MaxBytes, expires : Nat]]
    /\ answer \in [Connections -> [status : Nat, first : Nat, length : Nat]]
    /\ client \in [Connections -> {"open", "closed"}]
    /\ refused \subseteq Tokens

\* The bytes a connection is sent are those it asked for, as far as the copy
\* it made has them; none of them is when its range starts behind the end,
\* and an empty resource has no range at all.
Sent(c) == {answer[c].first + k : k \in 0 .. answer[c].length - 1}

Asked(c) ==
    LET range == request[c].range
    IN  {p \in 0 .. copy[c].size - 1 :
           range = Whole \/ (range.start <= p /\ p <= range.end)}

RangeIsExact ==
    \A c \in Connections :
        /\ answer[c].status \in {200, 206} => Sent(c) = Asked(c)
        /\ answer[c].status = 206 => Sent(c) # {}
        /\ answer[c].status = 416 => Asked(c) = {}

\* Only a client that went away is left without an answer.
SilentOnlyToHangUp ==
    \A c \in Connections :
        step[c] = "done" /\ answer[c] = NoAnswer => client[c] = "closed"

\* A token that was not found is never found again until something is
\* registered under it, even if the wall clock is set back before its expiry.
RefusedIsGone == refused \intersect DOMAIN resources = {}

\* The inductive invariant: besides the above, a connection is answered once,
\* at its end, and looks for a resource only when it has read which.
AnsweredOnce == \A c \in Connections : step[c] # "done" => answer[c] = NoAnswer

AsksForOne ==
    \A c \in Connections : step[c] \in {"locking", "found"} => request[c] \in Requests

FCompanionInv ==
    /\ FCompanionTypeOK
    /\ AnsweredOnce
    /\ AsksForOne
    /\ RangeIsExact
    /\ SilentOnlyToHangUp
    /\ RefusedIsGone
=============================================================================
