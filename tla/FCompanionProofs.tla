-------------------------- MODULE FCompanionProofs --------------------------
(***************************************************************************)
(* What the loopback resource server promises, for any number of tokens    *)
(* and connections, any limits, any sizes and ranges, and a wall clock     *)
(* that may be set to any time.                                            *)
(***************************************************************************)
EXTENDS FCompanion, TLAPS

\* A range the parser accepts, or none.
Ranges == Range \union {Whole}

LEMMA RangeType ==
  ASSUME NEW range \in Ranges
  PROVE  /\ range.start \in Nat
         /\ range.end \in Nat
         /\ range # Whole => range.start <= range.end
<1>1. CASE range \in Range
  <2>1. range \in [start : Places, end : Places \union {Unbounded}] /\ range.start <= range.end
    BY <1>1 DEF Range
  <2>2. Places \subseteq Nat /\ Unbounded \in Nat
    BY FCompanionAssumption
  <2> QED BY <2>1, <2>2
<1>2. CASE range = Whole
  BY <1>2 DEF Whole
<1> QED BY <1>1, <1>2 DEF Ranges

\* The positions a part of a resource consists of.
LEMMA PartIsInterval ==
  ASSUME NEW first \in Nat, NEW last \in Nat, first <= last
  PROVE  {first + k : k \in 0 .. (last + 1 - first) - 1} = first .. last
<1>1. ASSUME NEW p \in first .. last
      PROVE  \E k \in 0 .. (last + 1 - first) - 1 : p = first + k
  <2>1. p - first \in 0 .. (last + 1 - first) - 1 /\ p = first + (p - first)
    OBVIOUS
  <2> QED BY <2>1
<1>2. ASSUME NEW k \in 0 .. (last + 1 - first) - 1
      PROVE  first + k \in first .. last
  OBVIOUS
<1> QED BY <1>1, <1>2

\* What Serve answers for a resource of n bytes: the bytes asked for, or the
\* refusal when there are none of them.
Wanted(n, range) ==
  {p \in 0 .. n - 1 : range = Whole \/ (range.start <= p /\ p <= range.end)}

Bytes(a) == {a.first + k : k \in 0 .. a.length - 1}

Exact(a, n, range) ==
  /\ a \in [status : Nat, first : Nat, length : Nat]
  /\ a # NoAnswer
  /\ a.status \in {200, 206} => Bytes(a) = Wanted(n, range)
  /\ a.status = 206 => Bytes(a) # {}
  /\ a.status = 416 => Wanted(n, range) = {}

LEMMA PartIsExact ==
  ASSUME NEW n \in Nat, NEW range \in Ranges, range # Whole,
         NEW last \in Nat, range.start <= last, last <= n - 1,
         \A p \in 0 .. n - 1 : p <= range.end <=> p <= last
  PROVE  Exact(Part(range.start, last), n, range)
<1> DEFINE a == Part(range.start, last)
<1>1. /\ range.start \in Nat /\ range.end \in Nat
      /\ a = [status |-> 206, first |-> range.start, length |-> last + 1 - range.start]
  BY RangeType DEF Part
<1>2. Bytes(a) = range.start .. last
  <2>1. a.first = range.start /\ a.length = last + 1 - range.start
    BY <1>1
  <2>2. Bytes(a) = {range.start + k : k \in 0 .. (last + 1 - range.start) - 1}
    BY <2>1 DEF Bytes
  <2> QED BY <1>1, <2>2, PartIsInterval
<1>3. Wanted(n, range) = range.start .. last
  BY <1>1 DEF Wanted
<1>4. range.start \in Bytes(a)
  BY <1>1, <1>2
<1>5. a \in [status : Nat, first : Nat, length : Nat] /\ a # NoAnswer
  BY <1>1 DEF NoAnswer
<1>6. a.status = 206
  BY <1>1
<1> QED BY <1>2, <1>3, <1>4, <1>5, <1>6 DEF Exact

LEMMA ServeIsExact ==
  ASSUME NEW n \in Nat, NEW range \in Ranges
  PROVE  Exact(Serve(n, range), n, range)
<1>0. /\ range.start \in Nat /\ range.end \in Nat
      /\ range # Whole => range.start <= range.end
  BY RangeType
<1>1. CASE range = Whole
  <2> DEFINE a == [status |-> 200, first |-> 0, length |-> n]
  <2>1. Serve(n, range) = a
    BY <1>1 DEF Serve
  <2>2. Bytes(a) = 0 .. n - 1
    BY DEF Bytes
  <2>3. Wanted(n, range) = 0 .. n - 1
    BY <1>1 DEF Wanted
  <2>4. a \in [status : Nat, first : Nat, length : Nat] /\ a # NoAnswer
    BY DEF NoAnswer
  <2> QED BY <2>1, <2>2, <2>3, <2>4 DEF Exact
<1>2. CASE range # Whole /\ range.start >= n
  <2>1. Serve(n, range) = [status |-> 416, first |-> 0, length |-> 0]
    BY <1>2 DEF Serve, Status
  <2>2. Wanted(n, range) = {}
    BY <1>0, <1>2 DEF Wanted
  <2> QED BY <2>1, <2>2 DEF Exact, NoAnswer
<1>3. CASE range # Whole /\ ~(range.start >= n) /\ range.end > n - 1
  <2>1. Serve(n, range) = Part(range.start, n - 1)
    BY <1>3 DEF Serve
  <2>2. n - 1 \in Nat /\ range.start <= n - 1
    BY <1>0, <1>3
  <2>3. \A p \in 0 .. n - 1 : p <= range.end <=> p <= n - 1
    BY <1>0, <1>3
  <2> QED BY <1>3, <2>1, <2>2, <2>3, PartIsExact
<1>4. CASE range # Whole /\ ~(range.start >= n) /\ ~(range.end > n - 1)
  <2>1. Serve(n, range) = Part(range.start, range.end)
    BY <1>4 DEF Serve
  <2>2. range.end <= n - 1
    BY <1>0, <1>4
  <2> QED BY <1>0, <1>4, <2>1, <2>2, PartIsExact
<1> QED BY <1>1, <1>2, <1>3, <1>4

-----------------------------------------------------------------------------
(* The invariant falls into what the store keeps and what each connection  *)
(* has reached, so that most steps disturb one part only.                  *)
StoreOK ==
  /\ DOMAIN resources \subseteq Tokens
  /\ resources \in [DOMAIN resources -> [size : 0 .. MaxBytes, expires : Nat]]
  /\ clock \in 0 .. MaxTime
  /\ refused \subseteq Tokens
  /\ RefusedIsGone

ConnectionsTyped ==
  /\ step \in [Connections -> {"waiting", "reading", "locking", "found", "done"}]
  /\ filled \in [Connections -> 0 .. BufferBytes]
  /\ request \in [Connections -> Requests \union {NoRequest}]
  /\ copy \in [Connections -> [size : 0 .. MaxBytes, expires : Nat]]
  /\ answer \in [Connections -> [status : Nat, first : Nat, length : Nat]]
  /\ client \in [Connections -> {"open", "closed"}]

\* What holds of one connection at its step.
ConnectionOK(c) ==
  /\ step[c] # "done" => answer[c] = NoAnswer
  /\ step[c] \in {"locking", "found"} => request[c] \in Requests
  /\ step[c] = "done" /\ answer[c] = NoAnswer => client[c] = "closed"
  /\ answer[c].status \in {200, 206} =>
       Bytes(answer[c]) = Wanted(copy[c].size, request[c].range)
  /\ answer[c].status = 206 => Bytes(answer[c]) # {}
  /\ answer[c].status = 416 => Wanted(copy[c].size, request[c].range) = {}

LEMMA InvParts ==
  FCompanionInv <=> StoreOK /\ ConnectionsTyped /\ \A c \in Connections : ConnectionOK(c)
<1>1. \A c : Sent(c) = Bytes(answer[c])
  BY DEF Sent, Bytes
<1>2. \A c : Asked(c) = Wanted(copy[c].size, request[c].range)
  BY DEF Asked, Wanted
<1>3. RangeIsExact <=>
        \A c \in Connections :
          /\ answer[c].status \in {200, 206} =>
               Bytes(answer[c]) = Wanted(copy[c].size, request[c].range)
          /\ answer[c].status = 206 => Bytes(answer[c]) # {}
          /\ answer[c].status = 416 => Wanted(copy[c].size, request[c].range) = {}
  BY <1>1, <1>2 DEF RangeIsExact
<1>4. (\A c \in Connections : ConnectionOK(c)) <=>
        AnsweredOnce /\ AsksForOne /\ RangeIsExact /\ SilentOnlyToHangUp
  <2>1. ASSUME \A c \in Connections : ConnectionOK(c)
        PROVE  AnsweredOnce /\ AsksForOne /\ RangeIsExact /\ SilentOnlyToHangUp
    BY <1>3, <2>1 DEF ConnectionOK, AnsweredOnce, AsksForOne, SilentOnlyToHangUp
  <2>2. ASSUME AnsweredOnce, AsksForOne, RangeIsExact, SilentOnlyToHangUp,
               NEW c \in Connections
        PROVE  ConnectionOK(c)
    BY <1>3, <2>2 DEF ConnectionOK, AnsweredOnce, AsksForOne, SilentOnlyToHangUp
  <2> QED BY <2>1, <2>2
<1>5. FCompanionTypeOK /\ RefusedIsGone <=> StoreOK /\ ConnectionsTyped
  BY DEF FCompanionTypeOK, StoreOK, ConnectionsTyped
<1> QED BY <1>4, <1>5 DEF FCompanionInv

LEMMA InvPartsNext ==
  (FCompanionInv <=> StoreOK /\ ConnectionsTyped /\ \A c \in Connections : ConnectionOK(c))'
BY InvParts, PTL

LEMMA InvInit == Init => FCompanionInv
<1> SUFFICES ASSUME Init PROVE FCompanionInv
  OBVIOUS
<1>1. StoreOK
  BY FCompanionAssumption DEF Init, StoreOK, RefusedIsGone
<1>2. ConnectionsTyped
  BY FCompanionAssumption DEF Init, ConnectionsTyped, NoCopy, NoAnswer
<1>3. \A c \in Connections : ConnectionOK(c)
  BY DEF Init, ConnectionOK, NoAnswer
<1> QED BY <1>1, <1>2, <1>3, InvParts

-----------------------------------------------------------------------------
(* The store.                                                              *)

LEMMA KeepType ==
  ASSUME StoreOK, NEW kept \in SUBSET DOMAIN resources, resources' = Keep(kept)
  PROVE  /\ DOMAIN resources' = kept
         /\ DOMAIN resources' \subseteq Tokens
         /\ resources' \in [DOMAIN resources' -> [size : 0 .. MaxBytes, expires : Nat]]
BY DEF StoreOK, Keep

LEMMA UnexpiredType == Unexpired \in SUBSET DOMAIN resources
BY DEF Unexpired

LEMMA RegisterStep ==
  ASSUME StoreOK, NEW t \in Tokens, NEW n \in Sizes, Register(t, n)
  PROVE  StoreOK'
<1> DEFINE resource == [size |-> n, expires |-> clock + Ttl]
<1>1. resource \in [size : 0 .. MaxBytes, expires : Nat]
  BY FCompanionAssumption DEF Register, StoreOK
<1>2. resources' = Put(t, resource) /\ refused' = refused \ {t} /\ clock' = clock
  BY DEF Register
<1>3. DOMAIN resources' = DOMAIN resources \union {t}
  BY <1>2 DEF Put
<1>4. \A u \in DOMAIN resources' : resources'[u] \in [size : 0 .. MaxBytes, expires : Nat]
  BY <1>1, <1>2, <1>3 DEF Put, StoreOK
<1>5. resources' = [u \in DOMAIN resources' |-> resources'[u]]
  BY <1>2, <1>3 DEF Put
<1>6. resources' \in [DOMAIN resources' -> [size : 0 .. MaxBytes, expires : Nat]]
  BY <1>4, <1>5
<1>7. RefusedIsGone'
  BY <1>2, <1>3 DEF StoreOK, RefusedIsGone
<1> QED BY <1>2, <1>3, <1>6, <1>7 DEF StoreOK

LEMMA StoreStep ==
  ASSUME StoreOK,
         \/ \E t \in Tokens : Remove(t) \/ \E n \in Sizes : Register(t, n)
         \/ Expire
         \/ \E t \in 0 .. MaxTime : SetClock(t)
  PROVE  StoreOK' /\ UNCHANGED connectionVars
<1>1. CASE \E t \in Tokens : Remove(t)
  <2>1. PICK t \in Tokens : Remove(t)
    BY <1>1
  <2>2. resources' = Keep(DOMAIN resources \ {t}) /\ UNCHANGED <<clock, refused, connectionVars>>
    BY <2>1 DEF Remove
  <2> QED BY <2>2, KeepType DEF StoreOK, RefusedIsGone
<1>2. CASE \E t \in Tokens : \E n \in Sizes : Register(t, n)
  BY <1>2, RegisterStep DEF Register
<1>3. CASE Expire
  BY <1>3, KeepType, UnexpiredType DEF Expire, StoreOK, RefusedIsGone
<1>4. CASE \E t \in 0 .. MaxTime : SetClock(t)
  BY <1>4 DEF SetClock, StoreOK, RefusedIsGone
<1> QED BY <1>1, <1>2, <1>3, <1>4

-----------------------------------------------------------------------------
(* The connections.                                                        *)

\* Of a client only matters whether it is still there at a silent end.
LEMMA ConnectionStays ==
  ASSUME NEW d \in Connections, ConnectionOK(d),
         step'[d] = step[d], request'[d] = request[d], copy'[d] = copy[d],
         answer'[d] = answer[d], client'[d] = client[d] \/ client'[d] = "closed"
  PROVE  ConnectionOK(d)'
<1>1. Bytes(answer[d])' = Bytes(answer[d])
  BY DEF Bytes
<1>2. Wanted(copy[d].size, request[d].range)' = Wanted(copy[d].size, request[d].range)
  BY DEF Wanted
<1> QED BY <1>1, <1>2 DEF ConnectionOK

\* What a step of connection c leaves of the others.
LEMMA OthersStay ==
  ASSUME NEW c \in Connections, ConnectionsTyped, ConnectionsTyped',
         \A d \in Connections : ConnectionOK(d),
         ConnectionOK(c)',
         \A d \in Connections \ {c} :
           /\ step'[d] = step[d] /\ request'[d] = request[d] /\ copy'[d] = copy[d]
           /\ answer'[d] = answer[d] /\ client'[d] = client[d]
  PROVE  \A d \in Connections : ConnectionOK(d)'
<1> SUFFICES ASSUME NEW d \in Connections, d # c PROVE ConnectionOK(d)'
  OBVIOUS
<1>1. /\ step'[d] = step[d] /\ request'[d] = request[d] /\ copy'[d] = copy[d]
      /\ answer'[d] = answer[d] /\ client'[d] = client[d]
  OBVIOUS
<1>2. ConnectionOK(d)
  OBVIOUS
<1> QED BY <1>1, <1>2, ConnectionStays

LEMMA ConnectionStep ==
  ASSUME FCompanionInv, NEW c \in Connections, ClientCloses(c) \/ Connection(c)
  PROVE  FCompanionInv'
<1>0. StoreOK /\ ConnectionsTyped /\ \A d \in Connections : ConnectionOK(d)
  BY InvParts
<1> USE <1>0
<1> DEFINE Frame ==
      \A d \in Connections \ {c} :
        /\ step'[d] = step[d] /\ request'[d] = request[d] /\ copy'[d] = copy[d]
        /\ answer'[d] = answer[d] /\ client'[d] = client[d]
<1>a. ASSUME UNCHANGED storeVars PROVE StoreOK'
  BY <1>a DEF storeVars, StoreOK, RefusedIsGone
<1>1. CASE ClientCloses(c)
  <2>1. ConnectionsTyped' /\ Frame
    BY <1>1 DEF ClientCloses, ConnectionsTyped
  <2>2. /\ step'[c] = step[c] /\ request'[c] = request[c] /\ copy'[c] = copy[c]
        /\ answer'[c] = answer[c] /\ client'[c] = "closed"
    BY <1>1 DEF ClientCloses, ConnectionsTyped
  <2>3. ConnectionOK(c)'
    BY <2>2, ConnectionStays
  <2> QED BY <1>1, <1>a, <2>1, <2>3, OthersStay, InvPartsNext DEF ClientCloses
<1>2. CASE Accept(c)
  <2>1. ConnectionsTyped' /\ Frame
    BY <1>2 DEF Accept, Goes, ConnectionsTyped
  <2>2. ConnectionOK(c)'
    BY <1>2 DEF Accept, Goes, ConnectionsTyped, ConnectionOK, Bytes, Wanted
  <2> QED BY <1>2, <1>a, <2>1, <2>2, OthersStay, InvPartsNext DEF Accept
<1>3. CASE FullBuffer(c)
  <2>1. ConnectionsTyped' /\ Frame
    BY <1>3 DEF FullBuffer, Answer, Goes, Status, ConnectionsTyped
  <2>2. ConnectionOK(c)'
    BY <1>3 DEF FullBuffer, Answer, Goes, Status, ConnectionsTyped, ConnectionOK, NoAnswer
  <2> QED BY <1>3, <1>a, <2>1, <2>2, OthersStay, InvPartsNext DEF FullBuffer
<1>4. CASE ReadPiece(c)
  <2>1. ConnectionsTyped' /\ Frame
    BY <1>4, FCompanionAssumption DEF ReadPiece, HasRoom, ConnectionsTyped
  <2>2. ConnectionOK(c)'
    <3>1. /\ step'[c] = step[c] /\ request'[c] = request[c] /\ copy'[c] = copy[c]
          /\ answer'[c] = answer[c] /\ client'[c] = client[c]
      BY <1>4 DEF ReadPiece
    <3>2. Bytes(answer'[c]) = Bytes(answer[c])
      BY <3>1
    <3>3. Wanted(copy'[c].size, request'[c].range) = Wanted(copy[c].size, request[c].range)
      BY <3>1
    <3>4. ConnectionOK(c)
      OBVIOUS
    <3> QED BY <3>1, <3>2, <3>3, <3>4 DEF ConnectionOK
  <2> QED BY <1>4, <1>a, <2>1, <2>2, OthersStay, InvPartsNext DEF ReadPiece
<1>5. CASE ReadRequest(c)
  <2>0. step[c] = "reading" /\ UNCHANGED <<storeVars, filled, copy, client>>
    BY <1>5 DEF ReadRequest, HasRoom
  <2>1. ASSUME NEW code \in {405, 404}, Answer(c, Status(code)), UNCHANGED request
        PROVE  ConnectionsTyped' /\ Frame /\ ConnectionOK(c)'
    <3>1. /\ answer' = [answer EXCEPT ![c] = [status |-> code, first |-> 0, length |-> 0]]
          /\ step' = [step EXCEPT ![c] = "done"]
      BY <2>1 DEF Answer, Goes, Status
    <3>2. [status |-> code, first |-> 0, length |-> 0]
            \in [status : Nat, first : Nat, length : Nat]
      OBVIOUS
    <3>3. ConnectionsTyped' /\ Frame
      BY <2>0, <2>1, <3>1, <3>2 DEF ConnectionsTyped
    <3>4. ConnectionOK(c)'
      BY <2>0, <2>1, <3>1 DEF ConnectionsTyped, ConnectionOK, NoAnswer
    <3> QED BY <3>3, <3>4
  <2>2. ASSUME NEW r \in Requests, request' = [request EXCEPT ![c] = r],
               Goes(c, "locking"), UNCHANGED answer
        PROVE  ConnectionsTyped' /\ Frame /\ ConnectionOK(c)'
    <3>1. ConnectionsTyped' /\ Frame
      BY <2>0, <2>2 DEF Goes, ConnectionsTyped
    <3>2. ConnectionOK(c)'
      BY <2>0, <2>2 DEF Goes, ConnectionsTyped, ConnectionOK, NoAnswer
    <3> QED BY <3>1, <3>2
  <2>3. ConnectionsTyped' /\ Frame /\ ConnectionOK(c)'
    BY <1>5, <2>1, <2>2 DEF ReadRequest
  <2> QED BY <1>a, <2>0, <2>3, OthersStay, InvPartsNext
<1>6. CASE HangUp(c)
  <2>1. ConnectionsTyped' /\ Frame
    BY <1>6 DEF HangUp, Goes, ConnectionsTyped
  <2>2. ConnectionOK(c)'
    BY <1>6 DEF HangUp, HasRoom, Goes, ConnectionsTyped, ConnectionOK, NoAnswer
  <2> QED BY <1>6, <1>a, <2>1, <2>2, OthersStay, InvPartsNext DEF HangUp
<1>7. CASE Lookup(c)
  <2>1. /\ resources' = Keep(Unexpired)
        /\ TakeCopy(c, request[c].token \in Unexpired)
        /\ UNCHANGED <<clock, filled, request, client>>
        /\ step[c] = "locking"
    BY <1>7 DEF Lookup
  <2>2. request[c] \in Requests
    BY <2>1 DEF ConnectionOK
  <2>3. request[c].token \in Tokens
    BY <2>2 DEF Requests
  <2>4. CASE request[c].token \in Unexpired
    <3>1. /\ copy' = [copy EXCEPT ![c] = resources[request[c].token]]
          /\ step' = [step EXCEPT ![c] = "found"]
          /\ UNCHANGED <<answer, refused>>
      BY <2>1, <2>4 DEF TakeCopy, Goes
    <3>2. resources[request[c].token] \in [size : 0 .. MaxBytes, expires : Nat]
      BY <2>4, UnexpiredType DEF StoreOK
    <3>3. ConnectionsTyped' /\ Frame
      BY <2>1, <3>1, <3>2 DEF ConnectionsTyped
    <3>4. ConnectionOK(c)'
      BY <2>1, <2>2, <3>1 DEF ConnectionsTyped, ConnectionOK, NoAnswer
    <3>5. StoreOK'
      BY <2>1, <3>1, KeepType, UnexpiredType DEF StoreOK, RefusedIsGone
    <3> QED BY <3>3, <3>4, <3>5, OthersStay, InvPartsNext
  <2>5. CASE request[c].token \notin Unexpired
    <3>1. /\ answer' = [answer EXCEPT ![c] = [status |-> 404, first |-> 0, length |-> 0]]
          /\ step' = [step EXCEPT ![c] = "done"]
          /\ refused' = refused \union {request[c].token}
          /\ UNCHANGED copy
      BY <2>1, <2>5 DEF TakeCopy, Answer, Goes, Status
    <3>2. ConnectionsTyped' /\ Frame
      BY <2>1, <3>1 DEF ConnectionsTyped
    <3>3. ConnectionOK(c)'
      BY <2>1, <3>1 DEF ConnectionsTyped, ConnectionOK, NoAnswer
    <3>4. StoreOK'
      BY <2>1, <2>3, <2>5, <3>1, KeepType, UnexpiredType DEF StoreOK, RefusedIsGone
    <3> QED BY <3>2, <3>3, <3>4, OthersStay, InvPartsNext
  <2> QED BY <2>4, <2>5
<1>8. CASE Respond(c)
  <2> DEFINE a == Serve(copy[c].size, request[c].range)
  <2>1. /\ answer' = [answer EXCEPT ![c] = a]
        /\ step' = [step EXCEPT ![c] = "done"]
        /\ step[c] = "found"
        /\ UNCHANGED <<filled, request, copy, client>>
    BY <1>8 DEF Respond, Answer, Goes
  <2>2. request[c].range \in Ranges
    BY <2>1 DEF ConnectionOK, Requests, Ranges
  <2>3. copy[c].size \in Nat
    BY FCompanionAssumption DEF ConnectionsTyped
  <2>4. Exact(a, copy[c].size, request[c].range)
    BY <2>2, <2>3, ServeIsExact
  <2>5. a \in [status : Nat, first : Nat, length : Nat]
    BY <2>4 DEF Exact
  <2>6. ConnectionsTyped' /\ Frame
    BY <2>1, <2>5 DEF ConnectionsTyped
  <2>7. /\ answer'[c] = a /\ step'[c] = "done"
        /\ copy'[c] = copy[c] /\ request'[c] = request[c]
    BY <2>1 DEF ConnectionsTyped
  <2>8. ConnectionOK(c)'
    BY <2>4, <2>7 DEF ConnectionOK, Exact, Bytes, Wanted
  <2> QED BY <1>8, <1>a, <2>6, <2>8, OthersStay, InvPartsNext DEF Respond
<1> QED BY <1>1, <1>2, <1>3, <1>4, <1>5, <1>6, <1>7, <1>8 DEF Connection

LEMMA InvNext == FCompanionInv /\ [Next]_vars => FCompanionInv'
<1> SUFFICES ASSUME FCompanionInv, [Next]_vars PROVE FCompanionInv'
  OBVIOUS
<1>0. StoreOK /\ ConnectionsTyped /\ \A c \in Connections : ConnectionOK(c)
  BY InvParts
<1>1. ASSUME StoreOK', UNCHANGED connectionVars PROVE FCompanionInv'
  <2>1. ConnectionsTyped'
    BY <1>0, <1>1 DEF connectionVars, ConnectionsTyped
  <2>2. \A c \in Connections : ConnectionOK(c)'
    BY <1>0, <1>1 DEF connectionVars, ConnectionOK, Bytes, Wanted
  <2> QED BY <1>1, <2>1, <2>2, InvPartsNext
<1>2. CASE \/ \E t \in Tokens : Remove(t) \/ \E n \in Sizes : Register(t, n)
           \/ Expire
           \/ \E t \in 0 .. MaxTime : SetClock(t)
  BY <1>0, <1>1, <1>2, StoreStep
<1>3. CASE \E c \in Connections : ClientCloses(c) \/ Connection(c)
  BY <1>3, ConnectionStep
<1>4. CASE UNCHANGED vars
  <2>1. StoreOK' /\ UNCHANGED connectionVars
    BY <1>0, <1>4 DEF vars, connectionVars, StoreOK, RefusedIsGone
  <2> QED BY <1>1, <2>1
<1> QED BY <1>2, <1>3, <1>4 DEF Next

-----------------------------------------------------------------------------
\* The store and the connections keep the invariant whatever their order.
THEOREM FCompanionInvariance == Spec => []FCompanionInv
BY InvInit, InvNext, PTL DEF Spec

\* Every answer holds exactly the bytes that were asked for and are there;
\* only a range that starts behind the end is refused.
THEOREM RangeIsExactAlways == Spec => []RangeIsExact
<1>1. FCompanionInv => RangeIsExact
  BY DEF FCompanionInv
<1> QED BY <1>1, FCompanionInvariance, PTL

\* Nobody who is still there is left without an answer at the end.
THEOREM SilentOnlyToHangUpAlways == Spec => []SilentOnlyToHangUp
<1>1. FCompanionInv => SilentOnlyToHangUp
  BY DEF FCompanionInv
<1> QED BY <1>1, FCompanionInvariance, PTL

\* What was refused stays gone, to whatever time the clock is set.
THEOREM RefusedIsGoneAlways == Spec => []RefusedIsGone
<1>1. FCompanionInv => RefusedIsGone
  BY DEF FCompanionInv
<1> QED BY <1>1, FCompanionInvariance, PTL
=============================================================================
