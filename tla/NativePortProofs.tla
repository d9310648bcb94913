-------------------------- MODULE NativePortProofs --------------------------
(***************************************************************************)
(* Proofs about the native messaging channel, for any calls and any bound  *)
(* of the ports: what the page waits for, who answers it, and that nothing *)
(* is ever handled twice.                                                  *)
(***************************************************************************)
EXTENDS NativePort, SequenceTheorems, TLAPS

USE MaxPortsAssumption DEF NoPort, Ports

(* What posting one more request does to the log of a port.                *)
LEMMA AppendFacts ==
  ASSUME NEW s \in Seq(Calls), NEW c \in Calls
  PROVE  /\ Append(s, c) \in Seq(Calls)
         /\ Len(s) \in Nat /\ Len(Append(s, c)) = Len(s) + 1
         /\ DOMAIN s = 1 .. Len(s) /\ DOMAIN Append(s, c) = 1 .. Len(s) + 1
         /\ \A i \in 1 .. Len(s) : Append(s, c)[i] = s[i]
         /\ Append(s, c)[Len(s) + 1] = c
BY AppendProperties, LenProperties

(* The initial state.                                                      *)
LEMMA InvInit == Init => NativePortInv
<1> SUFFICES ASSUME Init PROVE NativePortInv
  OBVIOUS
<1>1. <<>> \in Seq(Calls) /\ Len(<<>>) = 0 /\ DOMAIN <<>> = {}
  BY EmptySeq, LenProperties
<1>2. TypeOK
  BY <1>1 DEF Init, TypeOK, CallState, HostState
<1>3. PortsInOrder /\ Positions
  BY <1>1 DEF Init, PortsInOrder, Positions, Alive
<1>4. PostedOnce
  BY <1>1 DEF Init, PostedOnce
<1>5. /\ WaitsOnOpenPort /\ AnsweredWasHandled /\ OneProcessPerPage
      /\ DeliveredIsSettled
  BY DEF Init, WaitsOnOpenPort, AnsweredWasHandled, OneProcessPerPage, Alive,
         DeliveredIsSettled
<1> QED BY <1>2, <1>3, <1>4, <1>5 DEF NativePortInv

(* The log of a port is a sequence of calls.                               *)
LEMMA LogFacts ==
  ASSUME TypeOK, NEW g \in Ports
  PROVE  /\ posted[g] \in Seq(Calls)
         /\ Len(posted[g]) \in Nat
         /\ DOMAIN posted[g] = 1 .. Len(posted[g])
         /\ \A i \in DOMAIN posted[g] : posted[g][i] \in Calls
<1>1. posted[g] \in Seq(Calls)
  BY DEF TypeOK
<1> QED BY <1>1, LenProperties, ElementOfSeq

(* The counters of a port, and what the invariant says of them.            *)
LEMMA CounterFacts ==
  ASSUME NativePortInv, NEW g \in Ports
  PROVE  /\ handled[g] \in Nat /\ written[g] \in Nat /\ delivered[g] \in Nat
         /\ Len(posted[g]) \in Nat /\ host[g] \in HostState
         /\ delivered[g] <= written[g] /\ written[g] <= handled[g]
         /\ host[g] = "writing" => written[g] < handled[g]
         /\ handled[g] <= Len(posted[g]) /\ delivered[g] <= Len(posted[g])
         /\ host[g] = "handling" => handled[g] < Len(posted[g])
<1>1. TypeOK
  BY DEF NativePortInv
<1>2. Len(posted[g]) \in Nat
  BY <1>1, LogFacts
<1>3. /\ handled[g] \in Nat /\ written[g] \in Nat /\ delivered[g] \in Nat
      /\ host[g] \in HostState
  BY <1>1 DEF TypeOK
<1> QED BY <1>2, <1>3 DEF NativePortInv, Positions

(* What is handled stays handled while the logs and counters grow.         *)
LEMMA HandledStays ==
  ASSUME TypeOK, TypeOK', NEW c \in Calls,
         WasHandled(c),
         \A g \in Ports :
           /\ handled[g] <= handled'[g]
           /\ \A i \in DOMAIN posted[g] :
                i \in DOMAIN posted'[g] /\ posted'[g][i] = posted[g][i]
  PROVE  WasHandled(c)'
<1>0. PICK g \in Ports : HandledBy(c, g)
  BY DEF WasHandled
<1>1. PICK i \in DOMAIN posted[g] : i <= handled[g] /\ posted[g][i] = c
  BY <1>0 DEF HandledBy
<1>a. Len(posted[g]) \in Nat /\ DOMAIN posted[g] = 1 .. Len(posted[g])
  BY LogFacts
<1>b. handled[g] \in Nat /\ handled'[g] \in Nat
  BY DEF TypeOK
<1>2. i \in Nat /\ handled[g] \in Nat /\ handled'[g] \in Nat
  BY <1>a, <1>b
<1>3. i \in DOMAIN posted'[g] /\ posted'[g][i] = c /\ i <= handled'[g]
  BY <1>1, <1>2
<1> QED BY <1>3 DEF WasHandled, HandledBy

----------------------------------------------------------------------------
(* The page's port before and after getNativePort: the same, or a fresh    *)
(* one that nothing was posted on.                                         *)
LEMMA GetNativePortFacts ==
  ASSUME NativePortInv, GetNativePort
  PROVE  /\ port' \in Ports /\ port' <= opened' /\ opened' \in 0 .. MaxPorts
         /\ opened <= opened'
         /\ host' \in [Ports -> HostState]
         /\ \A g \in Ports \ {port'} : host'[g] = host[g]
         /\ port' \notin closed
         /\ \/ port' = port /\ opened' = opened /\ host' = host
            \/ /\ port = 0 /\ port' = opened + 1 /\ opened' = opened + 1
               /\ host'[port'] \in {"reading", "down"}
<1> USE DEF NativePortInv, TypeOK, PortsInOrder
<1>1. CASE port # 0 /\ UNCHANGED <<port, opened, host>>
  BY <1>1
<1>2. CASE port = 0 /\ OpenPort
  <2>1. opened + 1 \in Ports /\ opened + 1 > opened
    BY <1>2 DEF OpenPort
  <2>2. PICK started \in {"reading", "down"} :
          host' = [host EXCEPT ![opened + 1] = started]
    BY <1>2 DEF OpenPort
  <2>3. port' = opened + 1 /\ opened' = opened + 1
    BY <1>2 DEF OpenPort
  <2>a. \A g \in Ports : g > opened => g \notin closed
    BY DEF NativePortInv, PortsInOrder
  <2>b. opened \in Nat /\ host \in [Ports -> HostState]
    BY DEF NativePortInv, TypeOK
  <2>4. /\ opened \in Nat /\ host \in [Ports -> HostState]
        /\ opened + 1 \notin closed
    BY <2>1, <2>a, <2>b
  <2>5. host' \in [Ports -> HostState]
    BY <2>1, <2>2, <2>4 DEF HostState
  <2>6. /\ host'[opened + 1] \in {"reading", "down"}
        /\ \A g \in Ports \ {opened + 1} : host'[g] = host[g]
    BY <2>1, <2>2, <2>4
  <2>7. opened + 1 \in 0 .. MaxPorts /\ opened <= opened + 1
    BY <2>1, <2>4
  <2> HIDE DEF NativePortInv, TypeOK, PortsInOrder
  <2> QED BY <1>2, <2>1, <2>3, <2>4, <2>5, <2>6, <2>7
<1> QED BY <1>1, <1>2 DEF GetNativePort

(* A call adds one new request to the log of the open port.                *)
LEMMA CallKeepsInv ==
  ASSUME NativePortInv, NEW c \in Calls, Call(c)
  PROVE  NativePortInv'
<1> DEFINE p == port'
           old == posted[p]
<1>1. /\ p \in Ports /\ p <= opened' /\ opened' \in 0 .. MaxPorts
      /\ opened <= opened' /\ host' \in [Ports -> HostState]
      /\ \A g \in Ports \ {p} : host'[g] = host[g]
      /\ p \notin closed
      /\ \/ p = port /\ opened' = opened /\ host' = host
         \/ /\ port = 0 /\ p = opened + 1 /\ opened' = opened + 1
            /\ host'[p] \in {"reading", "down"}
  BY GetNativePortFacts DEF Call
<1>2. TypeOK
  BY DEF NativePortInv
<1>3. \A g \in Ports :
        /\ posted[g] \in Seq(Calls) /\ Len(posted[g]) \in Nat
        /\ DOMAIN posted[g] = 1 .. Len(posted[g])
        /\ \A i \in DOMAIN posted[g] : posted[g][i] \in Calls
  BY <1>2, LogFacts
<1>4. /\ posted' = [posted EXCEPT ![p] = Append(old, c)]
      /\ \A g \in Ports \ {p} : posted'[g] = posted[g]
      /\ posted'[p] = Append(old, c)
  BY <1>1, <1>2 DEF Call, TypeOK
<1>5. /\ Append(old, c) \in Seq(Calls) /\ Len(Append(old, c)) = Len(old) + 1
      /\ DOMAIN Append(old, c) = 1 .. Len(old) + 1
      /\ \A i \in 1 .. Len(old) : Append(old, c)[i] = old[i]
      /\ Append(old, c)[Len(old) + 1] = c
  BY <1>1, <1>3, AppendFacts
<1> HIDE DEF p, old
<1>6. /\ state[c] = "new"
      /\ state' = [d \in Calls |-> IF d = c THEN "pending" ELSE state[d]]
      /\ pending' = pending \cup {c} /\ timers' = timers \cup {c}
      /\ UNCHANGED <<closed, handled, written, delivered>>
  BY DEF Call, Settle
<1>7. TypeOK'
  BY <1>1, <1>2, <1>4, <1>5, <1>6 DEF TypeOK, CallState, p
<1>8. PortsInOrder'
  <2>0. opened \in Nat /\ opened' \in Nat /\ p \in Nat
    BY <1>1, <1>2 DEF TypeOK
  <2>1. \A g \in Ports : g > opened' => g # p /\ g > opened
    BY <1>1, <2>0
  <2>2. \A g \in Ports :
          g > opened => ~Alive(g) /\ g \notin closed /\ posted[g] = <<>>
    BY DEF NativePortInv, PortsInOrder
  <2> QED BY <1>1, <1>4, <1>6, <2>1, <2>2 DEF PortsInOrder, Alive, p
<1>9. \A g \in Ports : \A i \in DOMAIN posted[g] : posted[g][i] # c
  BY <1>6 DEF NativePortInv, PostedOnce
<1>10. \A g \in Ports : \A i \in DOMAIN posted'[g] :
         \/ /\ i \in DOMAIN posted[g] /\ posted'[g][i] = posted[g][i]
            /\ posted[g][i] # c
         \/ g = p /\ i = Len(old) + 1 /\ posted'[g][i] = c
  BY <1>1, <1>3, <1>4, <1>5, <1>9 DEF old
<1>11. \A g \in Ports : \A i \in DOMAIN posted[g] :
         i \in DOMAIN posted'[g] /\ posted'[g][i] = posted[g][i]
  BY <1>1, <1>3, <1>4, <1>5 DEF old
<1>12. PostedOnce'
  <2>1. \A g \in Ports : \A i \in DOMAIN posted'[g] :
          state'[posted'[g][i]] # "new"
    <3> TAKE g \in Ports
    <3> TAKE i \in DOMAIN posted'[g]
    <3>1. CASE i \in DOMAIN posted[g] /\ posted'[g][i] = posted[g][i]
      BY <1>3, <1>6, <3>1 DEF NativePortInv, PostedOnce
    <3>2. CASE posted'[g][i] = c
      BY <1>6, <3>2
    <3> QED BY <1>10, <3>1, <3>2
  <2>2. \A g, h \in Ports : \A i \in DOMAIN posted'[g], j \in DOMAIN posted'[h] :
          posted'[g][i] = posted'[h][j] => g = h /\ i = j
    BY <1>10 DEF NativePortInv, PostedOnce
  <2> QED BY <2>1, <2>2 DEF PostedOnce
<1>13. Positions'
  <2> SUFFICES ASSUME NEW g \in Ports
               PROVE  /\ delivered'[g] <= written'[g]
                      /\ written'[g] <= handled'[g]
                      /\ host'[g] = "writing" => written'[g] < handled'[g]
                      /\ handled'[g] <= Len(posted'[g])
                      /\ host'[g] = "handling" => handled'[g] < Len(posted'[g])
    BY DEF Positions
  <2>1. Len(posted[g]) <= Len(posted'[g]) /\ Len(posted'[g]) \in Nat
    BY <1>1, <1>3, <1>4, <1>5 DEF old
  <2>2. host'[g] = host[g] \/ host'[g] \in {"reading", "down"}
    BY <1>1
  <2>3. handled[g] \in Nat /\ written[g] \in Nat /\ Len(posted[g]) \in Nat
    BY <1>2, <1>3 DEF TypeOK
  <2> QED BY <1>6, <2>1, <2>2, <2>3 DEF NativePortInv, Positions
<1>14. WaitsOnOpenPort'
  <2>1. Len(old) + 1 \in DOMAIN posted'[p] /\ posted'[p][Len(old) + 1] = c
    BY <1>1, <1>4, <1>5, <1>3 DEF old
  <2>2. ASSUME NEW d \in pending
        PROVE  \E i \in DOMAIN posted'[p] : posted'[p][i] = d
    <3>1. port # 0 /\ Posted(d, port)
      BY <2>2 DEF NativePortInv, WaitsOnOpenPort
    <3>2. p = port
      BY <1>1, <3>1
    <3>3. \E i \in DOMAIN posted[p] : posted[p][i] = d
      BY <3>1, <3>2 DEF Posted
    <3> QED BY <1>1, <1>11, <3>3
  <2>a. \A d \in pending' : \E i \in DOMAIN posted'[p] : posted'[p][i] = d
    BY <1>6, <2>1, <2>2
  <2>b. p # 0
    BY <1>1
  <2>3. \A d \in pending' : port' # 0 /\ Posted(d, port)'
    BY <2>a, <2>b DEF p, Posted
  <2>4. pending' = timers'
        /\ \A d \in Calls : state'[d] = "pending" <=> d \in pending'
    BY <1>6 DEF NativePortInv, WaitsOnOpenPort
  <2> QED BY <2>3, <2>4 DEF WaitsOnOpenPort
<1>15. AnsweredWasHandled'
  <2> SUFFICES ASSUME NEW d \in Calls, state'[d] = "answered"
               PROVE  WasHandled(d)'
    BY DEF AnsweredWasHandled
  <2>1. WasHandled(d)
    BY <1>6 DEF NativePortInv, AnsweredWasHandled
  <2>2. \A g \in Ports : handled[g] <= handled'[g]
    BY <1>2, <1>6 DEF TypeOK
  <2> QED BY <1>2, <1>7, <1>11, <2>1, <2>2, HandledStays
<1>16. OneProcessPerPage'
  <2>1. \A g \in Ports : Alive(g) => g = port \/ g \in closed
    BY DEF NativePortInv, OneProcessPerPage
  <2> QED BY <1>1, <1>6, <2>1 DEF OneProcessPerPage, Alive, p
<1>17. DeliveredIsSettled'
  <2> SUFFICES ASSUME NEW d \in Calls \ Malformed, DeliveredTo(d)'
               PROVE  state'[d] # "pending"
    BY DEF DeliveredIsSettled
  <2>1. PICK g \in Ports : \E i \in 1 .. delivered'[g] : posted'[g][i] = d
    BY DEF DeliveredTo
  <2>2. PICK i \in 1 .. delivered[g] : posted'[g][i] = d
    BY <1>6, <2>1
  <2>3. i \in DOMAIN posted[g]
    <3>1. delivered[g] \in Nat /\ delivered[g] <= Len(posted[g])
      BY CounterFacts
    <3>2. i \in Nat /\ 1 <= i /\ i <= delivered[g]
      BY <2>2, <3>1
    <3> QED BY <1>3, <3>1, <3>2
  <2>4. posted[g][i] = d /\ d # c
    BY <1>9, <1>11, <2>2, <2>3
  <2>5. DeliveredTo(d)
    BY <2>2, <2>4 DEF DeliveredTo
  <2> QED BY <1>6, <2>4, <2>5 DEF NativePortInv, DeliveredIsSettled
<1> QED
  BY <1>7, <1>8, <1>12, <1>13, <1>14, <1>15, <1>16, <1>17 DEF NativePortInv

----------------------------------------------------------------------------
(* The steps of the page that post nothing settle calls and may close the  *)
(* port: what such a step must respect for the rest to follow.             *)
LEMMA PageStepKeepsInv ==
  ASSUME NativePortInv,
         UNCHANGED <<opened, host, posted, handled, written>>,
         state' \in [Calls -> CallState],
         pending' \subseteq Calls, timers' \subseteq Calls,
         delivered' \in [Ports -> Nat],
         \A c \in Calls : state'[c] = "new" => state[c] = "new",
         \A g \in Ports : delivered'[g] <= written[g],
         port' = port \/ port' = 0,
         closed' \subseteq Ports, port' \notin closed',
         \A g \in closed' : g \in closed \/ g = port,
         WaitsOnOpenPort', AnsweredWasHandled', OneProcessPerPage',
         DeliveredIsSettled'
  PROVE  NativePortInv'
<1>1. TypeOK'
  BY DEF NativePortInv, TypeOK
<1>2. PortsInOrder'
  <2>1. port \in Nat /\ opened \in Nat /\ port <= opened
    BY DEF NativePortInv, TypeOK, PortsInOrder
  <2>2. \A g \in Ports :
          g > opened => ~Alive(g) /\ g \notin closed /\ posted[g] = <<>>
    BY DEF NativePortInv, PortsInOrder
  <2>3. \A g \in Ports : g > opened => g # port
    BY <2>1
  <2>4. port' <= opened
    BY <2>1
  <2> QED BY <2>2, <2>3, <2>4 DEF PortsInOrder, Alive
<1>3. PostedOnce'
  <2>1. \A g \in Ports : \A i \in DOMAIN posted[g] : posted[g][i] \in Calls
    BY LogFacts DEF NativePortInv
  <2> QED BY <2>1 DEF NativePortInv, PostedOnce
<1>4. Positions'
  BY DEF NativePortInv, Positions
<1> QED BY <1>1, <1>2, <1>3, <1>4 DEF NativePortInv

(* Settling some of the calls that wait.                                   *)
LEMMA SettleFacts ==
  ASSUME NativePortInv, NEW cs \in SUBSET pending, NEW outcome,
         outcome \in CallState \ {"new", "pending"},
         state' = [c \in Calls |-> IF c \in cs THEN outcome ELSE state[c]]
  PROVE  /\ state' \in [Calls -> CallState]
         /\ \A c \in Calls : state'[c] = "new" => state[c] = "new"
         /\ \A c \in Calls : state'[c] = "pending" <=> c \in pending \ cs
         /\ \A c \in Calls : state'[c] = "answered" =>
              state[c] = "answered" \/ (c \in cs /\ outcome = "answered")
<1>1. state \in [Calls -> CallState]
  BY DEF NativePortInv, TypeOK
<1>2. \A c \in Calls : state'[c] = IF c \in cs THEN outcome ELSE state[c]
  OBVIOUS
<1>3. \A c \in Calls : state[c] = "pending" <=> c \in pending
  BY DEF NativePortInv, WaitsOnOpenPort
<1>4. state' \in [Calls -> CallState]
  BY <1>1
<1> QED BY <1>2, <1>3, <1>4

(* A step that only settles waiting calls, none of them as answered, keeps *)
(* what is handled.                                                        *)
LEMMA StillHandled ==
  ASSUME NativePortInv, UNCHANGED <<posted, handled>>,
         \A c \in Calls : state'[c] = "answered" => state[c] = "answered"
  PROVE  AnsweredWasHandled'
BY DEF NativePortInv, AnsweredWasHandled, WasHandled, HandledBy

(* The same for what was delivered.                                        *)
LEMMA StillSettled ==
  ASSUME NativePortInv, UNCHANGED <<posted, delivered>>,
         \A c \in Calls : state'[c] = "pending" => c \in pending
  PROVE  DeliveredIsSettled'
<1>1. \A c \in Calls : c \in pending => state[c] = "pending"
  BY DEF NativePortInv, WaitsOnOpenPort
<1> QED BY <1>1 DEF NativePortInv, DeliveredIsSettled, DeliveredTo

(* A timeout gives up one call.                                            *)
LEMMA TimeOutKeepsInv ==
  ASSUME NativePortInv, NEW c \in Calls, TimeOut(c)
  PROVE  NativePortInv'
<1>1. /\ Settle({c} \cap pending, "timedOut")
      /\ pending' = pending \ {c} /\ timers' = timers \ {c}
      /\ UNCHANGED <<port, opened, host, closed, posted, handled, written,
                     delivered>>
  BY DEF TimeOut
<1>2. /\ state' \in [Calls -> CallState]
      /\ \A d \in Calls : state'[d] = "new" => state[d] = "new"
      /\ \A d \in Calls : state'[d] = "pending" <=> d \in pending \ {c}
      /\ \A d \in Calls : state'[d] = "answered" => state[d] = "answered"
  <2> DEFINE cs == {c} \cap pending
  <2>1. /\ cs \in SUBSET pending /\ pending \ cs = pending \ {c}
        /\ "timedOut" \in CallState \ {"new", "pending"}
        /\ state' = [d \in Calls |-> IF d \in cs THEN "timedOut" ELSE state[d]]
    BY <1>1 DEF CallState, Settle
  <2> HIDE DEF cs
  <2> QED BY <2>1, SettleFacts
<1>3. AnsweredWasHandled'
  BY <1>1, <1>2, StillHandled
<1>4. WaitsOnOpenPort'
  BY <1>1, <1>2 DEF NativePortInv, WaitsOnOpenPort, Posted
<1>5. OneProcessPerPage'
  BY <1>1 DEF NativePortInv, OneProcessPerPage, Alive
<1>6. \A g \in Ports : delivered'[g] <= written[g]
  BY <1>1 DEF NativePortInv, Positions
<1>7. /\ pending' \subseteq Calls /\ timers' \subseteq Calls
      /\ delivered' \in [Ports -> Nat] /\ closed' \subseteq Ports
      /\ port' \notin closed' /\ \A g \in closed' : g \in closed
  BY <1>1 DEF NativePortInv, TypeOK, PortsInOrder
<1>8. DeliveredIsSettled'
  BY <1>1, <1>2, StillSettled
<1> QED BY <1>1, <1>2, <1>3, <1>4, <1>5, <1>6, <1>7, <1>8, PageStepKeepsInv

(* onDisconnect rejects all of them and drops the port, whose process is   *)
(* gone.                                                                   *)
LEMMA DisconnectedKeepsInv ==
  ASSUME NativePortInv, Disconnected
  PROVE  NativePortInv'
<1>1. /\ port # 0 /\ ~Alive(port)
      /\ Settle(pending, "rejected")
      /\ timers' = timers \ pending /\ pending' = {} /\ port' = 0
      /\ UNCHANGED <<opened, host, closed, posted, handled, written, delivered>>
  BY DEF Disconnected
<1>2. /\ state' \in [Calls -> CallState]
      /\ \A d \in Calls : state'[d] = "new" => state[d] = "new"
      /\ \A d \in Calls : state'[d] # "pending"
      /\ \A d \in Calls : state'[d] = "answered" => state[d] = "answered"
  BY <1>1, SettleFacts DEF CallState, Settle
<1>3. AnsweredWasHandled'
  BY <1>1, <1>2, StillHandled
<1>4. WaitsOnOpenPort'
  BY <1>1, <1>2 DEF NativePortInv, WaitsOnOpenPort
<1>5. OneProcessPerPage'
  BY <1>1 DEF NativePortInv, OneProcessPerPage, Alive
<1>6. \A g \in Ports : delivered'[g] <= written[g]
  BY <1>1 DEF NativePortInv, Positions
<1>a. /\ timers \subseteq Calls /\ delivered \in [Ports -> Nat]
      /\ closed \subseteq Ports
  BY DEF NativePortInv, TypeOK
<1>7. /\ pending' \subseteq Calls /\ timers' \subseteq Calls
      /\ delivered' \in [Ports -> Nat] /\ closed' \subseteq Ports
      /\ port' \notin closed' /\ \A g \in closed' : g \in closed
  BY <1>1, <1>a
<1>8. DeliveredIsSettled'
  BY <1>1, <1>2, StillSettled
<1> QED BY <1>1, <1>2, <1>3, <1>4, <1>5, <1>6, <1>7, <1>8, PageStepKeepsInv

(* A page that is closed leaves its calls and its port.                    *)
LEMMA ClosePageKeepsInv ==
  ASSUME NativePortInv, ClosePage
  PROVE  NativePortInv'
<1>1. /\ Settle(pending, "gone")
      /\ timers' = {} /\ pending' = {} /\ port' = 0
      /\ closed' = closed \cup ({port} \ {0})
      /\ UNCHANGED <<opened, host, posted, handled, written, delivered>>
  BY DEF ClosePage
<1>2. /\ state' \in [Calls -> CallState]
      /\ \A d \in Calls : state'[d] = "new" => state[d] = "new"
      /\ \A d \in Calls : state'[d] # "pending"
      /\ \A d \in Calls : state'[d] = "answered" => state[d] = "answered"
  BY <1>1, SettleFacts DEF CallState, Settle
<1>3. AnsweredWasHandled'
  BY <1>1, <1>2, StillHandled
<1>4. WaitsOnOpenPort'
  BY <1>1, <1>2 DEF WaitsOnOpenPort
<1>5. OneProcessPerPage'
  BY <1>1 DEF NativePortInv, OneProcessPerPage, Alive
<1>6. \A g \in Ports : delivered'[g] <= written[g]
  BY <1>1 DEF NativePortInv, Positions
<1>7. /\ pending' \subseteq Calls /\ timers' \subseteq Calls
      /\ delivered' \in [Ports -> Nat] /\ closed' \subseteq Ports
      /\ port' \notin closed' /\ \A g \in closed' : g \in closed \/ g = port
  BY <1>1 DEF NativePortInv, TypeOK
<1>8. DeliveredIsSettled'
  BY <1>1, <1>2, StillSettled
<1> QED BY <1>1, <1>2, <1>3, <1>4, <1>5, <1>6, <1>7, <1>8, PageStepKeepsInv

(* A response is for the request at its position, which was handled.       *)
LEMMA DeliverKeepsInv ==
  ASSUME NativePortInv, NEW g \in Ports, Deliver(g)
  PROVE  NativePortInv'
<1> DEFINE n == delivered[g] + 1
           c == posted[g][n]
           ids == IdOfResponse(c)
<1>1. /\ port = g /\ delivered[g] < written[g]
      /\ Settle(ids \cap pending, "answered")
      /\ pending' = pending \ ids
      /\ timers' = timers \ (ids \cap pending)
      /\ delivered' = [delivered EXCEPT ![g] = @ + 1]
      /\ UNCHANGED <<port, opened, host, closed, posted, handled, written>>
  BY DEF Deliver
<1>2. n \in DOMAIN posted[g] /\ n <= handled[g]
  <2>1. /\ delivered[g] \in Nat /\ written[g] \in Nat /\ handled[g] \in Nat
    BY DEF NativePortInv, TypeOK
  <2>2. written[g] <= handled[g] /\ handled[g] <= Len(posted[g])
    BY DEF NativePortInv, Positions
  <2>3. Len(posted[g]) \in Nat /\ DOMAIN posted[g] = 1 .. Len(posted[g])
    BY LogFacts DEF NativePortInv
  <2> QED BY <1>1, <2>1, <2>2, <2>3
<1>3. HandledBy(c, g)
  BY <1>2 DEF HandledBy
<1>a. ids = {c} \ Malformed
  BY DEF IdOfResponse
<1>b. pending = timers
  BY DEF NativePortInv, WaitsOnOpenPort
<1> HIDE DEF c, ids
<1>4. /\ state' \in [Calls -> CallState]
      /\ \A d \in Calls : state'[d] = "new" => state[d] = "new"
      /\ \A d \in Calls : state'[d] = "pending" <=> d \in pending \ ids
      /\ \A d \in Calls : state'[d] = "answered" =>
           state[d] = "answered" \/ d = c
  <2> DEFINE cs == ids \cap pending
  <2>1. /\ cs \in SUBSET pending /\ pending \ cs = pending \ ids
        /\ \A d \in cs : d = c
        /\ "answered" \in CallState \ {"new", "pending"}
        /\ state' = [d \in Calls |-> IF d \in cs THEN "answered" ELSE state[d]]
    BY <1>1, <1>a DEF CallState, Settle
  <2> HIDE DEF cs
  <2> QED BY <2>1, SettleFacts
<1>5. AnsweredWasHandled'
  <2>1. \A d \in Calls : state'[d] = "answered" => WasHandled(d)
    BY <1>3, <1>4 DEF NativePortInv, AnsweredWasHandled, WasHandled
  <2> QED BY <1>1, <2>1 DEF AnsweredWasHandled, WasHandled, HandledBy
<1>6. WaitsOnOpenPort'
  <2>1. pending = timers /\ \A d \in pending : Posted(d, g)
    BY <1>1 DEF NativePortInv, WaitsOnOpenPort
  <2>2. pending' = timers'
    BY <1>1, <1>b
  <2>3. \A d \in pending' : port' # 0 /\ Posted(d, port)'
    BY <1>1, <2>1 DEF Posted
  <2> QED BY <1>1, <1>4, <2>2, <2>3 DEF WaitsOnOpenPort
<1>7. OneProcessPerPage'
  BY <1>1 DEF NativePortInv, OneProcessPerPage, Alive
<1>8. delivered' \in [Ports -> Nat]
  BY <1>1 DEF NativePortInv, TypeOK
<1>9. \A h \in Ports : delivered'[h] <= written[h]
  <2>1. /\ delivered \in [Ports -> Nat] /\ written \in [Ports -> Nat]
        /\ \A h \in Ports : delivered[h] <= written[h]
    BY DEF NativePortInv, TypeOK, Positions
  <2> QED BY <1>1, <2>1
<1>10. /\ pending' \subseteq Calls /\ timers' \subseteq Calls
       /\ closed' \subseteq Ports
       /\ port' \notin closed' /\ \A h \in closed' : h \in closed
  BY <1>1 DEF NativePortInv, TypeOK, PortsInOrder
<1>11. DeliveredIsSettled'
  <2> SUFFICES ASSUME NEW d \in Calls \ Malformed, DeliveredTo(d)'
               PROVE  state'[d] # "pending"
    BY DEF DeliveredIsSettled
  <2>1. PICK h \in Ports : \E i \in 1 .. delivered'[h] : posted[h][i] = d
    BY <1>1 DEF DeliveredTo
  <2>2. PICK i \in 1 .. delivered'[h] : posted[h][i] = d
    BY <2>1
  <2>3. CASE i \in 1 .. delivered[h]
    <3>1. state[d] # "pending"
      BY <2>2, <2>3 DEF NativePortInv, DeliveredIsSettled, DeliveredTo
    <3> QED BY <1>4, <3>1 DEF NativePortInv, WaitsOnOpenPort
  <2>4. CASE i \notin 1 .. delivered[h]
    <3>1. h = g /\ i = n
      <4>1. delivered \in [Ports -> Nat]
        BY DEF NativePortInv, TypeOK
      <4> QED BY <1>1, <2>2, <2>4, <4>1
    <3>2. d = c
      BY <2>2, <3>1 DEF c
    <3> QED BY <1>4, <1>a, <3>2
  <2> QED BY <2>3, <2>4
<1> QED
  BY <1>1, <1>4, <1>5, <1>6, <1>7, <1>8, <1>9, <1>10, <1>11, PageStepKeepsInv

----------------------------------------------------------------------------
(* A step of the process of one port moves its place in the loop and its   *)
(* counters forward, within the order of the positions.                    *)
LEMMA HostStepKeepsInv ==
  ASSUME NativePortInv, NEW g \in Ports, NEW place \in HostState,
         Alive(g), host' = [host EXCEPT ![g] = place],
         UNCHANGED <<pageVars, opened, closed, posted, delivered>>,
         handled' \in [Ports -> Nat], written' \in [Ports -> Nat],
         \A h \in Ports : handled[h] <= handled'[h],
         Positions'
  PROVE  NativePortInv'
<1>1. /\ UNCHANGED <<state, pending, timers, port>>
      /\ UNCHANGED <<opened, closed, posted, delivered>>
  BY DEF pageVars
<1>2. TypeOK'
  BY <1>1 DEF NativePortInv, TypeOK
<1>3. host \in [Ports -> HostState]
      /\ \A h \in Ports : host'[h] # "down" => host[h] # "down"
  BY DEF NativePortInv, TypeOK, Alive
<1>4. PortsInOrder'
  BY <1>1, <1>3 DEF NativePortInv, PortsInOrder, Alive
<1>5. PostedOnce'
  BY <1>1 DEF NativePortInv, PostedOnce
<1>6. WaitsOnOpenPort'
  BY <1>1 DEF NativePortInv, WaitsOnOpenPort, Posted
<1>7. AnsweredWasHandled'
  <2> SUFFICES ASSUME NEW c \in Calls, state'[c] = "answered"
               PROVE  WasHandled(c)'
    BY DEF AnsweredWasHandled
  <2>1. WasHandled(c)
    BY <1>1 DEF NativePortInv, AnsweredWasHandled
  <2>2. \A h \in Ports :
          /\ handled[h] <= handled'[h]
          /\ \A i \in DOMAIN posted[h] :
               i \in DOMAIN posted'[h] /\ posted'[h][i] = posted[h][i]
    BY <1>1
  <2>3. TypeOK
    BY DEF NativePortInv
  <2> QED BY <1>2, <2>1, <2>2, <2>3, HandledStays
<1>8. OneProcessPerPage'
  BY <1>1, <1>3 DEF NativePortInv, OneProcessPerPage, Alive
<1>9. DeliveredIsSettled'
  BY <1>1 DEF NativePortInv, DeliveredIsSettled, DeliveredTo
<1> QED BY <1>2, <1>4, <1>5, <1>6, <1>7, <1>8, <1>9 DEF NativePortInv

(* Where the process stands after a step that only moves it.               *)
LEMMA MovePositions ==
  ASSUME NativePortInv, NEW g \in Ports, NEW place \in {"down", "handling"},
         host' = [host EXCEPT ![g] = place],
         UNCHANGED <<posted, handled, written, delivered>>,
         place = "handling" => handled[g] < Len(posted[g])
  PROVE  Positions'
<1>1. host \in [Ports -> HostState]
  BY DEF NativePortInv, TypeOK
<1>2. \A h \in Ports : host'[h] = IF h = g THEN place ELSE host[h]
  BY <1>1
<1> QED BY <1>2 DEF NativePortInv, Positions

(* The next request, or the end of the input.                              *)
LEMMA ReadKeepsInv ==
  ASSUME NativePortInv, NEW g \in Ports, Read(g)
  PROVE  NativePortInv'
<1>1. /\ host[g] = "reading"
      /\ UNCHANGED <<pageVars, opened, closed, posted, handled, written,
                     delivered>>
  BY DEF Read
<1>2. PICK place \in {"down", "handling"} :
        /\ host' = [host EXCEPT ![g] = place]
        /\ place = "handling" => handled[g] < Len(posted[g])
  BY DEF Read, Goto
<1>3. Positions'
  BY <1>1, <1>2, MovePositions
<1>4. /\ handled' \in [Ports -> Nat] /\ written' \in [Ports -> Nat]
      /\ \A h \in Ports : handled[h] <= handled'[h]
  BY <1>1 DEF NativePortInv, TypeOK
<1>5. Alive(g) /\ place \in HostState
  BY <1>1 DEF Alive, HostState
<1> QED BY <1>1, <1>2, <1>3, <1>4, <1>5, HostStepKeepsInv

(* The process ends.                                                       *)
LEMMA CrashKeepsInv ==
  ASSUME NativePortInv, NEW g \in Ports, Crash(g)
  PROVE  NativePortInv'
<1>1. /\ Alive(g) /\ host' = [host EXCEPT ![g] = "down"]
      /\ UNCHANGED <<pageVars, opened, closed, posted, handled, written,
                     delivered>>
  BY DEF Crash, Goto
<1>2. Positions'
  BY <1>1, MovePositions
<1>3. /\ handled' \in [Ports -> Nat] /\ written' \in [Ports -> Nat]
      /\ \A h \in Ports : handled[h] <= handled'[h]
  BY <1>1 DEF NativePortInv, TypeOK
<1> QED BY <1>1, <1>2, <1>3, HostStepKeepsInv DEF HostState

(* A request was handled; its response is still to be written.             *)
LEMMA HandleKeepsInv ==
  ASSUME NativePortInv, NEW g \in Ports, Handle(g)
  PROVE  NativePortInv'
<1>1. /\ host[g] = "handling" /\ host' = [host EXCEPT ![g] = "writing"]
      /\ handled' = [handled EXCEPT ![g] = @ + 1]
      /\ UNCHANGED <<pageVars, opened, closed, posted, written, delivered>>
  BY DEF Handle, Goto
<1>2. /\ handled \in [Ports -> Nat] /\ written \in [Ports -> Nat]
      /\ host \in [Ports -> HostState]
  BY DEF NativePortInv, TypeOK
<1>3. /\ \A h \in Ports : handled'[h] = IF h = g THEN handled[h] + 1
                                                 ELSE handled[h]
      /\ \A h \in Ports : host'[h] = IF h = g THEN "writing" ELSE host[h]
      /\ handled' \in [Ports -> Nat]
  BY <1>1, <1>2
<1>4. \A h \in Ports : handled[h] <= handled'[h]
  BY <1>2, <1>3
<1>5. Positions'
  <2> SUFFICES ASSUME NEW h \in Ports
               PROVE  /\ delivered[h] <= written[h]
                      /\ written[h] <= handled'[h]
                      /\ host'[h] = "writing" => written[h] < handled'[h]
                      /\ handled'[h] <= Len(posted[h])
                      /\ host'[h] = "handling" => handled'[h] < Len(posted[h])
    BY <1>1 DEF Positions
  <2> QED BY <1>1, <1>3, CounterFacts
<1> QED
  BY <1>1, <1>2, <1>3, <1>4, <1>5, HostStepKeepsInv DEF Alive, HostState

(* A response was written, or the output is broken.                        *)
LEMMA WriteKeepsInv ==
  ASSUME NativePortInv, NEW g \in Ports, Write(g)
  PROVE  NativePortInv'
<1>1. /\ host[g] = "writing"
      /\ UNCHANGED <<pageVars, opened, closed, posted, handled, delivered>>
  BY DEF Write
<1>2. /\ handled \in [Ports -> Nat] /\ written \in [Ports -> Nat]
      /\ host \in [Ports -> HostState]
      /\ \A h \in Ports : handled[h] <= handled'[h]
  BY <1>1 DEF NativePortInv, TypeOK
<1>3. CASE g \in closed /\ host' = [host EXCEPT ![g] = "down"]
           /\ UNCHANGED written
  <2>1. Positions'
    BY <1>1, <1>3, MovePositions
  <2> QED BY <1>1, <1>2, <1>3, <2>1, HostStepKeepsInv DEF Alive, HostState
<1>4. CASE /\ written' = [written EXCEPT ![g] = @ + 1]
           /\ host' = [host EXCEPT ![g] = "reading"]
  <2>1. /\ \A h \in Ports : written'[h] = IF h = g THEN written[h] + 1
                                                  ELSE written[h]
        /\ \A h \in Ports : host'[h] = IF h = g THEN "reading" ELSE host[h]
        /\ written' \in [Ports -> Nat]
    BY <1>2, <1>4
  <2>2. Positions'
    <3> SUFFICES ASSUME NEW h \in Ports
                 PROVE  /\ delivered[h] <= written'[h]
                        /\ written'[h] <= handled[h]
                        /\ host'[h] = "writing" => written'[h] < handled[h]
                        /\ handled[h] <= Len(posted[h])
                        /\ host'[h] = "handling" => handled[h] < Len(posted[h])
      BY <1>1 DEF Positions
    <3>1. CASE h = g
      BY <1>1, <2>1, <3>1, CounterFacts
    <3>2. CASE h # g
      BY <2>1, <3>2, CounterFacts
    <3> QED BY <3>1, <3>2
  <2> QED
    BY <1>1, <1>2, <1>4, <2>1, <2>2, HostStepKeepsInv DEF Alive, HostState
<1> QED BY <1>3, <1>4 DEF Write, Goto

----------------------------------------------------------------------------
(* Every step keeps the invariant, the steps that change nothing included. *)
LEMMA NextKeepsInv == NativePortInv /\ [Next]_vars => NativePortInv'
<1> SUFFICES ASSUME NativePortInv, [Next]_vars PROVE NativePortInv'
  OBVIOUS
<1>1. CASE \E c \in Calls : Call(c) \/ TimeOut(c)
  BY <1>1, CallKeepsInv, TimeOutKeepsInv
<1>2. CASE \E g \in Ports :
             Deliver(g) \/ Read(g) \/ Handle(g) \/ Write(g) \/ Crash(g)
  BY <1>2, DeliverKeepsInv, ReadKeepsInv, HandleKeepsInv, WriteKeepsInv,
     CrashKeepsInv
<1>3. CASE Disconnected
  BY <1>3, DisconnectedKeepsInv
<1>4. CASE ClosePage
  BY <1>4, ClosePageKeepsInv
<1>5. CASE UNCHANGED vars
  <2>1. /\ UNCHANGED <<state, pending, timers, port, opened, host, closed>>
        /\ UNCHANGED <<posted, handled, written, delivered>>
    BY <1>5 DEF vars, pageVars
  <2>2. TypeOK' /\ Positions'
    BY <2>1 DEF NativePortInv, TypeOK, Positions
  <2>3. PortsInOrder' /\ OneProcessPerPage'
    BY <2>1 DEF NativePortInv, PortsInOrder, OneProcessPerPage, Alive
  <2>4. PostedOnce'
    BY <2>1 DEF NativePortInv, PostedOnce
  <2>5. WaitsOnOpenPort'
    BY <2>1 DEF NativePortInv, WaitsOnOpenPort, Posted
  <2>6. AnsweredWasHandled'
    BY <2>1 DEF NativePortInv, AnsweredWasHandled, WasHandled, HandledBy
  <2>7. DeliveredIsSettled'
    BY <2>1 DEF NativePortInv, DeliveredIsSettled, DeliveredTo
  <2> QED BY <2>2, <2>3, <2>4, <2>5, <2>6, <2>7 DEF NativePortInv
<1> QED BY <1>1, <1>2, <1>3, <1>4, <1>5 DEF Next

(* The inductive invariant of the channel holds in every state.            *)
THEOREM NativePortInvariance == Spec => []NativePortInv
<1> QED BY InvInit, NextKeepsInv, PTL DEF Spec

(* bridgeCall keeps an entry exactly as long as its timer, and only for    *)
(* requests on the port that is open.                                      *)
THEOREM WaitsOnOpenPortAlways == Spec => []WaitsOnOpenPort
<1>1. NativePortInv => WaitsOnOpenPort
  BY DEF NativePortInv
<1> QED BY <1>1, NativePortInvariance, PTL

(* receiveNativeMessage resolves a call only after the companion handled   *)
(* that call.                                                              *)
THEOREM AnsweredWasHandledAlways == Spec => []AnsweredWasHandled
<1>1. NativePortInv => AnsweredWasHandled
  BY DEF NativePortInv
<1> QED BY <1>1, NativePortInvariance, PTL

(* No response that the page received is lost to its call.                 *)
THEOREM DeliveredIsSettledAlways == Spec => []DeliveredIsSettled
<1>1. NativePortInv => DeliveredIsSettled
  BY DEF NativePortInv
<1> QED BY <1>1, NativePortInvariance, PTL

(* The loop of main handles no call twice, whatever happens to ports.      *)
THEOREM HandledOnceAlways == Spec => []HandledOnce
<1>1. NativePortInv => HandledOnce
  BY DEF NativePortInv, PostedOnce, HandledOnce
<1> QED BY <1>1, NativePortInvariance, PTL

(* getNativePort starts no second process beside the one of the page.      *)
THEOREM OneProcessPerPageAlways == Spec => []OneProcessPerPage
<1>1. NativePortInv => OneProcessPerPage
  BY DEF NativePortInv
<1> QED BY <1>1, NativePortInvariance, PTL
=============================================================================
