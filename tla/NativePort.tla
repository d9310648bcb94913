----------------------------- MODULE NativePort -----------------------------
(***************************************************************************)
(* The native messaging channel between one page of the extension (the     *)
(* popup or the background page) and the companion processes it starts:    *)
(* bridgeCall, getNativePort and receiveNativeMessage of                   *)
(* packages/extension-chromium/src/browser.ts (the Firefox adapter has the *)
(* same three), and the loop of crates/companion/src/main.rs.              *)
(*                                                                         *)
(* The page opens a port with its first call and another after it has seen *)
(* the port disconnect; the browser starts a process per port.  A page     *)
(* that is closed leaves its process behind with a closed input and a      *)
(* broken output.  Ports are numbered, and the number also stands for the  *)
(* process.                                                                *)
(***************************************************************************)
EXTENDS Naturals, Sequences

CONSTANTS
  Calls,      \* ids of bridgeCall requests (crypto.randomUUID)
  Malformed,  \* those that Request::parse refuses: a string above its limit
  MaxPorts    \* bound of the ports that are ever opened

ASSUME MaxPortsAssumption == MaxPorts \in Nat

VARIABLES
  state,      \* what the caller's promise of each call is
  pending,    \* the map pending: the calls that wait for an answer
  timers,     \* the calls whose timeout is armed
  port,       \* nativePort, NoPort for undefined
  opened,     \* how many ports were opened so far
  host,       \* per port: where its process stands in the loop of main
  closed,     \* the ports whose page is gone
  posted,     \* per port: the requests posted on it, in order
  handled,    \* per port: how many of them handle_request has finished
  written,    \* per port: how many responses were written
  delivered   \* per port: how many responses the page has received

pageVars == <<state, pending, timers, port>>
vars == <<pageVars, opened, host, closed, posted, handled, written, delivered>>

NoPort == 0
Ports == 1 .. MaxPorts
CallState == {"new", "pending", "answered", "rejected", "timedOut", "gone"}
HostState == {"down", "reading", "handling", "writing"}

Alive(g) == host[g] # "down"

----------------------------------------------------------------------------
Init ==
  /\ state = [c \in Calls |-> "new"]
  /\ pending = {}
  /\ timers = {}
  /\ port = NoPort
  /\ opened = 0
  /\ host = [g \in Ports |-> "down"]
  /\ closed = {}
  /\ posted = [g \in Ports |-> <<>>]
  /\ handled = [g \in Ports |-> 0]
  /\ written = [g \in Ports |-> 0]
  /\ delivered = [g \in Ports |-> 0]

----------------------------------------------------------------------------
(* The page.                                                               *)

\* The promises of the calls cs end as outcome, the others stay.
Settle(cs, outcome) ==
  state' = [c \in Calls |-> IF c \in cs THEN outcome ELSE state[c]]

OpenPort ==
  /\ opened < MaxPorts
  /\ opened' = opened + 1
  /\ port' = opened + 1
  /\ \E started \in {"reading", "down"} :
       host' = [host EXCEPT ![opened + 1] = started]

(***************************************************************************)
(* getNativePort: the open port, or a new one.  connectNative returns a    *)
(* port even when the browser cannot start the host.                       *)
(***************************************************************************)
GetNativePort ==
  \/ port # NoPort /\ UNCHANGED <<port, opened, host>>
  \/ port = NoPort /\ OpenPort

\* Mutant: no timeout.
CallUntimed(c) ==
  /\ state[c] = "new"
  /\ GetNativePort
  /\ Settle({c}, "pending")
  /\ pending' = pending \cup {c}
  /\ posted' = [posted EXCEPT ![port'] = Append(@, c)]
  /\ UNCHANGED <<timers, closed, handled, written, delivered>>

\* bridgeCall, up to the await of its promise.
Call(c) ==
  /\ state[c] = "new"
  /\ GetNativePort
  /\ Settle({c}, "pending")
  /\ pending' = pending \cup {c}
  /\ timers' = timers \cup {c}
  /\ posted' = [posted EXCEPT ![port'] = Append(@, c)]
  /\ UNCHANGED <<closed, handled, written, delivered>>

\* Mutant: a response that comes late in the life of its process is taken
\* for one nobody waits for.
DeliverFirstOnly(g) ==
  /\ port = g /\ delivered[g] < written[g]
  /\ LET c == posted[g][delivered[g] + 1]
     IN IF delivered[g] = 0
          THEN /\ Settle({c} \cap pending, "answered")
               /\ pending' = pending \ {c}
               /\ timers' = timers \ {c}
          ELSE UNCHANGED <<state, pending, timers>>
  /\ delivered' = [delivered EXCEPT ![g] = @ + 1]
  /\ UNCHANGED <<port, opened, host, closed, posted, handled, written>>

(***************************************************************************)
(* The id a response carries: the request's, but main answers a request it *)
(* cannot parse under an id of its own, which no call has.                 *)
(***************************************************************************)
IdOfResponse(c) == {c} \ Malformed

\* receiveNativeMessage for a response: one nobody waits for is dropped.
Deliver(g) ==
  /\ port = g /\ delivered[g] < written[g]
  /\ LET ids == IdOfResponse(posted[g][delivered[g] + 1])
     IN /\ Settle(ids \cap pending, "answered")
        /\ pending' = pending \ ids
        /\ timers' = timers \ (ids \cap pending)
  /\ delivered' = [delivered EXCEPT ![g] = @ + 1]
  /\ UNCHANGED <<port, opened, host, closed, posted, handled, written>>

\* Mutants: a timeout sends the request again; a timeout gives up the port.
TimeOutRetries(c) ==
  /\ c \in timers
  /\ \/ /\ posted' = [posted EXCEPT ![port] = Append(@, c)]
        /\ Len(posted[port]) < MaxPorts + 1
        /\ UNCHANGED <<state, pending, timers>>
     \/ /\ Settle({c} \cap pending, "timedOut")
        /\ pending' = pending \ {c}
        /\ timers' = timers \ {c}
        /\ UNCHANGED posted
  /\ UNCHANGED <<port, opened, host, closed, handled, written, delivered>>

TimeOutReconnects(c) ==
  /\ c \in timers
  /\ Settle(pending, "timedOut")
  /\ pending' = {}
  /\ timers' = {}
  /\ port' = NoPort
  /\ UNCHANGED <<opened, host, closed, posted, handled, written, delivered>>

\* The ten seconds of a call are over.
TimeOut(c) ==
  /\ c \in timers
  /\ Settle({c} \cap pending, "timedOut")
  /\ pending' = pending \ {c}
  /\ timers' = timers \ {c}
  /\ UNCHANGED <<port, opened, host, closed, posted, handled, written,
                 delivered>>

\* Mutant: the calls are rejected but stay in the map.
DisconnectedKeeps ==
  /\ port # NoPort /\ ~Alive(port)
  /\ Settle(pending, "rejected")
  /\ timers' = timers \ pending
  /\ port' = NoPort
  /\ UNCHANGED <<pending, opened, host, closed, posted, handled, written,
                 delivered>>

\* onDisconnect: the process is gone, with whatever was not delivered.
Disconnected ==
  /\ port # NoPort /\ ~Alive(port)
  /\ Settle(pending, "rejected")
  /\ timers' = timers \ pending
  /\ pending' = {}
  /\ port' = NoPort
  /\ UNCHANGED <<opened, host, closed, posted, handled, written, delivered>>

\* External: the popup is closed or the page reloaded, and its port with it.
ClosePage ==
  /\ Settle(pending, "gone")
  /\ pending' = {}
  /\ timers' = {}
  /\ port' = NoPort
  /\ closed' = closed \cup ({port} \ {NoPort})
  /\ UNCHANGED <<opened, host, posted, handled, written, delivered>>

----------------------------------------------------------------------------
(* The process of port g.                                                  *)

Goto(g, place) == host' = [host EXCEPT ![g] = place]

\* Mutant: an end of the input is taken for a request that is not there yet.
ReadAgain(g) ==
  /\ host[g] = "reading" /\ handled[g] < Len(posted[g])
  /\ Goto(g, "handling")
  /\ UNCHANGED <<pageVars, opened, closed, posted, handled, written, delivered>>

(***************************************************************************)
(* read_frame: a request, if one was posted; None, when the input is       *)
(* closed and used up, and then main returns.                              *)
(***************************************************************************)
Read(g) ==
  /\ host[g] = "reading"
  /\ \/ handled[g] < Len(posted[g]) /\ Goto(g, "handling")
     \/ handled[g] = Len(posted[g]) /\ g \in closed /\ Goto(g, "down")
  /\ UNCHANGED <<pageVars, opened, closed, posted, handled, written, delivered>>

\* handle_request returned: every effect of the request has happened.
Handle(g) ==
  /\ host[g] = "handling"
  /\ handled' = [handled EXCEPT ![g] = @ + 1]
  /\ Goto(g, "writing")
  /\ UNCHANGED <<pageVars, opened, closed, posted, written, delivered>>

\* write_frame; if it fails, because nobody reads any more, main returns.
Write(g) ==
  /\ host[g] = "writing"
  /\ \/ /\ g \notin closed
        /\ written' = [written EXCEPT ![g] = @ + 1]
        /\ Goto(g, "reading")
     \/ g \in closed /\ Goto(g, "down") /\ UNCHANGED written
  /\ UNCHANGED <<pageVars, opened, closed, posted, handled, delivered>>

(***************************************************************************)
(* The process ends anywhere: it is killed, or main returns an error (a    *)
(* response larger than a frame may be, a frame that cannot be read).      *)
(***************************************************************************)
Crash(g) ==
  /\ Alive(g)
  /\ Goto(g, "down")
  /\ UNCHANGED <<pageVars, opened, closed, posted, handled, written, delivered>>

Next ==
  \/ \E c \in Calls : Call(c) \/ TimeOut(c)
  \/ \E g \in Ports : Deliver(g) \/ Read(g) \/ Handle(g) \/ Write(g) \/ Crash(g)
  \/ Disconnected
  \/ ClosePage

Spec == Init /\ [][Next]_vars

(***************************************************************************)
(* Timers fire; the browser reports a port that is gone; a process reads   *)
(* and writes when it can.  handle_request need not return: fetch_to_file  *)
(* sets no timeout, so a media server may keep it waiting for ever.        *)
(***************************************************************************)
Fairness ==
  /\ \A c \in Calls : WF_vars(TimeOut(c))
  /\ \A g \in Ports : WF_vars(Read(g)) /\ WF_vars(Write(g))
  /\ WF_vars(Disconnected)

FairSpec == Spec /\ Fairness

----------------------------------------------------------------------------
(* The type invariant of the page, the ports and the processes.            *)
TypeOK ==
  /\ state \in [Calls -> CallState]
  /\ pending \subseteq Calls /\ timers \subseteq Calls
  /\ port \in {NoPort} \cup Ports
  /\ opened \in 0 .. MaxPorts
  /\ host \in [Ports -> HostState]
  /\ closed \subseteq Ports
  /\ posted \in [Ports -> Seq(Calls)]
  /\ handled \in [Ports -> Nat]
  /\ written \in [Ports -> Nat]
  /\ delivered \in [Ports -> Nat]

Posted(c, g) == \E i \in DOMAIN posted[g] : posted[g][i] = c

HandledBy(c, g) ==
  \E i \in DOMAIN posted[g] : i <= handled[g] /\ posted[g][i] = c

WasHandled(c) == \E g \in Ports : HandledBy(c, g)

(***************************************************************************)
(* A call waits exactly as long as its timeout is armed, and only on the   *)
(* port that is open now: no path (answer, timeout, disconnect, reload)    *)
(* leaves an entry in the map that nothing would ever take out.            *)
(***************************************************************************)
WaitsOnOpenPort ==
  /\ pending = timers
  /\ \A c \in Calls : state[c] = "pending" <=> c \in pending
  /\ \A c \in pending : port # NoPort /\ Posted(c, port)

(***************************************************************************)
(* A call that was answered was handled by a process of the companion: a   *)
(* late answer is never taken for the answer to another call.              *)
(***************************************************************************)
AnsweredWasHandled ==
  \A c \in Calls : state[c] = "answered" => WasHandled(c)

(***************************************************************************)
(* No call is handled twice, by one process or by two, however many ports  *)
(* were lost and reopened: the channel never repeats a request by itself.  *)
(***************************************************************************)
HandledOnce ==
  \A g, h \in Ports : \A i \in DOMAIN posted[g], j \in DOMAIN posted[h] :
    i <= handled[g] /\ j <= handled[h] /\ posted[g][i] = posted[h][j] =>
      g = h /\ i = j

(***************************************************************************)
(* A process that is alive serves the page that is open, or was left       *)
(* behind by one that was closed: a page never has two processes at work,  *)
(* so its calls take effect in the order it made them.                     *)
(***************************************************************************)
OneProcessPerPage == \A g \in Ports : Alive(g) => g = port \/ g \in closed

(***************************************************************************)
(* A response that reached the page has settled its call, unless that call *)
(* was settled before or the companion could not parse it: no answer is    *)
(* lost on the way from the port to its promise.                           *)
(***************************************************************************)
DeliveredTo(c) == \E g \in Ports : \E i \in 1 .. delivered[g] : posted[g][i] = c

DeliveredIsSettled ==
  \A c \in Calls \ Malformed : DeliveredTo(c) => state[c] # "pending"

(***************************************************************************)
(* docs/bridge-protocol.md: "Responses have the same request id".  Then a  *)
(* delivered response would settle its call whatever the request was.      *)
(***************************************************************************)
EveryResponseHasItsId ==
  \A c \in Calls : DeliveredTo(c) => state[c] # "pending"

(***************************************************************************)
(* The inductive invariant: ports are used up in order; a call is posted   *)
(* once and only when it leaves "new"; and the four positions on a port    *)
(* follow each other, one request apart at most where the process works.   *)
(***************************************************************************)
PortsInOrder ==
  /\ port <= opened
  /\ \A g \in Ports :
       g > opened => ~Alive(g) /\ g \notin closed /\ posted[g] = <<>>
  /\ port \notin closed

PostedOnce ==
  /\ \A g \in Ports : \A i \in DOMAIN posted[g] : state[posted[g][i]] # "new"
  /\ \A g, h \in Ports : \A i \in DOMAIN posted[g], j \in DOMAIN posted[h] :
       posted[g][i] = posted[h][j] => g = h /\ i = j

Positions ==
  \A g \in Ports :
    /\ delivered[g] <= written[g]
    /\ written[g] <= handled[g]
    /\ host[g] = "writing" => written[g] < handled[g]
    /\ handled[g] <= Len(posted[g])
    /\ host[g] = "handling" => handled[g] < Len(posted[g])

NativePortInv ==
  /\ TypeOK
  /\ PortsInOrder
  /\ PostedOnce
  /\ Positions
  /\ WaitsOnOpenPort
  /\ AnsweredWasHandled
  /\ DeliveredIsSettled
  /\ OneProcessPerPage

(***************************************************************************)
(* Every call is settled at last: answered, rejected, timed out, or gone   *)
(* with its page.                                                          *)
(***************************************************************************)
CallsSettle == \A c \in Calls : state[c] = "pending" ~> state[c] # "pending"

(***************************************************************************)
(* The process that a closed page leaves behind ends, or is in its last    *)
(* request and that never returns: it does not work off its queue, and two *)
(* processes share the trust store only for a while.                       *)
(***************************************************************************)
OrphansExit ==
  \A g \in Ports :
    g \in closed ~> [](~Alive(g)) \/ [](host[g] = "handling")
=============================================================================
