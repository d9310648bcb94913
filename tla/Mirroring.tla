----------------------------- MODULE Mirroring -----------------------------
(***************************************************************************)
(* Tab mirroring: the click handler of the background page                 *)
(* (packages/extension-chromium/src/background.ts) with each of its        *)
(* awaits, mirror.negotiate of the companion, and the SDK's signaller      *)
(* (BrowserSignaller, crates/fcast-client/src/upstream.rs).                *)
(*                                                                         *)
(* Every click runs the handler once, and the runs interleave at their     *)
(* awaits, while activeMirror and the event listeners are shared.  A click *)
(* also names its capture, its peer connection and its mirror session.     *)
(* The handler never looks at what a response says, so a response is only  *)
(* the click it belongs to.                                                *)
(***************************************************************************)
EXTENDS Sequences

CONSTANTS
  Clicks,    \* clicks on the toolbar button
  NoClick,   \* undefined
  Receivers  \* the trusted receivers the handler may choose from

ASSUME NoClickAssumption == NoClick \notin Clicks

VARIABLES
  step,        \* where the handler of each click stands
  target,      \* the receiver it has chosen
  active,      \* activeMirror: the click whose peer it is
  remover,     \* removeMirrorEvents: the click whose listener it removes
  listeners,   \* eventListeners: the clicks that are subscribed
  capturing,   \* the clicks whose peer is open and whose capture runs
  offering,    \* the peer whose offer() each handler awaits
  remote,      \* the answer each peer was given
  requests,    \* native port, page to companion
  output,      \* native port, companion to page
  responding,  \* the request that is handled but not yet answered
  devices,     \* receivers with an open handle
  mirrors,     \* sessions with a signaller
  ready,       \* sessions whose signaller has its offer sink
  offers       \* offers that reached a receiver and wait for its answer

peerVars == <<active, remover, listeners, capturing>>
pageVars == <<step, target, peerVars, offering, remote>>
hostVars == <<responding, devices, mirrors, ready, offers>>
vars == <<pageVars, requests, output, hostVars>>

----------------------------------------------------------------------------
Calling == {"connecting", "starting", "sending"}

Offering == {"describing", "gathering"}   \* the awaits of offer()

Step == Calling \cup Offering \cup {"idle", "picking", "done", "failed"}

\* peer is the one whose description an offer carries.
Request == [phase: Calling, session: Clicks, peer: Clicks \cup {NoClick}]

\* What a receiver got: the session it came in and the peer it describes.
Offer == [session: Clicks, peer: Clicks, receiver: Receivers]
NoAnswer == [session |-> NoClick]

Message == [kind: {"response"}, session: Clicks]
           \cup [kind: {"answer"}, offer: Offer]

Init ==
  /\ step = [c \in Clicks |-> "idle"]
  /\ target \in [Clicks -> Receivers]
  /\ active = NoClick /\ remover = NoClick
  /\ listeners = {} /\ capturing = {}
  /\ offering = [c \in Clicks |-> NoClick]
  /\ remote = [c \in Clicks |-> NoAnswer]
  /\ requests = <<>> /\ output = <<>>
  /\ responding = NoClick
  /\ devices = {} /\ mirrors = {} /\ ready = {} /\ offers = {}

----------------------------------------------------------------------------
(* The page.                                                               *)

Goto(c, place) == step' = [step EXCEPT ![c] = place]

Post(phase, c, peer) ==
  requests' = Append(requests, [phase |-> phase, session |-> c, peer |-> peer])

(***************************************************************************)
(* From the click to the request for the capture: discovery, the detector, *)
(* a pause, and the choice of a receiver, if there is one.                 *)
(***************************************************************************)
Click(c) ==
  /\ step[c] = "idle"
  /\ \/ Goto(c, "failed") /\ UNCHANGED target
     \/ /\ Goto(c, "picking")
        /\ \E r \in Receivers : target' = [target EXCEPT ![c] = r]
  /\ UNCHANGED <<peerVars, offering, remote, requests, output, hostVars>>

CaptureRefused(c) ==
  /\ step[c] = "picking"
  /\ Goto(c, "failed")
  /\ UNCHANGED <<target, peerVars, offering, remote, requests, output, hostVars>>

\* Mutants: the previous peer is left open; its listener is left subscribed.
SwitchKeepingPeer(c) ==
  /\ capturing' = capturing \cup {c}
  /\ listeners' = (listeners \ {remover}) \cup {c}
  /\ active' = c /\ remover' = c

SwitchKeepingListener(c) ==
  /\ capturing' = (capturing \ {active}) \cup {c}
  /\ listeners' = listeners \cup {c}
  /\ active' = c /\ remover' = c

\* The new peer takes the place of the old one, its listener too.
SwitchTo(c) ==
  /\ capturing' = (capturing \ {active}) \cup {c}
  /\ listeners' = (listeners \ {remover}) \cup {c}
  /\ active' = c /\ remover' = c

Captured(c) ==
  /\ step[c] = "picking"
  /\ SwitchTo(c)
  /\ Post("connecting", c, NoClick)
  /\ Goto(c, "connecting")
  /\ UNCHANGED <<target, offering, remote, output, hostVars>>

(***************************************************************************)
(* A response arrives: the next call of the handler that waits for it.     *)
(* After mirror.negotiate start it is the peer that is active now whose    *)
(* offer is made.  A response nobody waits for is dropped.                 *)
(***************************************************************************)
Resume(c) ==
  \/ /\ step[c] = "connecting" /\ Goto(c, "starting")
     /\ Post("starting", c, NoClick) /\ UNCHANGED offering
  \/ /\ step[c] = "starting" /\ Goto(c, "describing")
     /\ offering' = [offering EXCEPT ![c] = active] /\ UNCHANGED requests
  \/ /\ step[c] = "sending" /\ Goto(c, "done")
     /\ UNCHANGED <<offering, requests>>
  \/ /\ step[c] \notin Calling /\ UNCHANGED <<step, offering, requests>>

ReceiveResponse ==
  /\ output # <<>> /\ Head(output).kind = "response"
  /\ Resume(Head(output).session)
  /\ output' = Tail(output)
  /\ UNCHANGED <<target, peerVars, remote, hostVars>>

\* The handler's call ends in a timeout: the request is still on its way.
Reject(c) ==
  /\ step[c] \in Calling
  /\ Goto(c, "failed")
  /\ UNCHANGED <<target, peerVars, offering, remote, requests, output, hostVars>>

(***************************************************************************)
(* createOffer and setLocalDescription resolve or reject.  On a peer that  *)
(* was closed before they may reject; if it is closed while one of them is *)
(* pending, the browser drops it and the promise never settles.            *)
(***************************************************************************)
Described(c) ==
  /\ step[c] = "describing"
  /\ \/ Goto(c, "failed")
     \/ offering[c] \in capturing /\ Goto(c, "gathering")
  /\ UNCHANGED <<target, peerVars, offering, remote, requests, output, hostVars>>

\* Mutant: the end of gathering is awaited without a limit, and a closed
\* peer does not report it.
GatheredUnlimited(c) ==
  /\ step[c] = "gathering" /\ offering[c] \in capturing
  /\ Goto(c, "sending") /\ Post("sending", c, offering[c])
  /\ UNCHANGED <<target, peerVars, offering, remote, output, hostVars>>

(***************************************************************************)
(* The candidates are gathered, or five seconds are over.  A peer that was *)
(* closed meanwhile still has its local description.                       *)
(***************************************************************************)
Gathered(c) ==
  /\ step[c] = "gathering"
  /\ Goto(c, "sending") /\ Post("sending", c, offering[c])
  /\ UNCHANGED <<target, peerVars, offering, remote, output, hostVars>>

(***************************************************************************)
(* mirror.answer: the listener of its session, if it is subscribed, gives  *)
(* it to activeMirror.  A peer that is closed, or has its answer, rejects  *)
(* it.                                                                     *)
(***************************************************************************)
ReceiveAnswer ==
  /\ output # <<>> /\ Head(output).kind = "answer"
  /\ LET offer == Head(output).offer
     IN IF offer.session \in listeners /\ active \in capturing
             /\ remote[active] = NoAnswer
          THEN remote' = [remote EXCEPT ![active] = offer]
          ELSE UNCHANGED remote
  /\ output' = Tail(output)
  /\ UNCHANGED <<step, target, peerVars, offering, requests, hostVars>>

----------------------------------------------------------------------------
(* The companion and the SDK.                                              *)

\* receiver.connect opens the handle, or refuses and leaves it as it was.
Connect(c) ==
  /\ devices' \in {devices, devices \cup {target[c]}}
  /\ UNCHANGED <<mirrors, offers>>

Start(c) ==
  /\ \/ UNCHANGED mirrors
     \/ target[c] \in devices /\ mirrors' = mirrors \cup {c}
  /\ UNCHANGED <<devices, offers>>

\* Mutant: the signaller that was created last is used.
SubmitToAny(c, peer) ==
  /\ \/ UNCHANGED offers
     \/ \E s \in mirrors \cap ready :
          offers' = offers \cup
            {[session |-> c, peer |-> peer, receiver |-> target[s]]}
  /\ UNCHANGED <<devices, mirrors>>

(***************************************************************************)
(* submit_offer: refused while the signaller is missing or has no sink.    *)
(***************************************************************************)
Submit(c, peer) ==
  /\ \/ c \notin mirrors \cap ready /\ UNCHANGED offers
     \/ /\ c \in mirrors \cap ready
        /\ offers' = offers \cup
             {[session |-> c, peer |-> peer, receiver |-> target[c]]}
  /\ UNCHANGED <<devices, mirrors>>

(***************************************************************************)
(* A request is handled.  An offer longer than a string may be does not    *)
(* get that far: it is refused under an id that no call has.               *)
(***************************************************************************)
Handle ==
  /\ requests # <<>> /\ responding = NoClick
  /\ LET q == Head(requests)
     IN \/ q.phase = "connecting" /\ Connect(q.session) /\ responding' = q.session
        \/ q.phase = "starting" /\ Start(q.session) /\ responding' = q.session
        \/ q.phase = "sending" /\ Submit(q.session, q.peer) /\ responding' = q.session
        \/ q.phase = "sending" /\ UNCHANGED <<responding, devices, mirrors, offers>>
  /\ requests' = Tail(requests)
  /\ UNCHANGED <<pageVars, output, ready>>

Respond ==
  /\ responding # NoClick
  /\ output' = Append(output, [kind |-> "response", session |-> responding])
  /\ responding' = NoClick
  /\ UNCHANGED <<pageVars, requests, devices, mirrors, ready, offers>>

\* The SDK hands over the sink; nobody listens to mirror.offerReady.
SetOfferSink(c) ==
  /\ c \in mirrors \ ready
  /\ ready' = ready \cup {c}
  /\ UNCHANGED <<pageVars, requests, output, responding, devices, mirrors, offers>>

\* on_answer_received, on a thread of the SDK.
Answer(offer) ==
  /\ offer \in offers
  /\ offers' = offers \ {offer}
  /\ output' = Append(output, [kind |-> "answer", offer |-> offer])
  /\ UNCHANGED <<pageVars, requests, responding, devices, mirrors, ready>>

\* The process ends and the port disconnects: every call is rejected.
Crash ==
  /\ step' = [c \in Clicks |-> IF step[c] \in Calling THEN "failed" ELSE step[c]]
  /\ requests' = <<>> /\ output' = <<>>
  /\ responding' = NoClick
  /\ devices' = {} /\ mirrors' = {} /\ ready' = {} /\ offers' = {}
  /\ UNCHANGED <<target, peerVars, offering, remote>>

Next ==
  \/ \E c \in Clicks :
       \/ Click(c) \/ CaptureRefused(c) \/ Captured(c)
       \/ Reject(c) \/ Described(c) \/ Gathered(c) \/ SetOfferSink(c)
  \/ ReceiveResponse \/ ReceiveAnswer
  \/ Handle \/ Respond \/ Crash
  \/ \E offer \in offers : Answer(offer)

Spec == Init /\ [][Next]_vars

(***************************************************************************)
(* The browser answers the request for a capture and settles what an open  *)
(* peer is asked for; a call times out after ten seconds; gathering is cut *)
(* off after five.  A closed peer is not promised to settle anything.      *)
(***************************************************************************)
Fairness ==
  \A c \in Clicks :
    /\ WF_vars(CaptureRefused(c) \/ Captured(c))
    /\ WF_vars(Reject(c))
    /\ WF_vars(offering[c] \in capturing /\ Described(c))
    /\ WF_vars(Gathered(c))

FairSpec == Spec /\ Fairness

----------------------------------------------------------------------------
(* The type invariant of the page, the port and the companion.             *)
TypeOK ==
  /\ step \in [Clicks -> Step]
  /\ target \in [Clicks -> Receivers]
  /\ {active, remover} \subseteq Clicks \cup {NoClick}
  /\ listeners \subseteq Clicks /\ capturing \subseteq Clicks
  /\ offering \in [Clicks -> Clicks \cup {NoClick}]
  /\ remote \in [Clicks -> Offer \cup {NoAnswer}]
  /\ requests \in Seq(Request)
  /\ output \in Seq(Message)
  /\ responding \in Clicks \cup {NoClick}
  /\ devices \subseteq Receivers
  /\ mirrors \subseteq Clicks /\ ready \subseteq mirrors
  /\ offers \subseteq Offer

(***************************************************************************)
(* At most one tab is captured, the one activeMirror stands for: no way    *)
(* through overlapping clicks leaves an older capture running that nothing *)
(* can stop any more.                                                      *)
(***************************************************************************)
OneCapture == capturing \subseteq {active}

(***************************************************************************)
(* The answer a peer is given answers a description of that very peer,     *)
(* although a handler that was overtaken makes its offer on the peer that  *)
(* replaced its own, and its answer arrives while that one is active.      *)
(***************************************************************************)
Answered(p) == remote[p] # NoAnswer

AnswerFitsOffer == \A p \in Clicks : Answered(p) => remote[p].peer = p

(***************************************************************************)
(* A tab is mirrored to the receiver that was chosen for it and to no      *)
(* other.                                                                  *)
(***************************************************************************)
MirroredToTarget ==
  \A p \in Clicks : Answered(p) => remote[p].receiver = target[p]

(***************************************************************************)
(* The inductive invariant.  A session exists once its click has switched  *)
(* to its own peer, and from then on its receiver is fixed and it never    *)
(* becomes active again.  So whatever is on its way for the session that   *)
(* is active was made while it was active, that is on its own peer; an     *)
(* overtaken handler's offer travels under a session that nobody listens   *)
(* to.                                                                     *)
(***************************************************************************)
Begun(c) == step[c] \notin {"idle", "picking"}

OwnPeer(session, peer) == session = active => peer = session

OfferOK(o) ==
  /\ Begun(o.session)
  /\ o.receiver = target[o.session]
  /\ OwnPeer(o.session, o.peer)

RequestOK(q) ==
  /\ Begun(q.session)
  /\ q.phase = "sending" => q.peer \in Clicks /\ OwnPeer(q.session, q.peer)

InFlight ==
  /\ \A i \in DOMAIN requests : RequestOK(requests[i])
  /\ \A o \in offers : OfferOK(o)
  /\ \A i \in DOMAIN output :
       output[i].kind = "answer" => OfferOK(output[i].offer)

Handlers ==
  \A c \in Clicks :
    /\ step[c] \in Calling \cup Offering => active \in Clicks
    /\ step[c] \in Offering =>
         offering[c] \in Clicks /\ OwnPeer(c, offering[c])

OnlyActiveListens ==
  /\ active \in Clicks => Begun(active)
  /\ remover = active
  /\ listeners \subseteq {active}

AnsweredHasBegun == \A p \in Clicks : Answered(p) => Begun(p)

MirroringInv ==
  /\ TypeOK
  /\ OneCapture
  /\ OnlyActiveListens
  /\ InFlight
  /\ Handlers
  /\ AnsweredHasBegun
  /\ AnswerFitsOffer
  /\ MirroredToTarget

(***************************************************************************)
(* Every handler comes to its end, also when the companion dies or never   *)
(* answers, unless it loses the peer it describes to a newer click in the  *)
(* middle of it; gathering survives that too.                              *)
(***************************************************************************)
Stranded(c) == step[c] = "describing" /\ offering[c] \notin capturing

HandlersEnd ==
  \A c \in Clicks :
    step[c] # "idle" ~> step[c] \in {"done", "failed"} \/ Stranded(c)
=============================================================================
