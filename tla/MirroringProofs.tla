-------------------------- MODULE MirroringProofs --------------------------
(***************************************************************************)
(* Proofs about tab mirroring, for any clicks and receivers: whatever the  *)
(* overlap of the handlers, one tab is captured and its peer is given only *)
(* the answer to its own description, from the receiver chosen for it.     *)
(***************************************************************************)
EXTENDS Mirroring, Naturals, SequenceTheorems, TLAPS

USE NoClickAssumption

----------------------------------------------------------------------------
(* What is left of a queue when its head is taken.                         *)
LEMMA TakenFacts ==
  ASSUME NEW S, NEW s \in Seq(S), s # <<>>
  PROVE  /\ Head(s) \in S /\ Tail(s) \in Seq(S)
         /\ 1 \in DOMAIN s /\ Head(s) = s[1]
         /\ \A i \in DOMAIN Tail(s) : i + 1 \in DOMAIN s /\ Tail(s)[i] = s[i + 1]
<1>1. Len(s) \in Nat \ {0} /\ DOMAIN s = 1 .. Len(s) /\ s[1] \in S
  BY EmptySeq, LenProperties, ElementOfSeq
<1>2. /\ Tail(s) \in Seq(S) /\ Len(Tail(s)) = Len(s) - 1
      /\ \A i \in 1 .. Len(Tail(s)) : Tail(s)[i] = s[i + 1]
  BY HeadTailProperties
<1>3. DOMAIN Tail(s) = 1 .. (Len(s) - 1)
  BY <1>2, LenProperties
<1>4. \A i \in 1 .. (Len(s) - 1) : i + 1 \in 1 .. Len(s)
  BY <1>1
<1>5. Head(s) = s[1]
  BY HeadTailProperties
<1> QED BY <1>1, <1>2, <1>3, <1>4, <1>5

(* What a queue holds when one more is posted.                             *)
LEMMA PostedFacts ==
  ASSUME NEW S, NEW s \in Seq(S), NEW e \in S
  PROVE  /\ Append(s, e) \in Seq(S)
         /\ \A i \in DOMAIN Append(s, e) :
              \/ i \in DOMAIN s /\ Append(s, e)[i] = s[i]
              \/ Append(s, e)[i] = e
<1>1. /\ Append(s, e) \in Seq(S) /\ Len(Append(s, e)) = Len(s) + 1
      /\ \A i \in 1 .. Len(s) : Append(s, e)[i] = s[i]
      /\ Append(s, e)[Len(s) + 1] = e
  BY AppendProperties
<1>2. /\ Len(s) \in Nat /\ DOMAIN s = 1 .. Len(s)
      /\ DOMAIN Append(s, e) = 1 .. (Len(s) + 1)
  BY <1>1, LenProperties
<1>3. \A i \in 1 .. (Len(s) + 1) : i \in 1 .. Len(s) \/ i = Len(s) + 1
  BY <1>2
<1> QED BY <1>1, <1>2, <1>3

----------------------------------------------------------------------------
(* What never changes about a session that has begun: that it has begun,   *)
(* its receiver, and that it does not become active again.                 *)
Kept ==
  \A c \in Clicks :
    Begun(c) => Begun(c)' /\ target'[c] = target[c] /\ (c = active' => c = active)

LEMMA KeptByNext ==
  ASSUME TypeOK, [Next]_vars
  PROVE  Kept
<1> USE DEF Kept, Begun, Goto, Calling
<1>1. CASE UNCHANGED <<step, target, active>>
  BY <1>1
<1>2. ASSUME NEW c \in Clicks, Click(c) PROVE Kept
  BY <1>2 DEF Click, TypeOK, peerVars
<1>3. ASSUME NEW c \in Clicks, CaptureRefused(c) PROVE Kept
  BY <1>3 DEF CaptureRefused, TypeOK, peerVars
<1>4. ASSUME NEW c \in Clicks, Captured(c) PROVE Kept
  BY <1>4 DEF Captured, SwitchTo, TypeOK
<1>5. ASSUME NEW c \in Clicks, Reject(c) PROVE Kept
  BY <1>5 DEF Reject, TypeOK, peerVars
<1>6. ASSUME NEW c \in Clicks, Described(c) \/ Gathered(c) PROVE Kept
  BY <1>6 DEF Described, Gathered, TypeOK, peerVars
<1>7. CASE ReceiveResponse
  <2>1. UNCHANGED <<target, active>>
    BY <1>7 DEF ReceiveResponse, peerVars
  <2>2. \A c \in Clicks : Begun(c) => Begun(c)'
    BY <1>7 DEF ReceiveResponse, Resume, TypeOK
  <2> QED BY <2>1, <2>2
<1>8. CASE Crash
  BY <1>8 DEF Crash, TypeOK, peerVars
<1>9. CASE ReceiveAnswer \/ Handle \/ Respond
  BY <1>1, <1>9 DEF ReceiveAnswer, Handle, Respond, pageVars, peerVars
<1>10. ASSUME NEW c \in Clicks, SetOfferSink(c) PROVE Kept
  BY <1>1, <1>10 DEF SetOfferSink, pageVars, peerVars
<1>11. ASSUME NEW o \in offers, Answer(o) PROVE Kept
  BY <1>1, <1>11 DEF Answer, pageVars, peerVars
<1>12. CASE UNCHANGED vars
  BY <1>1, <1>12 DEF vars, pageVars, peerVars
<1> QED
  BY <1>2, <1>3, <1>4, <1>5, <1>6, <1>7, <1>8, <1>9, <1>10, <1>11, <1>12
     DEF Next

(* So what is fit to be on its way stays so.                               *)
LEMMA OfferKept ==
  ASSUME Kept, NEW o \in Offer, OfferOK(o)
  PROVE  OfferOK(o)'
BY DEF Kept, OfferOK, OwnPeer, Offer

LEMMA RequestKept ==
  ASSUME Kept, NEW q \in Request, RequestOK(q)
  PROVE  RequestOK(q)'
BY DEF Kept, RequestOK, OwnPeer, Request

----------------------------------------------------------------------------
(* The initial state.                                                      *)
LEMMA InvInit == Init => MirroringInv
<1> SUFFICES ASSUME Init PROVE MirroringInv
  OBVIOUS
<1> USE DEF Init
<1>1. <<>> \in Seq(Request) /\ <<>> \in Seq(Message) /\ DOMAIN <<>> = {}
  BY EmptySeq
<1>2. TypeOK
  BY <1>1 DEF TypeOK, Step
<1>3. OneCapture /\ OnlyActiveListens /\ InFlight
  BY <1>1 DEF OneCapture, OnlyActiveListens, InFlight
<1>4. Handlers /\ AnsweredHasBegun /\ AnswerFitsOffer /\ MirroredToTarget
  BY DEF Handlers, AnsweredHasBegun, AnswerFitsOffer, MirroredToTarget,
         Answered, Calling, Offering
<1> QED BY <1>2, <1>3, <1>4 DEF MirroringInv

----------------------------------------------------------------------------
(* The two queues keep their type and what was fit to be in them.          *)
RequestsOK ==
  /\ requests \in Seq(Request)
  /\ \A i \in DOMAIN requests : RequestOK(requests[i])

AnswerOK(m) == m.kind = "answer" => OfferOK(m.offer)

OutputOK ==
  /\ output \in Seq(Message)
  /\ \A i \in DOMAIN output : AnswerOK(output[i])

LEMMA AnswerKept ==
  ASSUME Kept, NEW m \in Message, AnswerOK(m)
  PROVE  AnswerOK(m)'
<1> SUFFICES ASSUME m.kind = "answer" PROVE OfferOK(m.offer)'
  BY DEF AnswerOK
<1>1. m.offer \in Offer /\ OfferOK(m.offer)
  BY DEF Message, AnswerOK
<1> QED BY <1>1, OfferKept

\* A queue of requests each of which is fit after the step.
LEMMA RequestsFit ==
  ASSUME requests' \in Seq(Request),
         \A i \in DOMAIN requests' :
           \E q \in Request : requests'[i] = q /\ RequestOK(q)'
  PROVE  RequestsOK'
<1> SUFFICES ASSUME NEW i \in DOMAIN requests'
             PROVE  RequestOK(requests[i])'
  BY DEF RequestsOK
<1>1. PICK q \in Request : requests'[i] = q /\ RequestOK(q)'
  OBVIOUS
<1> QED BY <1>1 DEF RequestOK, Begun, OwnPeer

LEMMA OutputFits ==
  ASSUME output' \in Seq(Message),
         \A i \in DOMAIN output' :
           \E m \in Message : output'[i] = m /\ AnswerOK(m)'
  PROVE  OutputOK'
<1> SUFFICES ASSUME NEW i \in DOMAIN output'
             PROVE  AnswerOK(output[i])'
  BY DEF OutputOK
<1>1. PICK m \in Message : output'[i] = m /\ AnswerOK(m)'
  OBVIOUS
<1> QED BY <1>1 DEF AnswerOK, OfferOK, Begun, OwnPeer

LEMMA OldRequests ==
  ASSUME RequestsOK, Kept
  PROVE  /\ requests \in Seq(Request)
         /\ \A i \in DOMAIN requests :
              /\ requests[i] \in Request /\ RequestOK(requests[i])
              /\ \E q \in Request : requests[i] = q /\ RequestOK(q)'
<1> SUFFICES ASSUME NEW i \in DOMAIN requests
             PROVE  /\ requests[i] \in Request /\ RequestOK(requests[i])
                    /\ \E q \in Request : requests[i] = q /\ RequestOK(q)'
  BY DEF RequestsOK
<1>1. requests[i] \in Request /\ RequestOK(requests[i])
  BY LenProperties, ElementOfSeq DEF RequestsOK
<1>2. PICK q \in Request : requests[i] = q
  BY <1>1
<1>3. RequestOK(q)
  BY <1>1, <1>2
<1> QED BY <1>1, <1>2, <1>3, RequestKept

LEMMA OldOutput ==
  ASSUME OutputOK, Kept
  PROVE  /\ output \in Seq(Message)
         /\ \A i \in DOMAIN output :
              /\ output[i] \in Message /\ AnswerOK(output[i])
              /\ \E m \in Message : output[i] = m /\ AnswerOK(m)'
<1> SUFFICES ASSUME NEW i \in DOMAIN output
             PROVE  /\ output[i] \in Message /\ AnswerOK(output[i])
                    /\ \E m \in Message : output[i] = m /\ AnswerOK(m)'
  BY DEF OutputOK
<1>1. output[i] \in Message /\ AnswerOK(output[i])
  BY LenProperties, ElementOfSeq DEF OutputOK
<1>2. PICK m \in Message : output[i] = m
  BY <1>1
<1>3. AnswerOK(m)
  BY <1>1, <1>2
<1> QED BY <1>1, <1>2, <1>3, AnswerKept

(* Each queue stays, gives its head away, or takes one more.               *)
LEMMA SameRequests ==
  ASSUME RequestsOK, Kept, UNCHANGED requests
  PROVE  RequestsOK'
BY OldRequests, RequestsFit

LEMMA TakenRequest ==
  ASSUME RequestsOK, Kept, requests # <<>>, requests' = Tail(requests)
  PROVE  RequestsOK' /\ Head(requests) \in Request /\ RequestOK(Head(requests))
<1>1. /\ Head(requests) \in Request /\ Tail(requests) \in Seq(Request)
      /\ 1 \in DOMAIN requests /\ Head(requests) = requests[1]
      /\ \A i \in DOMAIN Tail(requests) :
           i + 1 \in DOMAIN requests /\ Tail(requests)[i] = requests[i + 1]
  BY OldRequests, TakenFacts
<1>2. \A i \in DOMAIN requests' :
        \E q \in Request : requests'[i] = q /\ RequestOK(q)'
  BY <1>1, OldRequests
<1>3. RequestsOK'
  BY <1>1, <1>2, RequestsFit
<1> QED BY <1>1, <1>3, OldRequests

LEMMA PostedRequest ==
  ASSUME RequestsOK, Kept, NEW q \in Request, RequestOK(q)',
         requests' = Append(requests, q)
  PROVE  RequestsOK'
<1>1. /\ requests' \in Seq(Request)
      /\ \A i \in DOMAIN requests' :
           \/ i \in DOMAIN requests /\ requests'[i] = requests[i]
           \/ requests'[i] = q
  BY OldRequests, PostedFacts
<1>2. \A i \in DOMAIN requests' :
        \E x \in Request : requests'[i] = x /\ RequestOK(x)'
  BY <1>1, OldRequests
<1> QED BY <1>1, <1>2, RequestsFit

LEMMA SameOutput ==
  ASSUME OutputOK, Kept, UNCHANGED output
  PROVE  OutputOK'
BY OldOutput, OutputFits

LEMMA TakenOutput ==
  ASSUME OutputOK, Kept, output # <<>>, output' = Tail(output)
  PROVE  OutputOK' /\ Head(output) \in Message /\ AnswerOK(Head(output))
<1>1. /\ Head(output) \in Message /\ Tail(output) \in Seq(Message)
      /\ 1 \in DOMAIN output /\ Head(output) = output[1]
      /\ \A i \in DOMAIN Tail(output) :
           i + 1 \in DOMAIN output /\ Tail(output)[i] = output[i + 1]
  BY OldOutput, TakenFacts
<1>2. \A i \in DOMAIN output' :
        \E m \in Message : output'[i] = m /\ AnswerOK(m)'
  BY <1>1, OldOutput
<1>3. OutputOK'
  BY <1>1, <1>2, OutputFits
<1> QED BY <1>1, <1>3, OldOutput

LEMMA PostedOutput ==
  ASSUME OutputOK, Kept, NEW m \in Message, AnswerOK(m)',
         output' = Append(output, m)
  PROVE  OutputOK'
<1>1. /\ output' \in Seq(Message)
      /\ \A i \in DOMAIN output' :
           \/ i \in DOMAIN output /\ output'[i] = output[i]
           \/ output'[i] = m
  BY OldOutput, PostedFacts
<1>2. \A i \in DOMAIN output' :
        \E x \in Message : output'[i] = x /\ AnswerOK(x)'
  BY <1>1, OldOutput
<1> QED BY <1>1, <1>2, OutputFits

----------------------------------------------------------------------------
(* The rest of the invariant: the page, and what the companion holds.      *)
PageTyped ==
  /\ step \in [Clicks -> Step]
  /\ target \in [Clicks -> Receivers]
  /\ {active, remover} \subseteq Clicks \cup {NoClick}
  /\ listeners \subseteq Clicks /\ capturing \subseteq Clicks
  /\ offering \in [Clicks -> Clicks \cup {NoClick}]
  /\ remote \in [Clicks -> Offer \cup {NoAnswer}]

PageOK ==
  /\ PageTyped /\ OneCapture /\ OnlyActiveListens /\ Handlers
  /\ AnsweredHasBegun /\ AnswerFitsOffer /\ MirroredToTarget

HostOK ==
  /\ responding \in Clicks \cup {NoClick}
  /\ devices \subseteq Receivers
  /\ mirrors \subseteq Clicks /\ ready \subseteq mirrors
  /\ offers \subseteq Offer
  /\ \A o \in offers : OfferOK(o)

LEMMA Parts == MirroringInv <=> PageOK /\ HostOK /\ RequestsOK /\ OutputOK
BY DEF MirroringInv, PageOK, HostOK, RequestsOK, OutputOK, AnswerOK, TypeOK,
       PageTyped, InFlight

LEMMA SamePage ==
  ASSUME PageOK, UNCHANGED pageVars
  PROVE  PageOK'
BY DEF PageOK, PageTyped, OneCapture, OnlyActiveListens, Handlers,
       AnsweredHasBegun, AnswerFitsOffer, MirroredToTarget, Answered, Begun,
       OwnPeer, pageVars, peerVars

LEMMA SameHost ==
  ASSUME HostOK, Kept, UNCHANGED hostVars
  PROVE  HostOK'
<1>1. ASSUME NEW o \in offers PROVE OfferOK(o)'
  BY <1>1, OfferKept DEF HostOK
<1> QED BY <1>1 DEF HostOK, hostVars, OfferOK, Begun, OwnPeer

\* A step of a handler that leaves activeMirror and its answer alone.
LEMMA HandlerStep ==
  ASSUME PageOK, NEW c \in Clicks, NEW place \in Step,
         step' = [step EXCEPT ![c] = place],
         Begun(c) \/ step[c] = "picking" \/ step[c] = "idle",
         Begun(c) => place \notin {"idle", "picking"},
         place \in Calling \cup Offering => active \in Clicks,
         place \in Offering => offering'[c] \in Clicks /\ OwnPeer(c, offering'[c]),
         offering' \in [Clicks -> Clicks \cup {NoClick}],
         \A d \in Clicks \ {c} : offering'[d] = offering[d],
         target' \in [Clicks -> Receivers],
         \A d \in Clicks : Begun(d) => target'[d] = target[d],
         UNCHANGED <<peerVars, remote>>
  PROVE  PageOK'
<1> USE DEF peerVars
<1>1. PageTyped'
  BY DEF PageOK, PageTyped
<1>2. OneCapture' /\ AnswerFitsOffer'
  BY DEF PageOK, OneCapture, AnswerFitsOffer, Answered
<1>3. \A d \in Clicks : Begun(d) => Begun(d)'
  BY DEF PageOK, PageTyped, Begun
<1>4. OnlyActiveListens' /\ AnsweredHasBegun' /\ MirroredToTarget'
  BY <1>3 DEF PageOK, OnlyActiveListens, AnsweredHasBegun, MirroredToTarget,
              Answered, Begun
<1>5. Handlers'
  BY DEF PageOK, PageTyped, Handlers, OwnPeer
<1> QED BY <1>1, <1>2, <1>4, <1>5 DEF PageOK

----------------------------------------------------------------------------
(* The page's steps.                                                       *)
LEMMA ClickStep ==
  ASSUME PageOK, NEW c \in Clicks, Click(c)
  PROVE  PageOK'
<1>1. PICK place \in {"failed", "picking"} :
        step' = [step EXCEPT ![c] = place]
  BY DEF Click, Goto
<1>2. /\ step[c] = "idle" /\ place \in Step
      /\ place \notin Calling \cup Offering
  BY DEF Click, Step, Calling, Offering
<1>3. /\ target' \in [Clicks -> Receivers]
      /\ \A d \in Clicks : Begun(d) => target'[d] = target[d]
  BY <1>2 DEF Click, PageOK, PageTyped, Begun
<1>4. offering' = offering /\ UNCHANGED <<peerVars, remote>>
  BY DEF Click
<1>5. offering' \in [Clicks -> Clicks \cup {NoClick}]
  BY <1>4 DEF PageOK, PageTyped
<1>6. ~Begun(c)
  BY <1>2 DEF Begun
<1> QED BY <1>1, <1>2, <1>3, <1>4, <1>5, <1>6, HandlerStep

LEMMA FailStep ==
  ASSUME PageOK, NEW c \in Clicks, step' = [step EXCEPT ![c] = "failed"],
         UNCHANGED <<target, offering, peerVars, remote>>
  PROVE  PageOK'
<1>1. /\ "failed" \in Step /\ "failed" \notin Calling \cup Offering
      /\ "failed" \notin {"idle", "picking"}
  BY DEF Step, Calling, Offering
<1>2. /\ offering' \in [Clicks -> Clicks \cup {NoClick}]
      /\ target' \in [Clicks -> Receivers]
  BY DEF PageOK, PageTyped
<1>3. Begun(c) \/ step[c] = "picking" \/ step[c] = "idle"
  BY DEF Begun
<1> QED BY <1>1, <1>2, <1>3, HandlerStep

LEMMA CapturedStep ==
  ASSUME PageOK, NEW c \in Clicks, Captured(c)
  PROVE  PageOK'
<1> USE DEF Captured, SwitchTo, Goto
<1>1. PageTyped'
  BY DEF PageOK, PageTyped, Step, Calling
<1>2. OneCapture' /\ OnlyActiveListens'
  BY DEF PageOK, PageTyped, OneCapture, OnlyActiveListens, Begun
<1>3. Handlers'
  <2>1. ASSUME NEW d \in Clicks, step'[d] \in Offering
        PROVE  /\ d # c /\ step[d] \in Offering /\ offering'[d] = offering[d]
    BY <2>1 DEF PageOK, PageTyped, Offering
  <2>2. ASSUME NEW d \in Clicks, step'[d] \in Offering
        PROVE  offering'[d] \in Clicks /\ (d = active' => offering'[d] = d)
    BY <2>1, <2>2 DEF PageOK, Handlers
  <2> QED BY <2>2 DEF Handlers, OwnPeer
<1>4. AnsweredHasBegun' /\ AnswerFitsOffer' /\ MirroredToTarget'
  BY DEF PageOK, PageTyped, AnsweredHasBegun, AnswerFitsOffer, MirroredToTarget,
         Answered, Begun
<1> QED BY <1>1, <1>2, <1>3, <1>4 DEF PageOK

LEMMA ResumeStep ==
  ASSUME PageOK, NEW c \in Clicks, Resume(c), UNCHANGED <<target, peerVars, remote>>
  PROVE  PageOK'
<1> USE DEF PageOK, PageTyped
<1>1. CASE step[c] = "connecting" \/ step[c] = "sending"
  <2>1. PICK place \in {"starting", "done"} :
          step' = [step EXCEPT ![c] = place] /\ UNCHANGED offering
    BY <1>1 DEF Resume, Goto, Calling
  <2>2. /\ place \in Step /\ place \notin {"idle", "picking"} \cup Offering
        /\ Begun(c) /\ active \in Clicks
    BY <1>1 DEF Step, Calling, Offering, Begun, Handlers
  <2> QED BY <2>1, <2>2, HandlerStep
<1>2. CASE step[c] = "starting"
  <2>1. /\ step' = [step EXCEPT ![c] = "describing"]
        /\ offering' = [offering EXCEPT ![c] = active]
    BY <1>2 DEF Resume, Goto, Calling
  <2>2. /\ "describing" \in Step /\ "describing" \notin {"idle", "picking"}
        /\ Begun(c) /\ active \in Clicks
    BY <1>2 DEF Step, Calling, Offering, Begun, Handlers
  <2>3. /\ offering' \in [Clicks -> Clicks \cup {NoClick}]
        /\ offering'[c] = active
        /\ \A d \in Clicks \ {c} : offering'[d] = offering[d]
    BY <2>1, <2>2
  <2>4. OwnPeer(c, offering'[c])
    BY <2>3 DEF OwnPeer
  <2> QED BY <2>1, <2>2, <2>3, <2>4, HandlerStep
<1>3. CASE step[c] \notin Calling
  <2>1. UNCHANGED <<step, offering>>
    BY <1>3 DEF Resume, Calling
  <2> QED BY <2>1, SamePage DEF pageVars
<1> QED BY <1>1, <1>2, <1>3 DEF Calling

LEMMA DescribedStep ==
  ASSUME PageOK, NEW c \in Clicks, Described(c)
  PROVE  PageOK'
<1>1. PICK place \in {"failed", "gathering"} : step' = [step EXCEPT ![c] = place]
  BY DEF Described, Goto
<1>2. /\ place \in Step /\ place \notin {"idle", "picking"}
      /\ Begun(c) /\ active \in Clicks
      /\ offering[c] \in Clicks /\ OwnPeer(c, offering[c])
  BY DEF Described, Step, Offering, Calling, Begun, Handlers, PageOK
<1>3. UNCHANGED <<target, offering, peerVars, remote>>
  BY DEF Described
<1>4. /\ offering' \in [Clicks -> Clicks \cup {NoClick}]
      /\ target' \in [Clicks -> Receivers]
  BY <1>3 DEF PageOK, PageTyped
<1> QED BY <1>1, <1>2, <1>3, <1>4, HandlerStep

LEMMA GatheredStep ==
  ASSUME PageOK, NEW c \in Clicks, Gathered(c)
  PROVE  PageOK'
<1>1. step' = [step EXCEPT ![c] = "sending"]
  BY DEF Gathered, Goto
<1>2. /\ "sending" \in Step /\ "sending" \notin {"idle", "picking"} \cup Offering
      /\ Begun(c) /\ active \in Clicks
  BY DEF Gathered, Step, Offering, Calling, Begun, Handlers, PageOK
<1>3. UNCHANGED <<target, offering, peerVars, remote>>
  BY DEF Gathered
<1>4. /\ offering' \in [Clicks -> Clicks \cup {NoClick}]
      /\ target' \in [Clicks -> Receivers]
  BY <1>3 DEF PageOK, PageTyped
<1> QED BY <1>1, <1>2, <1>3, <1>4, HandlerStep

(* An answer that is given to the active peer is for its own session, and  *)
(* so for its own description.                                             *)
LEMMA AnswerStep ==
  ASSUME PageOK, NEW offer \in Offer, OfferOK(offer),
         offer.session \in listeners, active \in capturing,
         remote' = [remote EXCEPT ![active] = offer],
         UNCHANGED <<step, target, peerVars, offering>>
  PROVE  PageOK'
<1> USE DEF peerVars
<1>1. active \in Clicks /\ offer.session = active /\ offer.peer = active
  BY DEF PageOK, PageTyped, OnlyActiveListens, OfferOK, OwnPeer
<1>2. PageTyped'
  BY DEF PageOK, PageTyped
<1>3. OneCapture' /\ OnlyActiveListens' /\ Handlers'
  BY DEF PageOK, OneCapture, OnlyActiveListens, Handlers, OwnPeer, Begun
<1>4. ASSUME NEW p \in Clicks, Answered(p)'
      PROVE  /\ Begun(p)' /\ remote'[p].peer = p
             /\ remote'[p].receiver = target'[p]
  <2>1. CASE p = active
    <3>1. remote'[p] = offer
      BY <2>1, <1>1 DEF PageOK, PageTyped
    <3> QED BY <2>1, <3>1, <1>1 DEF OfferOK, Begun
  <2>2. CASE p # active
    <3>1. remote'[p] = remote[p]
      BY <2>2 DEF PageOK, PageTyped
    <3>2. Answered(p)
      BY <1>4, <3>1 DEF Answered
    <3> QED BY <3>1, <3>2 DEF PageOK, AnsweredHasBegun, AnswerFitsOffer,
                              MirroredToTarget, Begun
  <2> QED BY <2>1, <2>2
<1>5. AnsweredHasBegun' /\ AnswerFitsOffer' /\ MirroredToTarget'
  BY <1>4 DEF AnsweredHasBegun, AnswerFitsOffer, MirroredToTarget
<1> QED BY <1>2, <1>3, <1>5 DEF PageOK

LEMMA CrashStep ==
  ASSUME PageOK, Crash
  PROVE  PageOK'
<1> USE DEF Crash, peerVars
<1>1. step' \in [Clicks -> Step]
  BY DEF PageOK, PageTyped, Step
<1>2. PageTyped'
  BY <1>1 DEF PageOK, PageTyped
<1>3. \A d \in Clicks : /\ Begun(d) => Begun(d)'
                        /\ step'[d] = step[d] \/ step'[d] = "failed"
  BY DEF Begun, Calling
<1>4. OneCapture' /\ OnlyActiveListens' /\ AnsweredHasBegun'
      /\ AnswerFitsOffer' /\ MirroredToTarget'
  BY <1>3 DEF PageOK, PageTyped, OneCapture, OnlyActiveListens, AnsweredHasBegun,
              AnswerFitsOffer, MirroredToTarget, Answered, Begun
<1>5. Handlers'
  BY <1>3 DEF PageOK, Handlers, OwnPeer, Calling, Offering
<1> QED BY <1>2, <1>4, <1>5 DEF PageOK

----------------------------------------------------------------------------
(* The companion's steps.                                                  *)
LEMMA HandleStep ==
  ASSUME HostOK, RequestsOK, PageTyped, Kept, Handle
  PROVE  HostOK' /\ RequestsOK'
<1> DEFINE q == Head(requests)
<1>1. RequestsOK' /\ q \in Request /\ RequestOK(q)
  BY TakenRequest DEF Handle
<1>2. UNCHANGED <<step, target, active, ready>>
  BY DEF Handle, pageVars, peerVars
<1>3. q.session \in Clicks /\ target[q.session] \in Receivers
  BY <1>1 DEF Request, PageTyped
<1>4. \A o \in offers : OfferOK(o)'
  BY OfferKept DEF HostOK
<1>5. CASE UNCHANGED <<responding, devices, mirrors, offers>>
  BY <1>1, <1>2, <1>5, SameHost DEF hostVars
<1>6. CASE Connect(q.session) /\ responding' = q.session
  BY <1>1, <1>2, <1>3, <1>4, <1>6 DEF Connect, HostOK, OfferOK, Begun, OwnPeer
<1>7. CASE Start(q.session) /\ responding' = q.session
  BY <1>1, <1>2, <1>3, <1>4, <1>7 DEF Start, HostOK, OfferOK, Begun, OwnPeer
<1>8. CASE q.phase = "sending" /\ Submit(q.session, q.peer) /\ responding' = q.session
  <2>0. PICK o \in Offer : o = [session |-> q.session, peer |-> q.peer,
                               receiver |-> target[q.session]]
    BY <1>1, <1>3, <1>8 DEF Offer, RequestOK
  <2>1. offers' \in {offers, offers \cup {o}} /\ UNCHANGED <<devices, mirrors>>
    BY <1>8, <2>0 DEF Submit
  <2>2. OfferOK(o)
    BY <1>1, <1>8, <2>0 DEF OfferOK, RequestOK
  <2>3. OfferOK(o)'
    BY <2>2, OfferKept
  <2>4. \A x \in offers \cup {o} : OfferOK(x)'
    BY <1>4, <2>3
  <2>5. ASSUME NEW x \in offers' PROVE OfferOK(x)'
    BY <2>1, <2>4, <2>5 DEF OfferOK, Begun, OwnPeer
  <2> QED BY <1>1, <1>2, <1>3, <1>8, <2>1, <2>2, <2>5 DEF HostOK
<1> QED BY <1>1, <1>5, <1>6, <1>7, <1>8 DEF Handle

LEMMA RespondStep ==
  ASSUME HostOK, OutputOK, Kept, Respond
  PROVE  HostOK' /\ OutputOK'
<1>1. PICK m \in Message : m = [kind |-> "response", session |-> responding]
  BY DEF Respond, HostOK, Message
<1>2. OutputOK'
  <2>1. AnswerOK(m)'
    BY <1>1 DEF AnswerOK
  <2> QED BY <1>1, <2>1, PostedOutput DEF Respond
<1>3. UNCHANGED <<devices, mirrors, ready, offers>> /\ responding' = NoClick
  BY DEF Respond
<1>4. \A o \in offers : OfferOK(o)'
  BY OfferKept DEF HostOK
<1> QED BY <1>2, <1>3, <1>4 DEF HostOK, OfferOK, Begun, OwnPeer

LEMMA SinkStep ==
  ASSUME HostOK, Kept, NEW c \in Clicks, SetOfferSink(c)
  PROVE  HostOK'
<1>1. /\ UNCHANGED <<responding, devices, mirrors, offers>>
      /\ ready' = ready \cup {c} /\ c \in mirrors
  BY DEF SetOfferSink
<1>2. \A o \in offers : OfferOK(o)'
  BY OfferKept DEF HostOK
<1> QED BY <1>1, <1>2 DEF HostOK, OfferOK, Begun, OwnPeer

LEMMA ReceiverStep ==
  ASSUME HostOK, OutputOK, Kept, NEW offer \in offers, Answer(offer)
  PROVE  HostOK' /\ OutputOK'
<1> DEFINE m == [kind |-> "answer", offer |-> offer]
<1>1. offer \in Offer /\ OfferOK(offer)'
  BY OfferKept DEF HostOK
<1>2. m \in Message /\ AnswerOK(m)'
  BY <1>1 DEF Message, AnswerOK, OfferOK, Begun, OwnPeer
<1>3. OutputOK'
  BY <1>2, PostedOutput DEF Answer
<1>4. /\ UNCHANGED <<responding, devices, mirrors, ready>>
      /\ offers' = offers \ {offer}
  BY DEF Answer
<1>5. \A o \in offers : OfferOK(o)'
  BY OfferKept DEF HostOK
<1> QED BY <1>3, <1>4, <1>5 DEF HostOK, OfferOK, Begun, OwnPeer

LEMMA CrashEmpties ==
  ASSUME Crash
  PROVE  HostOK' /\ RequestsOK' /\ OutputOK'
<1>1. <<>> \in Seq(Request) /\ <<>> \in Seq(Message) /\ DOMAIN <<>> = {}
  BY EmptySeq
<1> QED BY <1>1 DEF Crash, HostOK, RequestsOK, OutputOK

----------------------------------------------------------------------------
(* The page's posts: a request a session makes is fit to be on its way.    *)
LEMMA PagePosts ==
  ASSUME PageOK, RequestsOK, Kept, NEW c \in Clicks, NEW phase \in Calling,
         NEW peer \in Clicks \cup {NoClick}, Post(phase, c, peer),
         Begun(c)',
         phase = "sending" => peer \in Clicks /\ OwnPeer(c, peer) /\ Begun(c)
  PROVE  RequestsOK'
<1> DEFINE q == [phase |-> phase, session |-> c, peer |-> peer]
<1>1. q \in Request
  BY DEF Request
<1>2. requests' = Append(requests, q)
  BY DEF Post
<1>3. RequestOK(q)'
  BY DEF RequestOK, OwnPeer, Kept, Begun
<1> HIDE DEF q
<1> QED BY <1>1, <1>2, <1>3, PostedRequest

----------------------------------------------------------------------------
(* Every step keeps the invariant.                                         *)
LEMMA InvStep == MirroringInv /\ [Next]_vars => MirroringInv'
<1>0. MirroringInv' <=> PageOK' /\ HostOK' /\ RequestsOK' /\ OutputOK'
  BY Parts, PTL
<1> SUFFICES ASSUME PageOK, HostOK, RequestsOK, OutputOK, [Next]_vars
             PROVE  PageOK' /\ HostOK' /\ RequestsOK' /\ OutputOK'
  BY <1>0, Parts
<1>1. TypeOK /\ PageTyped
  BY Parts DEF MirroringInv, PageOK
<1>2. Kept
  BY <1>1, KeptByNext
<1>3. ASSUME UNCHANGED hostVars PROVE HostOK'
  BY <1>2, <1>3, SameHost
<1>4. ASSUME UNCHANGED requests PROVE RequestsOK'
  BY <1>2, <1>4, SameRequests
<1>5. ASSUME UNCHANGED output PROVE OutputOK'
  BY <1>2, <1>5, SameOutput
<1>6. ASSUME UNCHANGED pageVars PROVE PageOK'
  BY <1>6, SamePage
<1>7. ASSUME NEW c \in Clicks, Click(c)
      PROVE  PageOK' /\ HostOK' /\ RequestsOK' /\ OutputOK'
  BY <1>3, <1>4, <1>5, <1>7, ClickStep DEF Click
<1>8. ASSUME NEW c \in Clicks, CaptureRefused(c) \/ Reject(c)
      PROVE  PageOK' /\ HostOK' /\ RequestsOK' /\ OutputOK'
  BY <1>3, <1>4, <1>5, <1>8, FailStep DEF CaptureRefused, Reject, Goto
<1>9. ASSUME NEW c \in Clicks, Captured(c)
      PROVE  PageOK' /\ HostOK' /\ RequestsOK' /\ OutputOK'
  <2>1. Post("connecting", c, NoClick) /\ UNCHANGED <<output, hostVars>>
    BY <1>9 DEF Captured
  <2>2. Begun(c)' /\ "connecting" \in Calling
    BY <1>1, <1>9 DEF Captured, Goto, Begun, PageTyped, Calling
  <2>3. RequestsOK'
    BY <1>2, <2>1, <2>2, PagePosts
  <2> QED BY <1>3, <1>5, <1>9, <2>1, <2>3, CapturedStep
<1>10. ASSUME NEW c \in Clicks, Described(c) \/ Gathered(c)
       PROVE  PageOK' /\ HostOK' /\ RequestsOK' /\ OutputOK'
  <2>1. UNCHANGED <<output, hostVars>> /\ step[c] \in Offering
    BY <1>10 DEF Described, Gathered, Offering
  <2>2. /\ offering[c] \in Clicks /\ OwnPeer(c, offering[c])
        /\ Begun(c) /\ Begun(c)' /\ "sending" \in Calling
    BY <1>2, <2>1 DEF PageOK, Handlers, Begun, Kept, Calling, Offering
  <2>3. CASE Described(c)
    BY <1>3, <1>4, <1>5, <2>1, <2>3, DescribedStep DEF Described
  <2>4. CASE Gathered(c)
    <3>1. RequestsOK'
      BY <1>2, <2>2, <2>4, PagePosts DEF Gathered
    <3> QED BY <1>3, <1>5, <2>1, <2>4, <3>1, GatheredStep
  <2> QED BY <1>10, <2>3, <2>4
<1>11. ASSUME NEW c \in Clicks, SetOfferSink(c)
       PROVE  PageOK' /\ HostOK' /\ RequestsOK' /\ OutputOK'
  BY <1>2, <1>4, <1>5, <1>6, <1>11, SinkStep DEF SetOfferSink
<1>12. CASE ReceiveResponse
  <2>1. OutputOK' /\ Head(output) \in Message /\ Head(output).kind = "response"
    BY <1>2, <1>12, TakenOutput DEF ReceiveResponse
  <2>2. PICK c \in Clicks : c = Head(output).session
    BY <2>1 DEF Message
  <2>3. Resume(c) /\ UNCHANGED <<target, peerVars, remote, hostVars>>
    BY <1>12, <2>2 DEF ReceiveResponse
  <2>4. PageOK'
    BY <2>2, <2>3, ResumeStep
  <2>5. RequestsOK'
    <3>1. CASE step[c] = "connecting" /\ Post("starting", c, NoClick)
      <4>1. Begun(c)' /\ "starting" \in Calling
        BY <1>2, <2>2, <3>1 DEF Kept, Begun, Calling
      <4> QED BY <1>2, <2>2, <3>1, <4>1, PagePosts
    <3>2. CASE UNCHANGED requests
      BY <1>4, <3>2
    <3> QED BY <2>3, <3>1, <3>2 DEF Resume
  <2> QED BY <1>3, <2>1, <2>3, <2>4, <2>5
<1>13. CASE ReceiveAnswer
  <2> DEFINE offer == Head(output).offer
  <2>1. /\ OutputOK' /\ Head(output) \in Message
        /\ AnswerOK(Head(output)) /\ Head(output).kind = "answer"
    BY <1>2, <1>13, TakenOutput DEF ReceiveAnswer
  <2>2. offer \in Offer /\ OfferOK(offer)
    BY <2>1 DEF Message, AnswerOK
  <2>3. UNCHANGED <<step, target, peerVars, offering, requests, hostVars>>
    BY <1>13 DEF ReceiveAnswer
  <2>4. CASE UNCHANGED remote
    BY <1>3, <1>4, <1>6, <2>1, <2>3, <2>4 DEF pageVars
  <2>5. CASE /\ offer.session \in listeners /\ active \in capturing
             /\ remote' = [remote EXCEPT ![active] = offer]
    <3>1. PICK o \in Offer : o = offer
      BY <2>2
    <3>2. OfferOK(o) /\ o.session \in listeners /\ active \in capturing
          /\ remote' = [remote EXCEPT ![active] = o]
      BY <2>2, <2>5, <3>1
    <3>3. PageOK'
      BY <2>3, <3>1, <3>2, AnswerStep
    <3> QED BY <1>3, <1>4, <2>1, <2>3, <3>3
  <2> QED BY <1>13, <2>4, <2>5 DEF ReceiveAnswer
<1>14. CASE Handle
  BY <1>1, <1>2, <1>5, <1>6, <1>14, HandleStep DEF Handle
<1>15. CASE Respond
  BY <1>2, <1>4, <1>6, <1>15, RespondStep DEF Respond
<1>16. CASE Crash
  BY <1>16, CrashStep, CrashEmpties
<1>17. ASSUME NEW offer \in offers, Answer(offer)
       PROVE  PageOK' /\ HostOK' /\ RequestsOK' /\ OutputOK'
  BY <1>2, <1>4, <1>6, <1>17, ReceiverStep DEF Answer
<1>18. CASE UNCHANGED vars
  BY <1>3, <1>4, <1>5, <1>6, <1>18 DEF vars
<1> QED
  BY <1>7, <1>8, <1>9, <1>10, <1>11, <1>12, <1>13, <1>14, <1>15, <1>16, <1>17,
     <1>18 DEF Next

----------------------------------------------------------------------------
(* The inductive invariant, type correctness included.                     *)
THEOREM MirroringInvariance == Spec => []MirroringInv
BY InvInit, InvStep, PTL DEF Spec

(***************************************************************************)
(* At most one tab is captured, and activeMirror can stop it, whatever the *)
(* overlap of the click handlers.                                          *)
(***************************************************************************)
THEOREM OneCaptureAlways == Spec => []OneCapture
<1>1. MirroringInv => OneCapture
  BY DEF MirroringInv
<1> QED BY <1>1, MirroringInvariance, PTL

(***************************************************************************)
(* A peer is given the answer to its own description and to no other.      *)
(***************************************************************************)
THEOREM AnswerFitsOfferAlways == Spec => []AnswerFitsOffer
<1>1. MirroringInv => AnswerFitsOffer
  BY DEF MirroringInv
<1> QED BY <1>1, MirroringInvariance, PTL

(***************************************************************************)
(* A tab is mirrored to the receiver chosen for it.                        *)
(***************************************************************************)
THEOREM MirroredToTargetAlways == Spec => []MirroredToTarget
<1>1. MirroringInv => MirroredToTarget
  BY DEF MirroringInv
<1> QED BY <1>1, MirroringInvariance, PTL
=============================================================================
