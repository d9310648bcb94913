----------------------------- MODULE Discovery -----------------------------
(***************************************************************************)
(* One browse of the local network for receivers, crates/discovery:       *)
(* MdnsBrowser::bind and discover with the parser of DnsPacket and         *)
(* assemble_records.  The single thread of the companion runs it while the *)
(* page waits for discover_receivers.                                      *)
(***************************************************************************)
EXTENDS DnsPacket, FiniteSets

CONSTANTS Timeout,      \* ticks of the read timeout, which is also the deadline
          MaxWork,      \* bound: ticks from the end of a recv to the next look
                        \* at the clock
          MaxPackets,   \* bound: packets that arrive during one browse
          Instances, Hosts, Ports, Addresses   \* what records can name

ASSUME DiscoveryAssumption ==
    Timeout \in Nat \ {0} /\ MaxWork \in Nat /\ MaxPackets \in Nat

Service == "_fcast._tcp.local"
Elsewhere == "elsewhere"   \* any other name a PTR record can have

VARIABLES mode,      \* what discover does
          sockets,   \* how many are bound; 1 is IPv4 and 2 is IPv6
          socket,    \* the one it reads
          elapsed,   \* ticks since the query left
          waited,    \* ticks in this recv, or spent on the packet it returned
          queue,     \* packets each socket holds unread
          found,     \* the map of discover: id to announcement
          inTime,    \* history: packets that reached each socket in time
          handled,   \* history: packets each socket gave to the parser
          announced, \* history: ids the handled packets announced
          overran    \* history: a packet taken in time kept the browse
                     \* until after the deadline

browseVars == <<mode, sockets, socket, elapsed, waited, queue, found,
                inTime, handled, announced, overran>>
vars == <<packetVars, browseVars>>

Sockets == {1, 2}
NoPackets == [s \in Sockets |-> 0]

-----------------------------------------------------------------------------
(* assemble_records *)

\* A plain record holds an address (of 4 or 16 bytes), text or something the
\* browser does not look at.
Content(type) ==
    CASE type = "ptr" -> [name : {Service, Elsewhere}, target : Instances]
      [] type = "srv" -> [name : Instances, port : Ports, target : Hosts]
      [] OTHER -> [kind : {"address"}, name : Hosts, address : Addresses]
                    \union [kind : {"text", "cut text", "ignored"}]

\* What the records the parser pushed may say.
Contents == {raw \in [DOMAIN records -> UNION {Content(t) : t \in RecordTypes}] :
               \A i \in DOMAIN records : raw[i] \in Content(records[i].type)}

OfType(type) == {i \in DOMAIN records : records[i].type = type}

\* An SRV without port and target, or a TXT whose last string is cut off.
Unassembled(raw) ==
    \/ \E i \in OfType("srv") : records[i].length < SrvPrefix
    \/ \E i \in OfType("plain") : raw[i].kind = "cut text"

Named(raw, host) ==
    {i \in OfType("plain") : raw[i].kind = "address" /\ raw[i].name = host}

\* Their order and how often each is named is data.
AddressesOf(raw, host) == {raw[i].address : i \in Named(raw, host)}

\* The SRV record the map holds for an instance: the last one pushed.
LastSrv(raw, instance) ==
    CHOOSE i \in OfType("srv") :
        /\ raw[i].name = instance
        /\ \A j \in OfType("srv") : raw[j].name = instance => j <= i

Announcement(raw, instance) ==
    LET srv == raw[LastSrv(raw, instance)]
    IN  [instance |-> instance, port |-> srv.port, host |-> srv.target,
         addresses |-> AddressesOf(raw, srv.target)]

\* Mutant: one pass over the packet, which takes an SRV only behind the PTR
\* that lists its instance.
AssembleInOnePass(raw) ==
    {a \in {Announcement(raw, n) : n \in {raw[p[1]].target : p \in
               {q \in OfType("ptr") \X OfType("srv") :
                   /\ q[1] < q[2]
                   /\ raw[q[1]].name = Service
                   /\ raw[q[1]].target = raw[q[2]].name}}} : a.addresses # {}}

Assemble(raw) ==
    LET listed == {raw[i].target : i \in {j \in OfType("ptr") : raw[j].name = Service}}
        served == {n \in listed : \E i \in OfType("srv") : raw[i].name = n}
    IN  {a \in {Announcement(raw, n) : n \in served} : a.addresses # {}}

Id(announcement) == <<announcement.instance, announcement.port>>

-----------------------------------------------------------------------------
(* bind and discover *)

BrowseInit ==
    /\ mode = "idle"
    /\ sockets = 0 /\ socket = 0 /\ elapsed = 0 /\ waited = 0
    /\ queue = NoPackets /\ inTime = NoPackets /\ handled = NoPackets
    /\ found = <<>> /\ announced = {} /\ overran = FALSE

Init == PacketInit /\ BrowseInit

\* The next call binds new sockets: nothing of the last browse is left.
Bind ==
    /\ mode \in {"idle", "failed", "found"}
    /\ \/ mode' = "failed" /\ sockets' = 0
       \/ mode' = "bound" /\ sockets' \in Sockets
    /\ socket' = 0 /\ elapsed' = 0 /\ waited' = 0
    /\ queue' = NoPackets /\ inTime' = NoPackets /\ handled' = NoPackets
    /\ found' = <<>> /\ announced' = {} /\ overran' = FALSE
    /\ UNCHANGED packetVars

Listen(s) == /\ mode' = "waiting"
             /\ socket' = s
             /\ waited' = 0

\* The query leaves through each socket that can send; one is enough.
SendQuery ==
    /\ mode = "bound"
    /\ \E sent \in SUBSET (1 .. sockets) :
         IF sent = {}
         THEN mode' = "failed" /\ UNCHANGED <<socket, waited>>
         ELSE Listen(1)
    /\ UNCHANGED <<packetVars, sockets, elapsed, queue, found, inTime,
                   handled, announced, overran>>

\* The network: a packet reaches a socket, read now or not.
Arrive(s) ==
    /\ mode \in {"waiting", "received"}
    /\ s <= sockets
    /\ queue[1] + queue[2] + handled[1] + handled[2] < MaxPackets
    /\ queue' = [queue EXCEPT ![s] = @ + 1]
    /\ inTime' = [inTime EXCEPT ![s] = IF elapsed < Timeout THEN @ + 1 ELSE @]
    /\ UNCHANGED <<packetVars, mode, sockets, socket, elapsed, waited, found,
                   handled, announced, overran>>

\* Time passes in a recv that has nothing to return, and while a packet is
\* handled.  What that takes is spent before it is parsed: neither the parser
\* nor the assembler looks at the clock or at a socket.
Tick ==
    /\ \/ mode = "waiting" /\ queue[socket] = 0 /\ waited < Timeout
       \/ mode = "received" /\ waited < MaxWork
    /\ elapsed' = elapsed + 1 /\ waited' = waited + 1
    /\ UNCHANGED <<packetVars, mode, sockets, socket, queue, found, inTime,
                   handled, announced, overran>>

Receive ==
    /\ mode = "waiting" /\ queue[socket] > 0
    /\ queue' = [queue EXCEPT ![socket] = @ - 1]
    /\ handled' = [handled EXCEPT ![socket] = @ + 1]
    /\ mode' = "received"
    /\ waited' = 0
    /\ UNCHANGED <<packetVars, sockets, socket, elapsed, found, inTime, announced,
                   overran>>

BeginParse ==
    /\ mode = "received"
    /\ mode' = "parsing"
    /\ \E n \in PacketSizes, q \in Questions, r \in Counts : StartParse(n, q, r)
    /\ UNCHANGED <<sockets, socket, elapsed, waited, queue, found, inTime,
                   handled, announced, overran>>

Parse ==
    /\ mode = "parsing"
    /\ ParseStep
    /\ UNCHANGED browseVars

\* `?` on an error of the parser ends the browse, whatever was found before.
Malformed ==
    /\ mode = "parsing"
    /\ phase = "failed" \/ (phase = "parsed" /\ \E raw \in Contents : Unassembled(raw))
    /\ ParserRests
    /\ mode' = "failed"
    /\ UNCHANGED <<sockets, socket, elapsed, waited, queue, found, inTime,
                   handled, announced, overran>>

\* Mutant: the deadline ends the browse and not the reading of one socket.
NextSocketInTime ==
    IF socket < sockets /\ elapsed < Timeout
    THEN Listen(socket + 1)
    ELSE mode' = "found" /\ UNCHANGED <<socket, waited>>

NextSocket ==
    IF socket < sockets
    THEN Listen(socket + 1)
    ELSE mode' = "found" /\ UNCHANGED <<socket, waited>>

\* Mutant: only a recv that times out ends the reading of a socket.
AfterPacketUntimed == Listen(socket)

AfterPacket == IF elapsed >= Timeout THEN NextSocket ELSE Listen(socket)

\* The packet that was returned last was taken before the deadline.
TakenInTime == elapsed < Timeout + waited

\* The records go into the map, and only then the deadline is looked at.
Record ==
    /\ mode = "parsing" /\ phase = "parsed"
    /\ \E raw \in Contents :
         LET heard == Assemble(raw)
             ids == {Id(a) : a \in heard}
         IN  /\ ~Unassembled(raw)
             /\ found' = [id \in DOMAIN found \union ids |->
                            IF id \in ids THEN CHOOSE a \in heard : Id(a) = id
                                          ELSE found[id]]
             /\ announced' = announced \union ids
    /\ ParserRests
    /\ AfterPacket
    /\ overran' = (overran \/ (elapsed >= Timeout /\ TakenInTime))
    /\ UNCHANGED <<sockets, elapsed, queue, inTime, handled>>

TimedOut ==
    /\ mode = "waiting" /\ queue[socket] = 0 /\ waited = Timeout
    /\ NextSocket
    /\ UNCHANGED <<packetVars, sockets, elapsed, queue, found, inTime, handled, announced, overran>>

RecvError ==
    /\ mode = "waiting"
    /\ mode' = "failed"
    /\ UNCHANGED <<packetVars, sockets, socket, elapsed, waited, queue, found,
                   inTime, handled, announced, overran>>

Thread == \/ SendQuery \/ Receive \/ BeginParse \/ Parse \/ Malformed \/ Record
          \/ TimedOut \/ RecvError

Next == Bind \/ Thread \/ Tick \/ \E s \in Sockets : Arrive(s)

\* The thread runs, and a recv that waits returns at its timeout; nothing makes
\* a packet arrive, and nothing makes the page ask again.
Spec == Init /\ [][Next]_vars /\ WF_vars(Thread \/ Tick)

-----------------------------------------------------------------------------
(* Properties *)

Handling == {"received", "parsing"}

\* What one recv and the packet it returns may take.
Turn == Timeout + MaxWork

\* The type invariant of the parser and the browse.
DiscoveryTypeOK ==
    /\ phase \in {"idle", "next", "record", "parsed", "failed"} \union NamePhases
    /\ mode \in {"idle", "bound", "waiting", "failed", "found"} \union Handling
    /\ sockets \in 0 .. 2 /\ socket \in 0 .. 2
    /\ {size, questions, remaining, offset, elapsed, waited} \subseteq Nat
    /\ queue \in [Sockets -> Nat] /\ inTime \in [Sockets -> Nat]
    /\ handled \in [Sockets -> Nat]
    /\ overran \in BOOLEAN
    /\ name \in [cursor : Nat, next : Nat, steps : 0 .. MaxSteps]
    /\ pending \in [type : RecordTypes, at : Nat, length : Nat]
    /\ records \in Seq([type : RecordTypes, at : Nat, length : Nat])

\* Whatever the counts of the header and the pointers in names say, the slices
\* the parser takes lie inside the packet, one behind the other with the fixed
\* fields of a record between them: the length of the packet bounds what is
\* copied.  (It does not bound the room reserved for that many records.)
RecordsFit ==
    \A i \in DOMAIN records :
        /\ records[i].at + records[i].length <= size
        /\ HeaderBytes + FixedBytes < records[i].at
        /\ \A j \in 1 .. i - 1 :
             records[j].at + records[j].length + FixedBytes < records[i].at

\* The page waits at most one timeout, and for each socket one more with the
\* work on one packet, however many packets arrive.
BrowseInTime == elapsed <= Timeout + sockets * Turn

\* A browse that succeeds has read at least one packet of each socket that got
\* one before the deadline, and all of those that reached the IPv4 socket
\* unless the deadline passed while it was still busy with one of them.  It
\* returns all that the packets it read announced.
InTimeIsFound ==
    mode = "found" =>
        /\ \A s \in Sockets : inTime[s] > 0 => handled[s] > 0
        /\ handled[1] >= inTime[1] \/ overran
        /\ DOMAIN found = announced

\* Answers come in any order of records: what a packet with one SRV for each
\* instance announces does not depend on it.
AnyOrderAnnounces ==
    phase = "parsed" =>
        \A raw \in Contents :
            (\A i, j \in OfType("srv") : raw[i].name = raw[j].name => i = j) =>
               {Id(a) : a \in Assemble(raw)} =
                   {<<raw[q[1]].target, raw[q[2]].port>> : q \in
                       {p \in OfType("ptr") \X OfType("srv") :
                           /\ raw[p[1]].name = Service
                           /\ raw[p[1]].target = raw[p[2]].name
                           /\ Named(raw, raw[p[2]].target) # {}}}

\* The inductive invariant.  The parser: a record ends where the parser
\* stands or before, and a name, pointers or not, ends behind its first octet.
EndBy(position) ==
    \A i \in DOMAIN records : records[i].at + records[i].length <= position

NameAhead ==
    IF name.next = None THEN offset <= name.cursor ELSE offset < name.next

ParserPlace ==
    /\ phase = "idle" => records = <<>>
    /\ phase \in {"next", "question", "owner", "parsed"} =>
         HeaderBytes <= offset /\ EndBy(offset)
    /\ phase \in {"question", "owner"} => NameAhead
    /\ phase = "record" =>
         HeaderBytes + 1 <= offset /\ EndBy(offset - 1)
    /\ phase = "target" =>
         /\ HeaderBytes + FixedBytes + 1 <= pending.at
         /\ EndBy(pending.at - FixedBytes - 1)
         /\ pending.at + pending.length <= size
    /\ phase = "question" => questions > 0
    /\ phase \in {"owner", "record", "target"} => remaining > 0

\* When the first recv of a socket has to start at the latest.
Due(s) == Timeout + (s - 1) * Turn

\* The browse: how far the clock may be where the browse stands.  The second
\* socket is read after the deadline only.
SocketPlace ==
    /\ mode # "parsing" => phase = "idle"
    /\ mode = "bound" => sockets > 0 /\ elapsed = 0 /\ waited = 0
    /\ mode \in {"waiting"} \union Handling => socket \in 1 .. sockets
    /\ waited <= elapsed
    /\ mode = "waiting" =>
         waited <= Timeout /\ elapsed <= Due(socket) + waited
    /\ mode \in Handling =>
         /\ waited <= MaxWork
         /\ elapsed <= Due(socket) + Timeout + waited
         /\ handled[socket] > 0
    /\ socket = 2 => elapsed >= Timeout /\ ~TakenInTime

\* A packet that was in time is read or waits in its socket, and after the
\* deadline it waits only behind one that was taken before.
Accounted ==
    /\ \A s \in Sockets : inTime[s] <= handled[s] + queue[s]
    /\ sockets < 2 => inTime[2] = 0
    /\ inTime[1] > handled[1] =>
         \/ mode = "failed" \/ elapsed < Timeout
         \/ overran
         \/ mode \in Handling /\ TakenInTime
    /\ socket = 2 /\ inTime[1] > 0 => handled[1] > 0
    /\ DOMAIN found = announced

DiscoveryInv ==
    /\ DiscoveryTypeOK
    /\ ParserPlace
    /\ SocketPlace
    /\ Accounted
    /\ RecordsFit
    /\ BrowseInTime
    /\ InTimeIsFound

\* Every browse ends, even on names whose pointers form a loop.
BrowseEnds == (mode # "idle") ~> (mode \in {"failed", "found"})
=============================================================================
