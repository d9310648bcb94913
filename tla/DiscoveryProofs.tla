-------------------------- MODULE DiscoveryProofs --------------------------
(***************************************************************************)
(* The parser stays inside its packet, the browse is bounded in time, and  *)
(* it is known what it leaves unread: for packets, names, counts and       *)
(* timeouts of any size, any number of packets and any time to handle one. *)
(***************************************************************************)
EXTENDS Discovery, Integers, TLAPS

RawRecord == [type : RecordTypes, at : Nat, length : Nat]
Cursor == [cursor : Nat, next : Nat, steps : 0 .. MaxSteps]

ParserTyped ==
  /\ phase \in {"idle", "next", "record", "parsed", "failed"} \union NamePhases
  /\ size \in Nat /\ questions \in Nat /\ remaining \in Nat /\ offset \in Nat
  /\ name \in Cursor
  /\ pending \in RawRecord
  /\ records \in Seq(RawRecord)

ParserOK == ParserTyped /\ ParserPlace /\ RecordsFit

LEMMA PacketConstants ==
  /\ HeaderBytes \in Nat /\ FixedBytes \in Nat /\ FixedBytes > 0 /\ SrvPrefix \in Nat
  /\ MaxSteps \in Nat /\ MaxSteps > 0
  /\ PacketSizes \subseteq Nat /\ Questions \subseteq Nat /\ Counts \subseteq Nat
  /\ \A n \in LabelSizes : n \in Nat
  /\ PointerTargets \subseteq Nat /\ DataSizes \subseteq Nat
BY PacketAssumption

LEMMA NamesTyped ==
  /\ NoName \in Cursor
  /\ NoRecord \in RawRecord
  /\ \A position \in Nat : NameAt(position) \in Cursor
BY PacketConstants DEF NoName, NoRecord, NameAt, Cursor, RawRecord, RecordTypes, None

-----------------------------------------------------------------------------
(* The parser.                                                             *)

\* The place of a parser that stands between two items, or has failed.
LEMMA NextPlace ==
  ASSUME ParserOK, phase' = "next", UNCHANGED <<size, records>>,
         questions' \in Nat, remaining' \in Nat, offset' \in Nat,
         name' \in Cursor, pending' \in RawRecord,
         HeaderBytes <= offset', EndBy(offset')
  PROVE  ParserOK'
<1>1. ParserTyped'
  BY DEF ParserOK, ParserTyped
<1>2. ParserPlace'
  BY DEF ParserPlace, EndBy, NameAhead
<1>3. RecordsFit'
  BY DEF ParserOK, RecordsFit
<1> QED BY <1>1, <1>2, <1>3 DEF ParserOK

LEMMA FailsStep ==
  ASSUME ParserOK, ParserFails
  PROVE  ParserOK'
<1>1. phase' = "failed" /\ UNCHANGED <<size, questions, remaining, offset, name, pending, records>>
  BY DEF ParserFails
<1>2. ParserTyped'
  BY <1>1 DEF ParserOK, ParserTyped
<1>3. ParserPlace'
  BY <1>1 DEF ParserPlace
<1>4. RecordsFit'
  BY <1>1 DEF ParserOK, RecordsFit
<1> QED BY <1>2, <1>3, <1>4 DEF ParserOK

\* The ends of the records only matter up to a bound.
LEMMA EndByWeakens ==
  ASSUME ParserTyped, NEW a \in Int, NEW b \in Int, a <= b, EndBy(a)
  PROVE  EndBy(b)
<1> SUFFICES ASSUME NEW i \in DOMAIN records
             PROVE  records[i].at + records[i].length <= b
  BY DEF EndBy
<1>1. records[i] \in RawRecord
  BY DEF ParserTyped
<1>2. records[i].at \in Nat /\ records[i].length \in Nat
  BY <1>1 DEF RawRecord
<1>3. records[i].at + records[i].length <= a
  BY DEF EndBy
<1> QED BY <1>2, <1>3

LEMMA PushStep ==
  ASSUME ParserOK, NEW record \in RawRecord, PushRecord(record), remaining > 0,
         record.at + record.length <= size,
         HeaderBytes + FixedBytes + 1 <= record.at,
         EndBy(record.at - FixedBytes - 1)
  PROVE  ParserOK'
<1> USE PacketConstants
<1>0. record.at \in Nat /\ record.length \in Nat
  BY DEF RawRecord
<1>1. /\ records' = Append(records, record)
      /\ phase' = "next"
      /\ offset' = record.at + record.length
      /\ remaining' = remaining - 1
      /\ name' = NoName /\ pending' = NoRecord
      /\ UNCHANGED <<size, questions>>
  BY DEF PushRecord, RecordDone
<1>2. records \in Seq(RawRecord) /\ Len(records) \in Nat
  BY DEF ParserOK, ParserTyped
<1>3. /\ DOMAIN records = 1 .. Len(records)
      /\ DOMAIN records' = 1 .. Len(records) + 1
      /\ records'[Len(records) + 1] = record
      /\ \A i \in 1 .. Len(records) : records'[i] = records[i]
  BY <1>1, <1>2
<1>4. ASSUME NEW i \in DOMAIN records
      PROVE  /\ records[i].at \in Nat /\ records[i].length \in Nat
             /\ records[i].at + records[i].length + FixedBytes < record.at
             /\ records[i].at + records[i].length <= record.at + record.length
  <2>1. records[i] \in RawRecord
    BY <1>2
  <2>2. records[i].at \in Nat /\ records[i].length \in Nat
    BY <2>1 DEF RawRecord
  <2>3. records[i].at + records[i].length <= record.at - FixedBytes - 1
    BY DEF EndBy
  <2> QED BY <1>0, <2>2, <2>3
<1>6. ParserTyped'
  BY <1>0, <1>1, NamesTyped DEF ParserOK, ParserTyped
<1>7. EndBy(offset)'
  <2> SUFFICES ASSUME NEW i \in DOMAIN records'
               PROVE  records'[i].at + records'[i].length <= offset'
    BY DEF EndBy
  <2>1. CASE i = Len(records) + 1
    BY <1>0, <1>1, <1>3, <2>1
  <2>2. CASE i \in DOMAIN records
    <3>1. records'[i] = records[i]
      BY <1>3, <2>2
    <3> QED BY <1>1, <1>4, <2>2, <3>1
  <2> QED BY <1>2, <1>3, <2>1, <2>2
<1>8. ParserPlace'
  BY <1>0, <1>1, <1>7 DEF ParserPlace, NameAhead
<1>9. RecordsFit'
  <2> SUFFICES ASSUME NEW i \in DOMAIN records'
               PROVE  /\ records'[i].at + records'[i].length <= size
                      /\ HeaderBytes + FixedBytes < records'[i].at
                      /\ \A j \in 1 .. i - 1 :
                           records'[j].at + records'[j].length + FixedBytes < records'[i].at
    BY <1>1 DEF RecordsFit
  <2>1. CASE i = Len(records) + 1
    <3>1. \A j \in 1 .. i - 1 : j \in DOMAIN records /\ records'[j] = records[j]
      BY <1>2, <1>3, <2>1
    <3>2. \A j \in 1 .. i - 1 :
            records'[j].at + records'[j].length + FixedBytes < record.at
      BY <1>4, <3>1
    <3>3. HeaderBytes + FixedBytes < record.at
      BY <1>0
    <3> QED BY <1>1, <1>3, <2>1, <3>2, <3>3
  <2>2. CASE i \in DOMAIN records
    <3>1. \A j \in 1 .. i : j \in DOMAIN records /\ records'[j] = records[j]
      BY <1>2, <1>3, <2>2
    <3>2. i \in 1 .. i
      BY <1>2, <1>3, <2>2
    <3>3. \A j \in 1 .. i - 1 : j \in 1 .. i
      BY <1>2, <1>3, <2>2
    <3>4. /\ records[i].at + records[i].length <= size
          /\ HeaderBytes + FixedBytes < records[i].at
          /\ \A j \in 1 .. i - 1 :
               records[j].at + records[j].length + FixedBytes < records[i].at
      BY <2>2 DEF ParserOK, RecordsFit
    <3> QED BY <3>1, <3>2, <3>3, <3>4
  <2> QED BY <1>2, <1>3, <2>1, <2>2
<1> QED BY <1>6, <1>8, <1>9 DEF ParserOK

LEMMA NextItemStep ==
  ASSUME ParserOK, NextItem
  PROVE  ParserOK'
<1>0. /\ phase = "next" /\ HeaderBytes <= offset /\ EndBy(offset)
      /\ UNCHANGED <<size, questions, remaining, offset, pending, records>>
  BY DEF NextItem, ParserOK, ParserPlace
<1>1. \/ phase' = "question" /\ questions > 0 /\ name' = NameAt(offset)
      \/ phase' = "owner" /\ remaining > 0 /\ name' = NameAt(offset)
      \/ phase' = "parsed" /\ name' = name
  BY DEF NextItem, ReadName
<1>2. ParserTyped'
  BY <1>0, <1>1, NamesTyped DEF ParserOK, ParserTyped, NamePhases
<1>3. name' = NameAt(offset) => NameAhead'
  BY <1>0 DEF NameAhead, NameAt, None, ParserOK, ParserTyped
<1>4. ParserPlace'
  BY <1>0, <1>1, <1>3 DEF ParserPlace, EndBy
<1>5. RecordsFit'
  BY <1>0 DEF ParserOK, RecordsFit
<1> QED BY <1>2, <1>4, <1>5 DEF ParserOK

LEMMA ReadRecordStep ==
  ASSUME ParserOK, ReadRecord
  PROVE  ParserOK'
<1> USE PacketConstants
<1>0. /\ phase = "record" /\ HeaderBytes + 1 <= offset /\ EndBy(offset - 1)
      /\ remaining > 0
      /\ offset \in Nat /\ size \in Nat /\ remaining \in Nat /\ questions \in Nat
  BY DEF ReadRecord, ParserOK, ParserPlace, ParserTyped
<1>1. PICK type \in RecordTypes, internet \in BOOLEAN, length \in DataSizes :
        LET record == [type |-> type, at |-> offset + FixedBytes, length |-> length]
        IN  \/ /\ record.at + length > size
               /\ ParserFails
            \/ /\ record.at + length <= size
               /\ ~internet
               /\ RecordDone(record.at + length)
               /\ UNCHANGED records
            \/ /\ record.at + length <= size
               /\ internet
               /\ type = "ptr" \/ (type = "srv" /\ length >= SrvPrefix)
               /\ ReadName("target", record.at + (IF type = "srv" THEN SrvPrefix ELSE 0))
               /\ offset' = record.at
               /\ pending' = record
               /\ UNCHANGED <<size, questions, remaining, records>>
            \/ /\ record.at + length <= size
               /\ internet
               /\ type # "ptr" /\ ~(type = "srv" /\ length >= SrvPrefix)
               /\ PushRecord(record)
  BY DEF ReadRecord
<1> DEFINE record == [type |-> type, at |-> offset + FixedBytes, length |-> length]
<1>2. /\ record \in RawRecord
      /\ record.at = offset + FixedBytes /\ record.length = length
      /\ length \in Nat
  BY <1>0 DEF RawRecord
<1>3. CASE ParserFails
  BY <1>3, FailsStep
<1>4. CASE RecordDone(record.at + length) /\ UNCHANGED records
  <2>1. /\ phase' = "next" /\ offset' = record.at + length
        /\ remaining' = remaining - 1 /\ name' = NoName /\ pending' = NoRecord
        /\ UNCHANGED <<size, questions, records>>
    BY <1>4 DEF RecordDone
  <2>2. EndBy(offset')
    BY <1>0, <1>2, <2>1, EndByWeakens DEF ParserOK
  <2> QED BY <1>0, <1>2, <2>1, <2>2, NamesTyped, NextPlace
<1>5. CASE /\ record.at + length <= size
           /\ ReadName("target", record.at + (IF type = "srv" THEN SrvPrefix ELSE 0))
           /\ offset' = record.at
           /\ pending' = record
           /\ UNCHANGED <<size, questions, remaining, records>>
  <2>1. /\ phase' = "target"
        /\ name' = NameAt(record.at + (IF type = "srv" THEN SrvPrefix ELSE 0))
    BY <1>5 DEF ReadName
  <2>2. record.at + (IF type = "srv" THEN SrvPrefix ELSE 0) \in Nat
    BY <1>0, <1>2
  <2>3. ParserTyped'
    BY <1>0, <1>2, <1>5, <2>1, <2>2, NamesTyped DEF ParserOK, ParserTyped, NamePhases
  <2>4. pending'.at - FixedBytes - 1 = offset - 1
    BY <1>0, <1>2, <1>5
  <2>5. EndBy(pending'.at - FixedBytes - 1)
    BY <1>0, <2>4
  <2>6. ParserPlace'
    BY <1>0, <1>2, <1>5, <2>1, <2>5 DEF ParserPlace, EndBy
  <2>7. RecordsFit'
    BY <1>5 DEF ParserOK, RecordsFit
  <2> QED BY <2>3, <2>6, <2>7 DEF ParserOK
<1>6. CASE record.at + length <= size /\ PushRecord(record)
  <2>1. record.at - FixedBytes - 1 = offset - 1
    BY <1>0, <1>2
  <2>2. EndBy(record.at - FixedBytes - 1)
    BY <1>0, <2>1
  <2>3. HeaderBytes + FixedBytes + 1 <= record.at
    BY <1>0, <1>2
  <2> QED BY <1>0, <1>2, <1>6, <2>2, <2>3, PushStep
<1> QED BY <1>1, <1>3, <1>4, <1>5, <1>6

LEMMA NameReadStep ==
  ASSUME ParserOK, phase \in NamePhases, NEW end \in Nat, NameRead(end),
         phase \in {"question", "owner"} => offset < end
  PROVE  ParserOK'
<1> USE PacketConstants
<1>0. /\ size \in Nat /\ questions \in Nat /\ remaining \in Nat /\ offset \in Nat
      /\ pending \in RawRecord
  BY DEF ParserOK, ParserTyped
<1>1. CASE ParserFails
  BY <1>1, FailsStep
<1>2. CASE /\ phase = "question" /\ phase' = "next" /\ offset' = end + 4
           /\ questions' = questions - 1 /\ name' = NoName
           /\ UNCHANGED <<size, remaining, pending, records>>
  <2>1. HeaderBytes <= offset /\ EndBy(offset) /\ questions > 0 /\ offset < end
    BY <1>2 DEF ParserOK, ParserPlace
  <2>2. EndBy(offset')
    BY <1>0, <1>2, <2>1, EndByWeakens DEF ParserOK
  <2> QED BY <1>0, <1>2, <2>1, <2>2, NamesTyped, NextPlace
<1>3. CASE /\ phase = "owner" /\ phase' = "record" /\ offset' = end /\ name' = NoName
           /\ UNCHANGED <<size, questions, remaining, pending, records>>
  <2>1. HeaderBytes <= offset /\ EndBy(offset) /\ remaining > 0 /\ offset < end
    BY <1>3 DEF ParserOK, ParserPlace
  <2>2. EndBy(offset' - 1)
    BY <1>0, <1>3, <2>1, EndByWeakens DEF ParserOK
  <2>3. ParserTyped'
    BY <1>3, NamesTyped DEF ParserOK, ParserTyped
  <2>4. ParserPlace'
    BY <1>0, <1>3, <2>1, <2>2 DEF ParserPlace, EndBy
  <2>5. RecordsFit'
    BY <1>3 DEF ParserOK, RecordsFit
  <2> QED BY <2>3, <2>4, <2>5 DEF ParserOK
<1>4. CASE phase = "target" /\ PushRecord(pending)
  BY <1>0, <1>4, PushStep DEF ParserOK, ParserPlace
<1> QED BY <1>1, <1>2, <1>3, <1>4 DEF NameRead

\* A turn of the loop of read_name that does not end it.
LEMMA GoesOnStep ==
  ASSUME ParserOK, Reading, NEW cursor \in Nat, NEW next \in Nat, NameGoesOn(cursor, next),
         NameAhead => IF next = None THEN offset <= cursor ELSE offset < next
  PROVE  ParserOK'
<1>0. name.steps \in 0 .. MaxSteps /\ name.steps < MaxSteps /\ phase \in NamePhases
  BY DEF Reading, ParserOK, ParserTyped, Cursor
<1>1. /\ name' = [cursor |-> cursor, next |-> next, steps |-> name.steps + 1]
      /\ UNCHANGED <<phase, size, questions, remaining, offset, pending, records>>
  BY DEF NameGoesOn
<1>2. name' \in Cursor
  BY <1>0, <1>1, PacketConstants DEF Cursor
<1>3. ParserTyped'
  BY <1>1, <1>2 DEF ParserOK, ParserTyped
<1>4. NameAhead => NameAhead'
  BY <1>1 DEF NameAhead
<1>5. ParserPlace'
  BY <1>0, <1>1, <1>4 DEF ParserOK, ParserPlace, EndBy, NamePhases
<1>6. RecordsFit'
  BY <1>1 DEF ParserOK, RecordsFit
<1> QED BY <1>3, <1>5, <1>6 DEF ParserOK

LEMMA ParserStep ==
  ASSUME ParserOK, ParseStep
  PROVE  ParserOK'
<1> USE PacketConstants
<1>0. name.cursor \in Nat /\ name.next \in Nat /\ offset \in Nat
  BY DEF ParserOK, ParserTyped, Cursor
<1>1. CASE NameEnd
  <2> DEFINE end == IF name.next # None THEN name.next ELSE name.cursor + 1
  <2>1. end \in Nat /\ phase \in NamePhases /\ NameRead(end)
    BY <1>0, <1>1 DEF NameEnd, Reading
  <2>2. phase \in {"question", "owner"} => offset < end
    BY <1>0 DEF ParserOK, ParserPlace, NameAhead
  <2> QED BY <2>1, <2>2, NameReadStep
<1>2. CASE NamePointer
  <2>1. CASE ParserFails
    BY <2>1, FailsStep
  <2>2. CASE Reading /\ \E target \in PointerTargets :
               NameGoesOn(target, IF name.next # None THEN name.next ELSE name.cursor + 2)
    <3>1. PICK target \in PointerTargets :
            NameGoesOn(target, IF name.next # None THEN name.next ELSE name.cursor + 2)
      BY <2>2
    <3> DEFINE next == IF name.next # None THEN name.next ELSE name.cursor + 2
    <3>2. next \in Nat /\ next # None /\ target \in Nat
      BY <1>0 DEF None
    <3>3. NameAhead => offset < next
      BY <1>0 DEF NameAhead
    <3> QED BY <2>2, <3>1, <3>2, <3>3, GoesOnStep
  <2> QED BY <1>2, <2>1, <2>2 DEF NamePointer
<1>3. CASE NameLabel
  <2>1. CASE ParserFails
    BY <2>1, FailsStep
  <2>2. CASE Reading /\ \E length \in LabelSizes :
               NameGoesOn(name.cursor + 1 + length, name.next)
    <3>1. PICK length \in LabelSizes : NameGoesOn(name.cursor + 1 + length, name.next)
      BY <2>2
    <3>2. length \in Nat
      OBVIOUS
    <3>3. NameAhead => IF name.next = None THEN offset <= name.cursor + 1 + length
                                           ELSE offset < name.next
      BY <1>0, <3>2 DEF NameAhead
    <3>4. name.cursor + 1 + length \in Nat
      BY <1>0, <3>2
    <3> QED BY <1>0, <2>2, <3>1, <3>3, <3>4, GoesOnStep
  <2> QED BY <1>3, <2>1, <2>2 DEF NameLabel
<1>4. CASE NameBad
  BY <1>4, FailsStep DEF NameBad
<1> QED BY <1>1, <1>2, <1>3, <1>4, NextItemStep, ReadRecordStep DEF ParseStep

LEMMA ParserQuiet ==
  ASSUME ParserOK, UNCHANGED packetVars
  PROVE  ParserOK'
<1>0. UNCHANGED <<phase, size, questions, remaining, offset, name, pending, records>>
  BY DEF packetVars
<1>1. ParserTyped'
  BY <1>0 DEF ParserOK, ParserTyped
<1>2. ParserPlace'
  BY <1>0 DEF ParserOK, ParserPlace, EndBy, NameAhead
<1>3. RecordsFit'
  BY <1>0 DEF ParserOK, RecordsFit
<1> QED BY <1>1, <1>2, <1>3 DEF ParserOK

\* Without records nothing can lie outside the packet.
LEMMA NoRecords ==
  ASSUME records' = <<>>
  PROVE  RecordsFit' /\ \A position : EndBy(position)'
<1>1. DOMAIN records' = {}
  OBVIOUS
<1> QED BY <1>1 DEF RecordsFit, EndBy

LEMMA ParserReset ==
  ASSUME ParserRests
  PROVE  ParserOK'
<1>1. phase' = "idle" /\ records' = <<>>
  BY DEF ParserRests
<1>2. ParserTyped'
  BY NamesTyped DEF ParserRests, ParserTyped
<1>3. ParserPlace'
  BY <1>1 DEF ParserPlace
<1> QED BY <1>1, <1>2, <1>3, NoRecords DEF ParserOK

LEMMA ParserStarts ==
  ASSUME ParserOK, phase = "idle",
         NEW n \in PacketSizes, NEW q \in Questions, NEW r \in Counts, StartParse(n, q, r)
  PROVE  ParserOK'
<1>1. CASE n < HeaderBytes
  BY <1>1, FailsStep DEF StartParse
<1>2. CASE ~(n < HeaderBytes)
  <2>1. /\ phase' = "next" /\ size' = n /\ questions' = q /\ remaining' = r
        /\ offset' = HeaderBytes /\ UNCHANGED <<name, pending, records>>
    BY <1>2 DEF StartParse
  <2>2. records' = <<>>
    BY <2>1 DEF ParserOK, ParserPlace
  <2>3. ParserTyped'
    BY <2>1, PacketConstants DEF ParserOK, ParserTyped
  <2>4. DOMAIN records' = {}
    BY <2>2
  <2>5. ParserPlace'
    BY <2>1, <2>4, PacketConstants DEF ParserPlace, EndBy
  <2> QED BY <2>2, <2>3, <2>5, NoRecords DEF ParserOK
<1> QED BY <1>1, <1>2

-----------------------------------------------------------------------------
(* The browse.                                                             *)

BrowseTyped ==
  /\ mode \in {"idle", "bound", "waiting", "failed", "found"} \union Handling
  /\ sockets \in 0 .. 2 /\ socket \in 0 .. 2
  /\ elapsed \in Nat /\ waited \in Nat
  /\ queue \in [Sockets -> Nat] /\ inTime \in [Sockets -> Nat]
  /\ handled \in [Sockets -> Nat]
  /\ overran \in BOOLEAN

\* Without the parser, whose phase only matters where the browse looks at it.
BrowseOK == BrowseTyped /\ SocketPlace /\ Accounted /\ BrowseInTime /\ InTimeIsFound

LEMMA InvSplits ==
  /\ DiscoveryInv <=> ParserOK /\ BrowseOK
  /\ DiscoveryInv' <=> ParserOK' /\ BrowseOK'
<1>1. DiscoveryTypeOK <=> ParserTyped /\ BrowseTyped
  BY DEF DiscoveryTypeOK, ParserTyped, BrowseTyped, Cursor, RawRecord
<1>2. DiscoveryTypeOK' <=> ParserTyped' /\ BrowseTyped'
  BY DEF DiscoveryTypeOK, ParserTyped, BrowseTyped, Cursor, RawRecord
<1> QED BY <1>1, <1>2 DEF DiscoveryInv, ParserOK, BrowseOK

LEMMA ParserKept ==
  ASSUME ParserOK, BrowseOK, [Next]_vars
  PROVE  ParserOK'
<1>1. CASE UNCHANGED packetVars
  BY <1>1, ParserQuiet
<1>2. CASE BeginParse
  <2>1. phase = "idle"
    BY <1>2 DEF BeginParse, BrowseOK, SocketPlace
  <2> QED BY <1>2, <2>1, ParserStarts DEF BeginParse
<1>3. CASE Parse
  BY <1>3, ParserStep DEF Parse
<1>4. CASE Malformed \/ Record
  BY <1>4, ParserReset DEF Malformed, Record
<1> QED BY <1>1, <1>2, <1>3, <1>4
        DEF Next, Thread, vars, Bind, SendQuery, Arrive, Tick, Receive, TimedOut, RecvError

LEMMA TurnTyped ==
  Timeout \in Nat /\ Timeout > 0 /\ MaxWork \in Nat /\ Turn \in Nat
  /\ Turn = Timeout + MaxWork
BY DiscoveryAssumption DEF Turn

LEMMA BindStep ==
  ASSUME ParserOK, BrowseOK, Bind
  PROVE  BrowseOK'
<1>1. /\ socket' = 0 /\ elapsed' = 0 /\ waited' = 0
      /\ queue' = NoPackets /\ inTime' = NoPackets /\ handled' = NoPackets
      /\ found' = <<>> /\ announced' = {} /\ overran' = FALSE
      /\ phase' = phase /\ phase = "idle"
      /\ sockets' \in 0 .. 2
      /\ mode' = "failed" \/ (mode' = "bound" /\ sockets' > 0)
  BY DEF Bind, packetVars, Sockets, BrowseOK, SocketPlace
<1>2. BrowseTyped'
  <2>1. overran' \in BOOLEAN
    BY <1>1
  <2> QED BY <1>1, <2>1 DEF BrowseTyped, NoPackets
<1>3. DOMAIN found' = {}
  BY <1>1
<1>4. Accounted'
  BY <1>1, <1>3 DEF Accounted, NoPackets, Sockets
<1>5. BrowseInTime'
  <2>1. CASE sockets' = 0
    BY <1>1, <2>1, TurnTyped DEF BrowseInTime
  <2>2. CASE sockets' = 1
    BY <1>1, <2>2, TurnTyped DEF BrowseInTime
  <2>3. CASE sockets' = 2
    BY <1>1, <2>3, TurnTyped DEF BrowseInTime
  <2> QED BY <1>1, <2>1, <2>2, <2>3
<1>6. SocketPlace'
  BY <1>1 DEF SocketPlace, Handling
<1> QED BY <1>1, <1>2, <1>4, <1>5, <1>6 DEF BrowseOK, InTimeIsFound

LEMMA SendQueryStep ==
  ASSUME ParserOK, BrowseOK, SendQuery
  PROVE  BrowseOK'
<1>1. /\ UNCHANGED <<sockets, elapsed, queue, found, inTime, handled, announced, overran>>
      /\ mode = "bound" /\ phase' = phase /\ phase = "idle"
      /\ sockets \in 0 .. 2 /\ sockets > 0 /\ elapsed = 0 /\ waited = 0
  BY DEF SendQuery, packetVars, BrowseOK, BrowseTyped, SocketPlace
<1>2. \/ mode' = "failed" /\ UNCHANGED <<socket, waited>>
      \/ mode' = "waiting" /\ socket' = 1 /\ waited' = 0
  BY DEF SendQuery, Listen
<1>3. BrowseTyped'
  BY <1>1, <1>2 DEF BrowseOK, BrowseTyped
<1>4. Accounted'
  <2>1. socket' = 2 => socket = 2
    BY <1>2
  <2> QED BY <1>1, <1>2, <2>1, TurnTyped DEF BrowseOK, Accounted
<1>5. BrowseInTime'
  BY <1>1 DEF BrowseOK, BrowseInTime
<1>6. SocketPlace'
  <2>1. CASE mode' = "failed"
    BY <1>1, <1>2, <2>1, TurnTyped DEF BrowseOK, SocketPlace, TakenInTime, Handling
  <2>2. CASE mode' = "waiting"
    BY <1>1, <1>2, <2>2, TurnTyped DEF SocketPlace, Handling, Due
  <2> QED BY <1>2, <2>1, <2>2
<1> QED BY <1>2, <1>3, <1>4, <1>5, <1>6 DEF BrowseOK, InTimeIsFound

\* The socket that is read is one of two: products become sums.
LEMMA TwoSockets ==
  ASSUME BrowseOK, mode = "waiting" \/ mode \in Handling
  PROVE  /\ socket = 1 \/ (socket = 2 /\ sockets = 2)
         /\ sockets \in {1, 2} /\ socket \in Sockets
         /\ elapsed \in Nat /\ waited \in Nat /\ waited <= elapsed
         /\ Due(socket) \in Nat
         /\ socket = 1 => Due(socket) = Timeout
         /\ socket = 2 => Due(socket) = Timeout + Turn
         /\ Due(socket) + Turn <= Timeout + sockets * Turn
<1>1. socket \in 1 .. sockets /\ sockets \in 0 .. 2 /\ socket \in 0 .. 2
  BY DEF BrowseOK, BrowseTyped, SocketPlace
<1>2. socket \in {1, 2} /\ sockets \in {1, 2} /\ (socket = 2 => sockets = 2)
  BY <1>1
<1>3. elapsed \in Nat /\ waited \in Nat /\ waited <= elapsed
  BY DEF BrowseOK, BrowseTyped, SocketPlace
<1>4. sockets * Turn = IF sockets = 1 THEN Turn ELSE Turn + Turn
  <2>1. CASE sockets = 1
    BY <2>1, TurnTyped
  <2>2. CASE sockets = 2
    BY <2>2, TurnTyped
  <2> QED BY <1>2, <2>1, <2>2
<1>5. Due(socket) = IF socket = 1 THEN Timeout ELSE Timeout + Turn
  <2>1. CASE socket = 1
    BY <2>1, TurnTyped DEF Due
  <2>2. CASE socket = 2
    BY <2>2, TurnTyped DEF Due
  <2> QED BY <1>2, <2>1, <2>2
<1> QED BY <1>2, <1>3, <1>4, <1>5, TurnTyped DEF Sockets

\* Where neither time nor the socket changes.
LEMMA SamePlace ==
  ASSUME BrowseOK, UNCHANGED <<mode, sockets, socket, elapsed, waited, handled>>,
         mode # "parsing" => phase' = phase
  PROVE  SocketPlace' /\ BrowseInTime'
BY DEF BrowseOK, SocketPlace, BrowseInTime, TakenInTime, Due

\* The counts of packets are numbers, for each of the two sockets.
LEMMA CountsTyped ==
  ASSUME BrowseOK
  PROVE  /\ 1 \in Sockets /\ 2 \in Sockets
         /\ \A t \in Sockets : /\ inTime[t] \in Nat /\ queue[t] \in Nat /\ handled[t] \in Nat
                               /\ inTime[t] <= handled[t] + queue[t]
BY DEF BrowseOK, BrowseTyped, Accounted, Sockets

LEMMA ArriveStep ==
  ASSUME ParserOK, BrowseOK, NEW s \in Sockets, Arrive(s)
  PROVE  BrowseOK'
<1>1. /\ UNCHANGED <<mode, sockets, socket, elapsed, waited, found, handled, announced, overran>>
      /\ mode = "waiting" \/ mode \in Handling
      /\ mode # "found" /\ mode # "parsing"
      /\ s <= sockets /\ phase' = phase
      /\ queue' = [queue EXCEPT ![s] = @ + 1]
      /\ inTime' = [inTime EXCEPT ![s] = IF elapsed < Timeout THEN @ + 1 ELSE @]
  BY DEF Arrive, packetVars, Handling
<1>2. BrowseTyped'
  BY <1>1 DEF BrowseOK, BrowseTyped
<1>3. \A t \in Sockets : /\ queue'[t] = IF t = s THEN queue[t] + 1 ELSE queue[t]
                         /\ inTime'[t] = IF t = s /\ elapsed < Timeout THEN inTime[t] + 1
                                                                       ELSE inTime[t]
  BY <1>1 DEF BrowseOK, BrowseTyped
<1>4. \A t \in Sockets : inTime'[t] <= handled'[t] + queue'[t]
  BY <1>1, <1>3, CountsTyped
<1>5. sockets' < 2 => inTime'[2] = 0
  <2>1. sockets < 2 => s # 2
    BY <1>1 DEF BrowseOK, BrowseTyped
  <2> QED BY <1>1, <1>3, <2>1, CountsTyped DEF BrowseOK, Accounted
<1>6. CASE elapsed < Timeout
  <2>1. socket = 1 /\ socket' = 1 /\ elapsed' < Timeout
    BY <1>1, <1>6, TwoSockets, TurnTyped DEF BrowseOK, SocketPlace
  <2> QED BY <1>1, <1>2, <1>4, <1>5, <2>1, SamePlace DEF BrowseOK, Accounted, InTimeIsFound
<1>7. CASE ~(elapsed < Timeout)
  <2>1. inTime'[1] = inTime[1]
    BY <1>3, <1>7, CountsTyped
  <2> QED BY <1>1, <1>2, <1>4, <1>5, <2>1, SamePlace
          DEF BrowseOK, Accounted, InTimeIsFound, TakenInTime
<1> QED BY <1>6, <1>7

LEMMA TickStep ==
  ASSUME ParserOK, BrowseOK, Tick
  PROVE  BrowseOK'
<1>1. /\ UNCHANGED <<mode, sockets, socket, queue, found, inTime, handled, announced, overran>>
      /\ \/ mode = "waiting" /\ queue[socket] = 0 /\ waited < Timeout
         \/ mode = "received" /\ waited < MaxWork
      /\ phase' = phase /\ elapsed' = elapsed + 1 /\ waited' = waited + 1
  BY DEF Tick, packetVars
<1>2. /\ mode = "waiting" \/ mode \in Handling
      /\ mode # "found" /\ mode # "parsing" /\ mode # "bound"
      /\ mode = "waiting" => mode \notin Handling
  BY <1>1 DEF Handling
<1>3. elapsed \in Nat /\ waited \in Nat /\ waited <= elapsed
  BY <1>2, TwoSockets
<1>4. BrowseTyped'
  BY <1>1, <1>3 DEF BrowseOK, BrowseTyped
<1>5. TakenInTime' <=> TakenInTime
  BY <1>1, <1>3, TurnTyped DEF TakenInTime
<1>6. Due(socket)' = Due(socket) /\ Due(socket) \in Nat
  BY <1>1, <1>2, TwoSockets DEF Due
<1>7. SocketPlace'
  <2>1. phase' = "idle" /\ socket' \in 1 .. sockets' /\ waited' <= elapsed'
    BY <1>1, <1>2, <1>3 DEF BrowseOK, SocketPlace
  <2>2. socket' = 2 => elapsed' >= Timeout /\ ~TakenInTime'
    BY <1>1, <1>3, <1>5, TurnTyped DEF BrowseOK, SocketPlace
  <2>3. mode' = "waiting" => waited' <= Timeout /\ elapsed' <= Due(socket)' + waited'
    BY <1>1, <1>2, <1>3, <1>6, TurnTyped DEF BrowseOK, SocketPlace
  <2>4. mode' \in Handling => /\ waited' <= MaxWork
                              /\ elapsed' <= Due(socket)' + Timeout + waited'
                              /\ handled'[socket'] > 0
    BY <1>1, <1>2, <1>3, <1>6, TurnTyped DEF BrowseOK, SocketPlace
  <2> QED BY <1>1, <1>2, <2>1, <2>2, <2>3, <2>4 DEF SocketPlace
<1>8. BrowseInTime'
  <2>1. elapsed' <= Due(socket) + Turn
    <3>1. CASE mode = "waiting"
      BY <1>1, <1>2, <1>3, <1>6, <3>1, TurnTyped DEF BrowseOK, SocketPlace
    <3>2. CASE mode \in Handling
      BY <1>1, <1>2, <1>3, <1>6, <3>2, TurnTyped DEF BrowseOK, SocketPlace
    <3> QED BY <1>2, <3>1, <3>2
  <2>2. Due(socket) + Turn <= Timeout + sockets * Turn /\ sockets * Turn \in Nat
    BY <1>2, TwoSockets, TurnTyped
  <2> QED BY <1>1, <1>3, <1>6, <2>1, <2>2, TurnTyped DEF BrowseInTime
<1>9. Accounted'
  <2>1. inTime'[1] > handled'[1] =>
          elapsed' < Timeout \/ overran' \/ (mode' \in Handling /\ TakenInTime')
    <3> SUFFICES ASSUME inTime[1] > handled[1]
                 PROVE  elapsed' < Timeout \/ overran \/ (mode \in Handling /\ TakenInTime)
      BY <1>1, <1>5
    <3>1. CASE elapsed < Timeout /\ mode \in Handling
      BY <1>3, <3>1, TurnTyped DEF TakenInTime
    <3>2. CASE elapsed < Timeout /\ mode = "waiting"
      <4>1. socket = 1
        BY <1>2, <1>3, <3>2, TwoSockets, TurnTyped DEF BrowseOK, SocketPlace
      <4>2. queue[1] = 0
        BY <1>1, <3>2, <4>1
      <4> QED BY <4>2, CountsTyped
    <3>3. CASE ~(elapsed < Timeout)
      BY <1>1, <1>2, <3>3 DEF BrowseOK, Accounted
    <3> QED BY <1>2, <3>1, <3>2, <3>3
  <2> QED BY <1>1, <2>1 DEF BrowseOK, Accounted
<1> QED BY <1>1, <1>2, <1>4, <1>7, <1>8, <1>9 DEF BrowseOK, InTimeIsFound

LEMMA ReceiveStep ==
  ASSUME ParserOK, BrowseOK, Receive
  PROVE  BrowseOK'
<1>1. /\ UNCHANGED <<sockets, socket, elapsed, found, inTime, announced, overran>>
      /\ mode = "waiting" /\ mode' = "received" /\ waited' = 0 /\ queue[socket] > 0
      /\ phase' = phase
      /\ queue' = [queue EXCEPT ![socket] = @ - 1]
      /\ handled' = [handled EXCEPT ![socket] = @ + 1]
  BY DEF Receive, packetVars
<1>2. /\ socket \in Sockets /\ elapsed \in Nat /\ waited \in Nat
      /\ mode' \in Handling /\ mode \notin Handling
  BY <1>1, TwoSockets DEF Handling
<1>3. \A t \in Sockets : /\ queue'[t] = IF t = socket THEN queue[t] - 1 ELSE queue[t]
                         /\ handled'[t] = IF t = socket THEN handled[t] + 1 ELSE handled[t]
  BY <1>1, <1>2 DEF BrowseOK, BrowseTyped
<1>4. BrowseTyped'
  <2>1. queue[socket] - 1 \in Nat /\ handled[socket] + 1 \in Nat
    BY <1>1, <1>2, CountsTyped
  <2> QED BY <1>1, <1>2, <2>1 DEF BrowseOK, BrowseTyped
<1>5. SocketPlace'
  <2>1. elapsed' <= Due(socket)' + Timeout + waited'
    <3>1. elapsed <= Due(socket) + waited /\ waited <= Timeout
      BY <1>1 DEF BrowseOK, SocketPlace
    <3>2. Due(socket)' = Due(socket) /\ Due(socket) \in Nat
      BY <1>1, TwoSockets DEF Due
    <3> QED BY <1>1, <1>2, <3>1, <3>2, TurnTyped
  <2>2. handled'[socket'] > 0
    BY <1>1, <1>2, <1>3, CountsTyped
  <2>3. socket' \in 1 .. sockets' /\ waited' <= elapsed' /\ waited' <= MaxWork
    BY <1>1, <1>2, TurnTyped DEF BrowseOK, SocketPlace
  <2>4. socket' = 2 => elapsed' >= Timeout /\ ~TakenInTime'
    BY <1>1, <1>2, TurnTyped DEF BrowseOK, SocketPlace, TakenInTime
  <2>5. phase' = "idle"
    BY <1>1 DEF BrowseOK, SocketPlace
  <2> QED BY <1>1, <1>2, <2>1, <2>2, <2>3, <2>4, <2>5 DEF SocketPlace
<1>6. Accounted'
  <2>1. ASSUME NEW t \in Sockets
        PROVE  inTime'[t] <= handled'[t] + queue'[t] /\ handled'[t] >= handled[t]
    BY <1>1, <1>2, <1>3, CountsTyped
  <2>2. handled'[1] >= handled[1] /\ handled'[1] \in Nat
    BY <1>2, <1>3, <2>1, CountsTyped
  <2>3. inTime'[1] > handled'[1] => elapsed' < Timeout \/ overran'
    BY <1>1, <1>2, <2>2, CountsTyped DEF BrowseOK, Accounted
  <2>4. socket' = 2 /\ inTime'[1] > 0 => handled'[1] > 0
    BY <1>1, <2>2, CountsTyped DEF BrowseOK, Accounted
  <2> QED BY <1>1, <2>1, <2>3, <2>4 DEF BrowseOK, Accounted
<1>7. BrowseInTime'
  BY <1>1 DEF BrowseOK, BrowseInTime
<1> QED BY <1>1, <1>4, <1>5, <1>6, <1>7 DEF BrowseOK, InTimeIsFound

LEMMA BeginParseStep ==
  ASSUME ParserOK, BrowseOK, BeginParse
  PROVE  BrowseOK'
<1>1. /\ UNCHANGED <<sockets, socket, elapsed, waited, queue, found, inTime,
                     handled, announced, overran>>
      /\ mode = "received" /\ mode' = "parsing"
      /\ mode \in Handling /\ mode' \in Handling
  BY DEF BeginParse, Handling
<1>2. BrowseTyped'
  BY <1>1 DEF BrowseOK, BrowseTyped
<1>3. SocketPlace' /\ BrowseInTime'
  BY <1>1 DEF BrowseOK, SocketPlace, BrowseInTime, TakenInTime, Due
<1>4. Accounted'
  BY <1>1 DEF BrowseOK, Accounted, TakenInTime
<1> QED BY <1>1, <1>2, <1>3, <1>4 DEF BrowseOK, InTimeIsFound

\* The browse goes to the next socket, or returns.
LEMMA NextSocketStep ==
  ASSUME ParserOK, BrowseOK, NextSocket, mode = "waiting" \/ mode \in Handling,
         UNCHANGED <<sockets, elapsed, queue, inTime, handled>>,
         phase' = "idle", DOMAIN found' = announced', overran' \in BOOLEAN,
         elapsed >= Timeout, elapsed <= Due(socket) + Turn,
         inTime[1] > handled[1] => overran',
         inTime[socket] > 0 => handled[socket] > 0
  PROVE  BrowseOK'
<1>1. \/ mode' = "waiting" /\ socket' = socket + 1 /\ waited' = 0 /\ socket < sockets
      \/ mode' = "found" /\ UNCHANGED <<socket, waited>> /\ ~(socket < sockets)
  BY DEF NextSocket, Listen
<1>2. /\ elapsed \in Nat /\ waited \in Nat /\ waited <= elapsed
      /\ sockets \in {1, 2} /\ (socket = 1 \/ (socket = 2 /\ sockets = 2))
      /\ mode' \notin Handling /\ mode' # "parsing"
  BY <1>1, TwoSockets DEF Handling
<1>3. BrowseTyped'
  BY <1>1, <1>2 DEF BrowseOK, BrowseTyped
<1>4. Accounted'
  <2>1. socket' = 2 /\ inTime'[1] > 0 => handled'[1] > 0
    BY <1>1, <1>2 DEF BrowseOK, Accounted
  <2> QED BY <2>1 DEF BrowseOK, Accounted
<1>5. BrowseInTime'
  BY DEF BrowseOK, BrowseInTime
<1>6. SocketPlace'
  <2>1. CASE mode' = "waiting"
    <3>1. socket = 1 /\ socket' = 2 /\ sockets' = 2 /\ waited' = 0 /\ elapsed' = elapsed
      BY <1>1, <1>2, <2>1
    <3>2. Due(socket)' = Due(socket) + Turn
      BY <3>1, TurnTyped DEF Due
    <3>3. elapsed' <= Due(socket)' + waited'
      BY <1>2, <3>1, <3>2, TwoSockets, TurnTyped
    <3> QED BY <1>2, <2>1, <3>1, <3>3, TurnTyped DEF SocketPlace, TakenInTime
  <2>2. CASE mode' = "found"
    BY <1>1, <1>2, <2>2 DEF BrowseOK, SocketPlace, TakenInTime
  <2> QED BY <1>1, <2>1, <2>2
<1>7. InTimeIsFound'
  <2> SUFFICES ASSUME mode' = "found"
               PROVE  /\ \A s \in Sockets : inTime'[s] > 0 => handled'[s] > 0
                      /\ handled'[1] >= inTime'[1] \/ overran'
                      /\ DOMAIN found' = announced'
    BY DEF InTimeIsFound
  <2>1. handled[1] >= inTime[1] \/ overran'
    BY CountsTyped
  <2>2. inTime[1] > 0 => handled[1] > 0
    BY <1>2 DEF BrowseOK, Accounted
  <2>3. inTime[2] > 0 => handled[2] > 0
    <3>1. CASE sockets < 2
      BY <3>1, CountsTyped DEF BrowseOK, Accounted
    <3>2. CASE sockets = 2
      BY <1>1, <1>2, <3>2
    <3> QED BY <1>2, <3>1, <3>2
  <2> QED BY <2>1, <2>2, <2>3 DEF Sockets
<1> QED BY <1>3, <1>4, <1>5, <1>6, <1>7 DEF BrowseOK

LEMMA TimedOutStep ==
  ASSUME ParserOK, BrowseOK, TimedOut
  PROVE  BrowseOK'
<1>1. /\ mode = "waiting" /\ queue[socket] = 0 /\ waited = Timeout /\ NextSocket
      /\ phase' = phase /\ mode \notin Handling
      /\ UNCHANGED <<sockets, elapsed, queue, found, inTime, handled, announced, overran>>
  BY DEF TimedOut, packetVars, Handling
<1>2. phase' = "idle" /\ elapsed <= Due(socket) + waited /\ waited <= elapsed
  BY <1>1 DEF BrowseOK, SocketPlace
<1>3. elapsed >= Timeout /\ elapsed <= Due(socket) + Turn
  BY <1>1, <1>2, TwoSockets, TurnTyped
<1>4. inTime[socket] > 0 => handled[socket] > 0
  BY <1>1, CountsTyped, TwoSockets
<1>5. inTime[1] > handled[1] => overran'
  BY <1>1, <1>3, TwoSockets, TurnTyped DEF BrowseOK, Accounted
<1>6. DOMAIN found' = announced' /\ overran' \in BOOLEAN
  BY <1>1 DEF BrowseOK, BrowseTyped, Accounted
<1> QED BY <1>1, <1>2, <1>3, <1>4, <1>5, <1>6, NextSocketStep

LEMMA RecordStep ==
  ASSUME ParserOK, BrowseOK, Record
  PROVE  BrowseOK'
<1>1. /\ mode = "parsing" /\ AfterPacket /\ phase' = "idle"
      /\ UNCHANGED <<sockets, elapsed, queue, inTime, handled>>
      /\ overran' = (overran \/ (elapsed >= Timeout /\ TakenInTime))
  BY DEF Record, ParserRests
<1>2. DOMAIN found' = announced'
  <2>1. PICK raw \in Contents :
          LET heard == Assemble(raw)
              ids == {Id(a) : a \in heard}
          IN  /\ found' = [id \in DOMAIN found \union ids |->
                             IF id \in ids THEN CHOOSE a \in heard : Id(a) = id
                                           ELSE found[id]]
              /\ announced' = announced \union ids
    BY DEF Record
  <2> DEFINE heard == Assemble(raw)
             ids == {Id(a) : a \in heard}
  <2>2. DOMAIN found' = DOMAIN found \union ids
    BY <2>1
  <2>3. announced' = announced \union ids
    BY <2>1
  <2> HIDE DEF ids
  <2> QED BY <2>2, <2>3 DEF BrowseOK, Accounted
<1>3. /\ mode \in Handling /\ waited <= MaxWork
      /\ elapsed <= Due(socket) + Timeout + waited /\ handled[socket] > 0
      /\ elapsed \in Nat /\ waited \in Nat /\ Due(socket) \in Nat
      /\ socket = 2 => elapsed >= Timeout
  BY <1>1, TwoSockets DEF Handling, BrowseOK, SocketPlace
<1>4. overran' \in BOOLEAN
  BY <1>1, <1>3 DEF BrowseOK, BrowseTyped
<1>5. CASE elapsed >= Timeout
  <2>1. NextSocket
    BY <1>1, <1>5 DEF AfterPacket
  <2>2. elapsed <= Due(socket) + Turn
    BY <1>3, TurnTyped
  <2>3. inTime[1] > handled[1] => overran'
    <3>1. inTime[1] > handled[1] => overran \/ TakenInTime
      BY <1>1, <1>3, <1>5, TurnTyped DEF BrowseOK, Accounted
    <3> QED BY <1>1, <1>5, <3>1
  <2> QED BY <1>1, <1>2, <1>3, <1>4, <1>5, <2>1, <2>2, <2>3, NextSocketStep
<1>6. CASE elapsed < Timeout
  <2>1. mode' = "waiting" /\ socket' = socket /\ waited' = 0
    BY <1>1, <1>3, <1>6, TurnTyped DEF AfterPacket, Listen
  <2>2. socket = 1 /\ socket' \in 1 .. sockets' /\ mode' \notin Handling
    <3>1. socket = 1
      BY <1>3, <1>6, TwoSockets, TurnTyped
    <3>2. socket \in 1 .. sockets
      BY <1>3 DEF BrowseOK, SocketPlace
    <3> QED BY <1>1, <2>1, <3>1, <3>2 DEF Handling
  <2>3. BrowseTyped'
    BY <1>1, <1>4, <2>1 DEF BrowseOK, BrowseTyped
  <2>4. SocketPlace'
    <3>1. elapsed' <= Due(socket)' + waited'
      BY <1>1, <1>3, <1>6, <2>1, <2>2, TurnTyped DEF Due
    <3> QED BY <1>1, <1>3, <2>1, <2>2, <3>1, TurnTyped DEF SocketPlace
  <2>5. Accounted'
    BY <1>1, <1>2, <1>6, <2>1, <2>2 DEF BrowseOK, Accounted
  <2>6. BrowseInTime'
    BY <1>1 DEF BrowseOK, BrowseInTime
  <2> QED BY <2>1, <2>3, <2>4, <2>5, <2>6 DEF BrowseOK, InTimeIsFound
<1> QED BY <1>3, <1>5, <1>6, TurnTyped

\* An error, of the parser or of the socket, ends the browse.
LEMMA EndsInError ==
  ASSUME BrowseOK, mode' = "failed", phase' = "idle",
         UNCHANGED <<sockets, socket, elapsed, waited, queue, found, inTime,
                     handled, announced, overran>>
  PROVE  BrowseOK'
<1>1. BrowseTyped'
  BY DEF BrowseOK, BrowseTyped
<1>2. SocketPlace' /\ BrowseInTime'
  BY DEF BrowseOK, SocketPlace, BrowseInTime, TakenInTime, Handling
<1>3. Accounted'
  BY DEF BrowseOK, Accounted
<1> QED BY <1>1, <1>2, <1>3 DEF BrowseOK, InTimeIsFound

\* Nothing of the browse changes: the parser runs, or nothing does.
LEMMA BrowseQuiet ==
  ASSUME BrowseOK, UNCHANGED browseVars, mode = "parsing" \/ phase' = phase
  PROVE  BrowseOK'
<1>0. UNCHANGED <<mode, sockets, socket, elapsed, waited, queue, found,
                  inTime, handled, announced, overran>>
  BY DEF browseVars
<1>1. BrowseTyped' /\ Accounted'
  BY <1>0 DEF BrowseOK, BrowseTyped, Accounted, TakenInTime
<1>2. SocketPlace' /\ BrowseInTime'
  BY <1>0, SamePlace
<1> QED BY <1>0, <1>1, <1>2 DEF BrowseOK, InTimeIsFound

LEMMA BrowseKept ==
  ASSUME ParserOK, BrowseOK, [Next]_vars
  PROVE  BrowseOK'
<1>1. CASE Malformed
  <2>1. phase' = "idle"
    BY <1>1 DEF Malformed, ParserRests
  <2> QED BY <1>1, <2>1, EndsInError DEF Malformed
<1>2. CASE RecvError
  <2>1. phase' = "idle"
    BY <1>2 DEF RecvError, packetVars, BrowseOK, SocketPlace
  <2> QED BY <1>2, <2>1, EndsInError DEF RecvError
<1>3. CASE Parse
  BY <1>3, BrowseQuiet DEF Parse
<1>4. CASE UNCHANGED vars
  BY <1>4, BrowseQuiet DEF vars, packetVars
<1>5. CASE \E s \in Sockets : Arrive(s)
  BY <1>5, ArriveStep
<1> QED BY <1>1, <1>2, <1>3, <1>4, <1>5, BindStep, SendQueryStep, TickStep,
           ReceiveStep, BeginParseStep, RecordStep, TimedOutStep DEF Next, Thread

LEMMA InvInit ==
  ASSUME Init
  PROVE  DiscoveryInv
<1>1. /\ phase = "idle" /\ records = <<>> /\ mode = "idle" /\ sockets = 0 /\ socket = 0
      /\ elapsed = 0 /\ waited = 0 /\ found = <<>> /\ announced = {} /\ overran = FALSE
      /\ queue = NoPackets /\ inTime = NoPackets /\ handled = NoPackets
  BY DEF Init, PacketInit, BrowseInit
<1>2. ParserTyped
  BY NamesTyped DEF Init, PacketInit, ParserTyped
<1>3. DOMAIN records = {} /\ DOMAIN found = {}
  BY <1>1
<1>4. ParserPlace /\ RecordsFit
  BY <1>1, <1>3 DEF ParserPlace, RecordsFit
<1>5. BrowseTyped
  <2>1. overran \in BOOLEAN
    BY <1>1
  <2> QED BY <1>1, <2>1 DEF BrowseTyped, NoPackets
<1>6. SocketPlace
  BY <1>1 DEF SocketPlace, Handling
<1>7. Accounted
  BY <1>1, <1>3 DEF Accounted, NoPackets, Sockets
<1>8. BrowseInTime
  BY <1>1, TurnTyped DEF BrowseInTime
<1>9. InTimeIsFound
  BY <1>1 DEF InTimeIsFound
<1> QED BY <1>2, <1>4, <1>5, <1>6, <1>7, <1>8, <1>9, InvSplits DEF ParserOK, BrowseOK

LEMMA InvNext ==
  ASSUME DiscoveryInv, [Next]_vars
  PROVE  DiscoveryInv'
<1>1. ParserOK /\ BrowseOK
  BY InvSplits
<1> QED BY <1>1, ParserKept, BrowseKept, InvSplits

-----------------------------------------------------------------------------
\* Parser and browse keep the invariant, whatever the network sends.
THEOREM DiscoveryInvariance == Spec => []DiscoveryInv
BY InvInit, InvNext, PTL DEF Spec

\* The parser never takes a slice outside the packet, and the slices never
\* overlap: pointers in names may jump, records never do.
THEOREM RecordsFitAlways == Spec => []RecordsFit
<1>1. DiscoveryInv => RecordsFit
  BY DEF DiscoveryInv
<1> QED BY <1>1, DiscoveryInvariance, PTL

\* Packets without end do not keep the page waiting: the work on one packet of
\* each socket is all they can add to the timeouts.
THEOREM BrowseInTimeAlways == Spec => []BrowseInTime
<1>1. DiscoveryInv => BrowseInTime
  BY DEF DiscoveryInv
<1> QED BY <1>1, DiscoveryInvariance, PTL

\* The browse that returns receivers looked at each socket that heard anything
\* in time, left a packet that came in time on IPv4 unread only when another one
\* kept it beyond the deadline, and kept everything it read.
THEOREM InTimeIsFoundAlways == Spec => []InTimeIsFound
<1>1. DiscoveryInv => InTimeIsFound
  BY DEF DiscoveryInv
<1> QED BY <1>1, DiscoveryInvariance, PTL

-----------------------------------------------------------------------------
(* What a packet announces.                                                *)

\* A PTR of the service, an SRV of the instance it lists and an address of the
\* host that the SRV names, wherever in the packet they stand.
Announcing(raw) ==
  {p \in OfType("ptr") \X OfType("srv") :
     /\ raw[p[1]].name = Service
     /\ raw[p[1]].target = raw[p[2]].name
     /\ Named(raw, raw[p[2]].target) # {}}

OneSrvEach(raw) ==
  \A i, j \in OfType("srv") : raw[i].name = raw[j].name => i = j

\* The SRV that the map holds for an instance is the only one there is.
LEMMA LastSrvIsOnly ==
  ASSUME records \in Seq(RawRecord), NEW raw, OneSrvEach(raw),
         NEW i \in OfType("srv")
  PROVE  LastSrv(raw, raw[i].name) = i
<1>1. i \in Nat
  BY DEF OfType
<1>2. \A j \in OfType("srv") : raw[j].name = raw[i].name => j <= i
  BY <1>1 DEF OneSrvEach
<1>3. \A k \in OfType("srv") : raw[k].name = raw[i].name => k = i
  BY DEF OneSrvEach
<1> QED BY <1>2, <1>3 DEF LastSrv

\* So its announcement has that SRV's port and the addresses of its host.
LEMMA AnnouncementOf ==
  ASSUME records \in Seq(RawRecord), NEW raw, OneSrvEach(raw),
         NEW i \in OfType("srv")
  PROVE  /\ Id(Announcement(raw, raw[i].name)) = <<raw[i].name, raw[i].port>>
         /\ Announcement(raw, raw[i].name).addresses # {}
              <=> Named(raw, raw[i].target) # {}
BY LastSrvIsOnly DEF Announcement, Id, AddressesOf

LEMMA AssembledAnyOrder ==
  ASSUME records \in Seq(RawRecord), NEW raw, OneSrvEach(raw)
  PROVE  {Id(a) : a \in Assemble(raw)} =
           {<<raw[q[1]].target, raw[q[2]].port>> : q \in Announcing(raw)}
<1>1. ASSUME NEW a \in Assemble(raw)
      PROVE  \E q \in Announcing(raw) :
               Id(a) = <<raw[q[1]].target, raw[q[2]].port>>
  <2>1. PICK j \in OfType("ptr"), i \in OfType("srv") :
          /\ raw[j].name = Service /\ raw[j].target = raw[i].name
          /\ a = Announcement(raw, raw[i].name) /\ a.addresses # {}
    BY DEF Assemble
  <2>2. /\ Id(a) = <<raw[j].target, raw[i].port>>
        /\ Named(raw, raw[i].target) # {}
    BY <2>1, AnnouncementOf
  <2>3. <<j, i>> \in Announcing(raw)
    BY <2>1, <2>2 DEF Announcing
  <2> QED BY <2>2, <2>3
<1>2. ASSUME NEW q \in Announcing(raw)
      PROVE  \E a \in Assemble(raw) :
               Id(a) = <<raw[q[1]].target, raw[q[2]].port>>
  <2>1. PICK j \in OfType("ptr"), i \in OfType("srv") :
          /\ q = <<j, i>>
          /\ raw[j].name = Service /\ raw[j].target = raw[i].name
          /\ Named(raw, raw[i].target) # {}
    BY <1>2 DEF Announcing
  <2> DEFINE a == Announcement(raw, raw[i].name)
  <2>2. Id(a) = <<raw[j].target, raw[i].port>> /\ a.addresses # {}
    BY <2>1, AnnouncementOf
  <2>3. a \in Assemble(raw)
    <3> HIDE DEF a
    <3>1. raw[i].name \in {raw[k].target : k \in {h \in OfType("ptr") : raw[h].name = Service}}
      BY <2>1
    <3>2. \E k \in OfType("srv") : raw[k].name = raw[i].name
      OBVIOUS
    <3> QED BY <2>2, <3>1, <3>2 DEF Assemble, a
  <2> QED BY <2>1, <2>2, <2>3
<1> QED BY <1>1, <1>2

\* An answer announces the same receivers in whatever order its records stand,
\* for packets with any number of records.
THEOREM AnyOrderAnnouncesAlways == Spec => []AnyOrderAnnounces
<1>1. DiscoveryInv => AnyOrderAnnounces
  <2>1. DiscoveryInv => records \in Seq(RawRecord)
    BY DEF DiscoveryInv, DiscoveryTypeOK, RawRecord
  <2> QED BY <2>1, AssembledAnyOrder DEF AnyOrderAnnounces, OneSrvEach, Announcing
<1> QED BY <1>1, DiscoveryInvariance, PTL
=============================================================================
