----------------------------- MODULE DnsPacket -----------------------------
(***************************************************************************)
(* The parser of one mDNS response, crates/discovery: parse_response and  *)
(* read_name, one action per turn of a loop.  Positions are kept and bytes *)
(* are not: every read inside the packet may return any octet, so one      *)
(* behaviour here stands for every packet that steers the parser that way. *)
(* What the records say is chosen by the module that assembles them.       *)
(***************************************************************************)
EXTENDS Naturals, Sequences

CONSTANTS HeaderBytes,     \* of the DNS header: 12
          FixedBytes,      \* of type, class, TTL and data length: 10
          SrvPrefix,       \* priority, weight and port before an SRV target: 6
          MaxSteps,        \* turns of the loop of read_name: 128
          PacketSizes,     \* lengths a received datagram may have
          Questions,       \* numbers of questions a header may name
          Counts,          \* numbers of records its other three counts add up to
          LabelSizes,      \* lengths of a label, from 1 to 63
          PointerTargets,  \* offsets a compression pointer can hold
          DataSizes        \* values of the length field of a record

ASSUME PacketAssumption ==
    /\ HeaderBytes \in Nat /\ FixedBytes \in Nat \ {0} /\ SrvPrefix \in Nat
    /\ MaxSteps \in Nat \ {0}
    /\ PacketSizes \subseteq Nat /\ Questions \subseteq Nat /\ Counts \subseteq Nat
    /\ LabelSizes \subseteq Nat \ {0}
    /\ PointerTargets \subseteq Nat /\ DataSizes \subseteq Nat

VARIABLES phase,      \* what the parser does next
          size,       \* length of the packet
          questions,  \* questions still to skip
          remaining,  \* resource records still to read
          offset,     \* where the parser stands between two names
          name,       \* the name being read
          pending,    \* the record whose target name is being read
          records     \* the raw records pushed so far

packetVars == <<phase, size, questions, remaining, offset, name, pending, records>>

\* Only PTR and SRV records have a target name; the others are plain here.
RecordTypes == {"ptr", "srv", "plain"}
NamePhases == {"question", "owner", "target"}
None == 0   \* no pointer followed yet; a real value is at least 2
NoName == [cursor |-> 0, next |-> None, steps |-> 0]
NoRecord == [type |-> "plain", at |-> 0, length |-> 0]

NameAt(position) == [cursor |-> position, next |-> None, steps |-> 0]

PacketInit ==
    /\ phase = "idle"
    /\ size = 0 /\ questions = 0 /\ remaining = 0 /\ offset = 0
    /\ name = NoName
    /\ pending = NoRecord
    /\ records = <<>>

\* The parser returned: what it held is dropped.
ParserRests ==
    /\ phase' = "idle"
    /\ size' = 0 /\ questions' = 0 /\ remaining' = 0 /\ offset' = 0
    /\ name' = NoName
    /\ pending' = NoRecord
    /\ records' = <<>>

ParserFails ==
    /\ phase' = "failed"
    /\ UNCHANGED <<size, questions, remaining, offset, name, pending, records>>

-----------------------------------------------------------------------------
(* parse_response *)

\* The header of a packet of n bytes: q questions and r records in all.
StartParse(n, q, r) ==
    IF n < HeaderBytes
    THEN ParserFails
    ELSE /\ phase' = "next"
         /\ size' = n /\ questions' = q /\ remaining' = r
         /\ offset' = HeaderBytes
         /\ UNCHANGED <<name, pending, records>>

ReadName(role, position) ==
    /\ phase' = role
    /\ name' = NameAt(position)

NextItem ==
    /\ phase = "next"
    /\ \/ /\ questions > 0
          /\ ReadName("question", offset)
       \/ /\ questions = 0 /\ remaining > 0
          /\ ReadName("owner", offset)
       \/ /\ questions = 0 /\ remaining = 0
          /\ phase' = "parsed"
          /\ UNCHANGED name
    /\ UNCHANGED <<size, questions, remaining, offset, pending, records>>

\* The parser goes on behind a record whose data ends at `position`.
RecordDone(position) ==
    /\ phase' = "next"
    /\ offset' = position
    /\ remaining' = remaining - 1
    /\ name' = NoName
    /\ pending' = NoRecord
    /\ UNCHANGED <<size, questions>>

PushRecord(record) ==
    /\ records' = Append(records, record)
    /\ RecordDone(record.at + record.length)

\* Type, class and data length of a record, and its target name if it has one.
ReadRecord ==
    /\ phase = "record"
    /\ \E type \in RecordTypes, internet \in BOOLEAN, length \in DataSizes :
         LET record == [type |-> type, at |-> offset + FixedBytes, length |-> length]
         IN  \/ /\ record.at + length > size
                /\ ParserFails
             \/ /\ record.at + length <= size
                /\ ~internet
                /\ RecordDone(record.at + length)
                /\ UNCHANGED records
             \/ /\ record.at + length <= size
                /\ internet
                /\ type = "ptr" \/ (type = "srv" /\ length >= SrvPrefix)
                /\ ReadName("target", record.at + (IF type = "srv" THEN SrvPrefix ELSE 0))
                /\ offset' = record.at
                /\ pending' = record
                /\ UNCHANGED <<size, questions, remaining, records>>
             \/ /\ record.at + length <= size
                /\ internet
                /\ type # "ptr" /\ ~(type = "srv" /\ length >= SrvPrefix)
                /\ PushRecord(record)

-----------------------------------------------------------------------------
(* read_name *)

Reading == phase \in NamePhases /\ name.steps < MaxSteps

NameGoesOn(cursor, next) ==
    /\ name' = [cursor |-> cursor, next |-> next, steps |-> name.steps + 1]
    /\ UNCHANGED <<phase, size, questions, remaining, offset, pending, records>>

\* What the caller does with the position behind the name.
NameRead(end) ==
    \/ /\ phase = "question"
       /\ IF end + 4 > size
          THEN ParserFails
          ELSE /\ phase' = "next"
               /\ offset' = end + 4
               /\ questions' = questions - 1
               /\ name' = NoName
               /\ UNCHANGED <<size, remaining, pending, records>>
    \/ /\ phase = "owner"
       /\ IF end + FixedBytes > size
          THEN ParserFails
          ELSE /\ phase' = "record"
               /\ offset' = end
               /\ name' = NoName
               /\ UNCHANGED <<size, questions, remaining, pending, records>>
    \/ /\ phase = "target"
       /\ PushRecord(pending)

NameEnd ==
    /\ Reading
    /\ name.cursor < size
    /\ NameRead(IF name.next # None THEN name.next ELSE name.cursor + 1)

\* Mutant: the last pointer of a name tells where the name ends, not the first.
LastPointerWins ==
    /\ Reading
    /\ name.cursor < size
    /\ IF name.cursor + 1 >= size
       THEN ParserFails
       ELSE \E target \in PointerTargets : NameGoesOn(target, name.cursor + 2)

\* Mutant: following a pointer is not a turn of the loop.
PointerForFree ==
    /\ Reading
    /\ name.cursor + 1 < size
    /\ \E target \in PointerTargets :
         name' = [name EXCEPT !.cursor = target,
                              !.next = IF @ # None THEN @ ELSE name.cursor + 2]
    /\ UNCHANGED <<phase, size, questions, remaining, offset, pending, records>>

NamePointer ==
    /\ Reading
    /\ name.cursor < size
    /\ IF name.cursor + 1 >= size
       THEN ParserFails
       ELSE \E target \in PointerTargets :
              NameGoesOn(target,
                         IF name.next # None THEN name.next ELSE name.cursor + 2)

NameLabel ==
    /\ Reading
    /\ name.cursor < size
    /\ \E length \in LabelSizes :
         IF name.cursor + 1 + length > size
         THEN ParserFails
         ELSE NameGoesOn(name.cursor + 1 + length, name.next)

\* A cursor outside the packet, an octet that starts neither a label nor a
\* pointer, or a name that took all the turns of the loop.
NameBad ==
    /\ phase \in NamePhases
    /\ ParserFails

ParseStep == NextItem \/ ReadRecord \/ NameEnd \/ NamePointer \/ NameLabel \/ NameBad

=============================================================================
