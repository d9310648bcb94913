-------------------------- MODULE TrustFileProofs --------------------------
(***************************************************************************)
(* The trust file is never torn, for any number of processes, process ids  *)
(* and fingerprints, with any call failing and any process dying anywhere. *)
(***************************************************************************)
EXTENDS TrustFile, TLAPS

(* The initial store is the missing file, and no process runs.             *)
LEMMA InvInit == Init => TrustFileInv
BY DEF Init, TrustFileInv, TypeOK, DiskNeverTorn, DistinctPids,
       RenamesItsOwnWrite, Content, Whole, Partial, Running, TempExists

(* Both outcomes of a request are sets of fingerprints.                    *)
LEMMA ApplyType ==
  ASSUME NEW o \in Operation, NEW s \in SUBSET Fingerprints
  PROVE  Apply(o, s) \in SUBSET Fingerprints
BY DEF Apply, Operation

(* Creating or replacing a temporary file keeps the directory well-typed   *)
(* and every other file as it was.                                         *)
LEMMA WriteTempType ==
  ASSUME TypeOK, NEW id \in Pids, NEW c \in Content, WriteTemp(id, c)
  PROVE  /\ DOMAIN temp' = DOMAIN temp \cup {id}
         /\ DOMAIN temp' \subseteq Pids
         /\ temp' \in [DOMAIN temp' -> Content]
         /\ temp'[id] = c
         /\ \A x \in DOMAIN temp \ {id} : temp'[x] = temp[x]
BY DEF TypeOK, WriteTemp

(* A start takes an id no running process has.                             *)
LEMMA StartKeepsInv ==
  ASSUME TrustFileInv, NEW p \in Processes, Start(p)
  PROVE  TrustFileInv'
<1>1. PICK id \in Pids :
        /\ \A q \in Processes : Running(q) => pid[q] # id
        /\ pid' = [pid EXCEPT ![p] = id]
  BY DEF Start
<1>2. TypeOK'
  BY <1>1 DEF Start, TrustFileInv, TypeOK, Content
<1>3. DiskNeverTorn'
  BY DEF Start, TrustFileInv, DiskNeverTorn
<1>4. DistinctPids'
  BY <1>1 DEF Start, TrustFileInv, TypeOK, DistinctPids, Running
<1>5. RenamesItsOwnWrite'
  BY <1>1 DEF Start, TrustFileInv, TypeOK, RenamesItsOwnWrite, TempExists,
              Whole
<1> QED BY <1>2, <1>3, <1>4, <1>5 DEF TrustFileInv

(* create_new only ever adds the file of the process itself, and only if   *)
(* there was none.                                                         *)
LEMMA OpenTempKeepsInv ==
  ASSUME TrustFileInv, NEW p \in Processes, NEW o \in Operation,
         OpenTemp(p, o)
  PROVE  TrustFileInv'
<1>1. pid[p] \in Pids /\ Partial \in Content /\ Apply(o, mem[p]) \in SUBSET Fingerprints
  BY ApplyType DEF TrustFileInv, TypeOK, Partial, Content
<1>2. /\ DOMAIN temp' = DOMAIN temp \cup {pid[p]}
      /\ DOMAIN temp' \subseteq Pids
      /\ temp' \in [DOMAIN temp' -> Content]
      /\ \A x \in DOMAIN temp \ {pid[p]} : temp'[x] = temp[x]
  BY <1>1, WriteTempType DEF OpenTemp, TrustFileInv
<1>3. TypeOK'
  BY <1>1, <1>2 DEF OpenTemp, TrustFileInv, TypeOK
<1>4. DiskNeverTorn'
  BY DEF OpenTemp, TrustFileInv, DiskNeverTorn
<1>5. DistinctPids'
  BY DEF OpenTemp, TrustFileInv, TypeOK, DistinctPids, Running
<1>6. RenamesItsOwnWrite'
  <2> SUFFICES ASSUME NEW q \in Processes, pc'[q] = "written"
               PROVE  TempExists(pid[q])' /\ temp'[pid'[q]] = Whole(next'[q])
    BY DEF RenamesItsOwnWrite, Whole
  <2>1. q # p /\ pc[q] = "written"
    BY DEF OpenTemp, TrustFileInv, TypeOK
  <2>2. pid[q] # pid[p]
    BY <2>1 DEF OpenTemp, TrustFileInv, DistinctPids, Running
  <2>3. TempExists(pid[q]) /\ temp[pid[q]] = Whole(next[q])
    BY <2>1 DEF TrustFileInv, RenamesItsOwnWrite
  <2>4. pid' = pid /\ next'[q] = next[q]
    BY <2>1 DEF OpenTemp, TrustFileInv, TypeOK
  <2> QED BY <1>2, <2>2, <2>3, <2>4 DEF TempExists, Whole
<1> QED BY <1>3, <1>4, <1>5, <1>6 DEF TrustFileInv

(* A complete write leaves the other processes' files alone.               *)
LEMMA WriteAllKeepsInv ==
  ASSUME TrustFileInv, NEW p \in Processes, WriteAll(p)
  PROVE  TrustFileInv'
<1>1. pid[p] \in Pids /\ Whole(next[p]) \in Content
  BY DEF TrustFileInv, TypeOK, Whole, Content
<1>2. /\ DOMAIN temp' = DOMAIN temp \cup {pid[p]}
      /\ DOMAIN temp' \subseteq Pids
      /\ temp' \in [DOMAIN temp' -> Content]
      /\ temp'[pid[p]] = Whole(next[p])
      /\ \A x \in DOMAIN temp \ {pid[p]} : temp'[x] = temp[x]
  BY <1>1, WriteTempType DEF WriteAll, TrustFileInv
<1>3. TypeOK'
  BY <1>2 DEF WriteAll, TrustFileInv, TypeOK
<1>4. DiskNeverTorn'
  BY DEF WriteAll, TrustFileInv, DiskNeverTorn
<1>5. DistinctPids'
  BY DEF WriteAll, TrustFileInv, TypeOK, DistinctPids, Running
<1>6. RenamesItsOwnWrite'
  <2> SUFFICES ASSUME NEW q \in Processes, pc'[q] = "written"
               PROVE  TempExists(pid[q])' /\ temp'[pid'[q]] = Whole(next'[q])
    BY DEF RenamesItsOwnWrite, Whole
  <2>1. pid' = pid /\ next' = next
    BY DEF WriteAll
  <2>2. CASE q = p
    BY <1>2, <2>1, <2>2 DEF TempExists
  <2>3. CASE q # p
    <3>1. pc[q] = "written"
      BY <2>3 DEF WriteAll, TrustFileInv, TypeOK
    <3>2. pid[q] # pid[p]
      BY <2>3, <3>1 DEF WriteAll, TrustFileInv, DistinctPids, Running
    <3>3. TempExists(pid[q]) /\ temp[pid[q]] = Whole(next[q])
      BY <3>1 DEF TrustFileInv, RenamesItsOwnWrite
    <3> QED BY <1>2, <2>1, <3>2, <3>3 DEF TempExists
  <2> QED BY <2>2, <2>3
<1> QED BY <1>3, <1>4, <1>5, <1>6 DEF TrustFileInv

(* The file that replaces the store is a complete one, because it is what  *)
(* this process wrote.                                                     *)
LEMMA RenameKeepsInv ==
  ASSUME TrustFileInv, NEW p \in Processes, Rename(p)
  PROVE  TrustFileInv'
<1>1. TempExists(pid[p]) /\ temp[pid[p]] = Whole(next[p])
  BY DEF Rename, TrustFileInv, RenamesItsOwnWrite
<1>2. Whole(next[p]) \in Content /\ Whole(next[p]).complete
  BY DEF TrustFileInv, TypeOK, Whole, Content
<1>3. /\ DOMAIN temp' = DOMAIN temp \ {pid[p]}
      /\ temp' \in [DOMAIN temp' -> Content]
      /\ \A x \in DOMAIN temp' : temp'[x] = temp[x]
  BY DEF Rename, RemoveTemp, TrustFileInv, TypeOK
<1>4. TypeOK'
  BY <1>1, <1>2, <1>3 DEF Rename, TrustFileInv, TypeOK
<1>5. DiskNeverTorn'
  BY <1>1, <1>2 DEF Rename, DiskNeverTorn
<1>6. DistinctPids'
  BY DEF Rename, TrustFileInv, TypeOK, DistinctPids, Running
<1>7. RenamesItsOwnWrite'
  <2> SUFFICES ASSUME NEW q \in Processes, pc'[q] = "written"
               PROVE  TempExists(pid[q])' /\ temp'[pid'[q]] = Whole(next'[q])
    BY DEF RenamesItsOwnWrite, Whole
  <2>1. q # p /\ pc[q] = "written"
    BY DEF Rename, TrustFileInv, TypeOK
  <2>2. pid[q] # pid[p]
    BY <2>1 DEF Rename, TrustFileInv, DistinctPids, Running
  <2>3. TempExists(pid[q]) /\ temp[pid[q]] = Whole(next[q])
    BY <2>1 DEF TrustFileInv, RenamesItsOwnWrite
  <2>4. pid' = pid /\ next' = next
    BY DEF Rename
  <2> QED BY <1>3, <2>2, <2>3, <2>4 DEF TempExists
<1> QED BY <1>4, <1>5, <1>6, <1>7 DEF TrustFileInv

(* A failed call or a stopped process only moves the program counter back. *)
LEMMA FailOrStopKeepsInv ==
  ASSUME TrustFileInv, NEW p \in Processes, Fail(p) \/ Stop(p)
  PROVE  TrustFileInv'
<1>1. TypeOK'
  BY DEF Fail, Stop, TrustFileInv, TypeOK
<1>2. DiskNeverTorn'
  BY DEF Fail, Stop, TrustFileInv, DiskNeverTorn
<1>3. DistinctPids'
  BY DEF Fail, Stop, TrustFileInv, TypeOK, DistinctPids, Running
<1>4. RenamesItsOwnWrite'
  BY DEF Fail, Stop, TrustFileInv, TypeOK, RenamesItsOwnWrite, TempExists,
         Whole
<1> QED BY <1>1, <1>2, <1>3, <1>4 DEF TrustFileInv

(* Every step of every process keeps the inductive invariant.              *)
LEMMA InvStep ==
  ASSUME TrustFileInv, [Next]_vars
  PROVE  TrustFileInv'
<1>1. CASE UNCHANGED vars
  BY <1>1 DEF vars, TrustFileInv, TypeOK, DiskNeverTorn, DistinctPids,
              RenamesItsOwnWrite, Running, TempExists, Whole
<1>2. CASE Next
  <2> PICK p \in Processes :
        \/ Start(p)
        \/ \E o \in Operation : OpenTemp(p, o)
        \/ WriteAll(p)
        \/ Rename(p)
        \/ Fail(p)
        \/ Stop(p)
    BY <1>2 DEF Next
  <2> QED
    BY StartKeepsInv, OpenTempKeepsInv, WriteAllKeepsInv, RenameKeepsInv,
       FailOrStopKeepsInv
<1> QED BY <1>1, <1>2

----------------------------------------------------------------------------
(* The write protocol keeps its inductive invariant.                       *)
THEOREM TrustFileInvariance == Spec => []TrustFileInv
<1>1. Init => TrustFileInv
  BY InvInit
<1>2. TrustFileInv /\ [Next]_vars => TrustFileInv'
  BY InvStep
<1> QED BY <1>1, <1>2, PTL DEF Spec

(* The trust file is never half written.                                   *)
THEOREM DiskNeverTornAlways == Spec => []DiskNeverTorn
<1>1. TrustFileInv => DiskNeverTorn
  BY DEF TrustFileInv
<1> QED BY <1>1, TrustFileInvariance, PTL

(* What is renamed over the trust file is always the process's own,        *)
(* complete write.                                                         *)
THEOREM RenamesItsOwnWriteAlways == Spec => []RenamesItsOwnWrite
<1>1. TrustFileInv => RenamesItsOwnWrite
  BY DEF TrustFileInv
<1> QED BY <1>1, TrustFileInvariance, PTL

----------------------------------------------------------------------------
(* What a process saves is one step from what it answers from, and what    *)
(* fresh processes answer from is the disk.                                *)

StoreInv == TrustFileInv /\ PendingIsOneStep /\ MemoryMatchesDisk

(* Nothing is pending and nothing runs at first.                           *)
LEMMA StoreInvInit == Init => StoreInv
<1>1. Init => PendingIsOneStep /\ MemoryMatchesDisk
  BY DEF Init, PendingIsOneStep, MemoryMatchesDisk
<1> QED BY <1>1, InvInit DEF StoreInv

(* The rename puts on disk what memory takes.                              *)
LEMMA RenameSaves ==
  ASSUME StoreInv, NEW p \in Processes, Rename(p)
  PROVE  /\ disk'.entries = next[p]
         /\ mem' = [mem EXCEPT ![p] = next[p]]
         /\ mem'[p] = next[p]
<1>1. temp[pid[p]] = Whole(next[p])
  BY DEF Rename, StoreInv, TrustFileInv, RenamesItsOwnWrite
<1>2. disk'.entries = next[p]
  BY ONLY Rename(p), <1>1 DEF Rename, Whole
<1>3. mem' = [mem EXCEPT ![p] = next[p]]
  BY DEF Rename
<1>4. mem'[p] = next[p]
  BY <1>3 DEF StoreInv, TrustFileInv, TypeOK
<1> QED BY <1>2, <1>3, <1>4

(* A request stays pending as it was opened, and the memory takes it when  *)
(* the disk has it.                                                        *)
LEMMA StoreInvStep ==
  ASSUME StoreInv, [Next]_vars
  PROVE  StoreInv'
<1>1. TrustFileInv'
  BY InvStep DEF StoreInv
<1>2. CASE UNCHANGED vars
  <2>1. PendingIsOneStep' /\ MemoryMatchesDisk'
    BY <1>2 DEF vars, StoreInv, PendingIsOneStep, MemoryMatchesDisk, Apply
  <2> QED BY <1>1, <2>1 DEF StoreInv
<1>3. CASE Next
  <2> PICK p \in Processes :
        \/ Start(p)
        \/ \E o \in Operation : OpenTemp(p, o)
        \/ WriteAll(p)
        \/ Rename(p)
        \/ Fail(p)
        \/ Stop(p)
    BY <1>3 DEF Next
  <2> USE DEF StoreInv, TrustFileInv, TypeOK, PendingIsOneStep,
              MemoryMatchesDisk
  <2>1. CASE Start(p)
    <3>1. PendingIsOneStep' /\ MemoryMatchesDisk'
      BY <2>1 DEF Start, Apply
    <3> QED BY <1>1, <3>1
  <2>2. ASSUME NEW o \in Operation, OpenTemp(p, o)
        PROVE  StoreInv'
    <3>1. PendingIsOneStep'
      BY <2>2 DEF OpenTemp, Apply
    <3>2. MemoryMatchesDisk'
      BY <2>2 DEF OpenTemp
    <3> QED BY <1>1, <3>1, <3>2
  <2>3. CASE WriteAll(p)
    <3>1. PendingIsOneStep' /\ MemoryMatchesDisk'
      BY <2>3 DEF WriteAll, Apply
    <3> QED BY <1>1, <3>1
  <2>4. CASE Rename(p)
    <3>1. PendingIsOneStep'
      BY <2>4 DEF Rename, Apply
    <3>2. fresh' = {p}
      BY <2>4 DEF Rename
    <3>3. disk'.entries = next[p] /\ mem'[p] = next[p]
      BY <2>4, RenameSaves
    <3>4. MemoryMatchesDisk'
      BY ONLY <3>2, <3>3 DEF MemoryMatchesDisk
    <3> QED BY <1>1, <3>1, <3>4
  <2>5. CASE Fail(p) \/ Stop(p)
    <3>1. PendingIsOneStep' /\ MemoryMatchesDisk'
      BY <2>5 DEF Fail, Stop, Apply
    <3> QED BY <1>1, <3>1
  <2> QED BY <2>1, <2>2, <2>3, <2>4, <2>5
<1> QED BY <1>2, <1>3

(* A process that loaded or wrote since the last rename answers from what  *)
(* is on disk.                                                             *)
THEOREM MemoryMatchesDiskAlways == Spec => []MemoryMatchesDisk
<1>1. Init => StoreInv
  BY StoreInvInit
<1>2. StoreInv /\ [Next]_vars => StoreInv'
  BY StoreInvStep
<1>3. StoreInv => MemoryMatchesDisk
  BY DEF StoreInv
<1> QED BY <1>1, <1>2, <1>3, PTL DEF Spec

----------------------------------------------------------------------------
(* Any number of processes implement the shared store: a start loads the   *)
(* view, the rename saves it, every other step is a stutter.               *)
LEMMA SharedInit == Init => Shared!Init
BY DEF Init, Shared!Init, Whole

LEMMA SharedStep ==
  ASSUME StoreInv, [Next]_vars
  PROVE  [Shared!Next]_<<disk.entries, mem>>
<1>1. ASSUME NEW p \in Processes, Start(p)
      PROVE  Shared!Next
  <2>1. Shared!Load(p)
    BY <1>1 DEF Start, Shared!Load
  <2> QED BY <2>1 DEF Shared!Next
<1>2. ASSUME NEW p \in Processes, Rename(p)
      PROVE  Shared!Next
  <2>1. Shared!Save(p, next[p])
    BY <1>2, RenameSaves DEF Shared!Save
  <2>2. /\ next[p] = Apply(op[p], mem[p])
        /\ op[p].kind = "forget" => op[p].fp \in mem[p]
    BY <1>2 DEF Rename, StoreInv, PendingIsOneStep
  <2>3. op[p] \in Operation
    BY DEF StoreInv, TrustFileInv, TypeOK
  <2>4. op[p].fp \in Fingerprints /\ op[p].kind \in {"trust", "forget"}
    BY <2>3 DEF Operation
  <2>5. Shared!Trust(p, op[p].fp) \/ Shared!Forget(p, op[p].fp)
    BY <2>1, <2>2, <2>4 DEF Apply, Shared!Trust, Shared!Forget
  <2> QED BY <2>4, <2>5 DEF Shared!Next
<1>3. CASE UNCHANGED <<disk, mem>>
  BY <1>3
<1> QED
  BY <1>1, <1>2, <1>3
     DEF Next, vars, OpenTemp, WriteAll, Fail, Stop

(* However many processes write, fail, die and start again, each write of  *)
(* the file is one process's view with one entry changed.                  *)
THEOREM ProcessesImplementSharedStore == Spec => ImplementsSharedStore
<1>1. Init => StoreInv /\ Shared!Init
  BY StoreInvInit, SharedInit
<1>2. StoreInv /\ [Next]_vars => StoreInv'
  BY StoreInvStep
<1>3. StoreInv /\ [Next]_vars => [Shared!Next]_<<disk.entries, mem>>
  BY SharedStep
<1> QED BY <1>1, <1>2, <1>3, PTL DEF Spec, ImplementsSharedStore, Shared!Spec

----------------------------------------------------------------------------
(* A process that is alone is always fresh.                                *)
SoleIsFresh ==
  \A p \in Processes : Processes = {p} /\ Running(p) => p \in fresh

LEMMA SoleIsFreshStep ==
  ASSUME StoreInv, SoleIsFresh, [Next]_vars
  PROVE  SoleIsFresh'
<1>1. CASE UNCHANGED vars
  BY <1>1 DEF vars, SoleIsFresh, Running
<1>2. CASE Next
  <2> PICK p \in Processes :
        \/ Start(p)
        \/ \E o \in Operation : OpenTemp(p, o)
        \/ WriteAll(p)
        \/ Rename(p)
        \/ Fail(p)
        \/ Stop(p)
    BY <1>2 DEF Next
  <2>1. \A q \in Processes : Processes = {q} => q = p
    OBVIOUS
  <2> USE <2>1 DEF SoleIsFresh, Running, StoreInv, TrustFileInv, TypeOK
  <2>2. CASE Start(p) \/ Rename(p)
    BY <2>2 DEF Start, Rename
  <2>3. ASSUME NEW o \in Operation, OpenTemp(p, o)
        PROVE  SoleIsFresh'
    BY <2>3 DEF OpenTemp
  <2>4. CASE WriteAll(p) \/ Fail(p) \/ Stop(p)
    BY <2>4 DEF WriteAll, Fail, Stop
  <2> QED BY <2>2, <2>3, <2>4
<1> QED BY <1>1, <1>2

(* Initially the abstract store is empty, and a step of the only process   *)
(* is a step of the abstract store: the rename is the trust or the forget, *)
(* every other step is a stutter.                                          *)
LEMMA InitRefines == Init => Store!Init
BY DEF Init, Store!Init, Whole

LEMMA StepRefines ==
  ASSUME StoreInv, SoleIsFresh, [Next]_vars, NEW p, Processes = {p}
  PROVE  [Store!Next]_(disk.entries)
<1>1. CASE Rename(p)
  <2>1. disk'.entries = next[p]
    BY <1>1, RenameSaves
  <2>2. next[p] = Apply(op[p], disk.entries)
    BY <1>1 DEF Rename, StoreInv, PendingIsOneStep, MemoryMatchesDisk,
                SoleIsFresh, Running
  <2>3. op[p] \in Operation
    BY DEF StoreInv, TrustFileInv, TypeOK
  <2>4. op[p].fp \in Fingerprints
    BY <2>3 DEF Operation
  <2>5. Store!Trust(op[p].fp) \/ Store!Forget(op[p].fp)
    BY <2>1, <2>2 DEF Apply, Store!Trust, Store!Forget
  <2> QED BY <2>4, <2>5 DEF Store!Next
<1>2. CASE UNCHANGED disk
  BY <1>2
<1> QED
  BY <1>1, <1>2
     DEF Next, vars, Start, OpenTemp, WriteAll, Fail, Stop

(* One companion process at a time, with any failures, crashes and         *)
(* restarts, implements the abstract trust store.                          *)
THEOREM SoleProcessImplementsTrustStore ==
  ASSUME NEW p, Processes = {p}
  PROVE  Spec => ImplementsTrustStore
<1>1. Init => StoreInv /\ SoleIsFresh /\ Store!Init
  BY StoreInvInit, InitRefines DEF Init, SoleIsFresh, Running
<1>2. StoreInv /\ SoleIsFresh /\ [Next]_vars => StoreInv' /\ SoleIsFresh'
  BY StoreInvStep, SoleIsFreshStep
<1>3. StoreInv /\ SoleIsFresh /\ [Next]_vars => [Store!Next]_(disk.entries)
  BY StepRefines
<1> QED BY <1>1, <1>2, <1>3, PTL DEF Spec, ImplementsTrustStore, Store!Spec
=============================================================================
