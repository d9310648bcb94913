----------------------------- MODULE TrustFile -----------------------------
(***************************************************************************)
(* How crates/receiver-trust/src/lib.rs keeps the trust store on disk.     *)
(* Each companion process loads the file once, answers from memory, and    *)
(* writes the whole set back through a temporary file that carries its     *)
(* process id and is renamed over the store.  Several processes may run at *)
(* once: each extension page that calls the companion (a popup for every   *)
(* window, the background page) has a native port, and a port is a process.*)
(*                                                                         *)
(* The steps of one write are actions of their own, because a process may  *)
(* die, an I/O call may fail and another process may write between them.   *)
(***************************************************************************)
CONSTANTS
  Fingerprints,
  Processes,  \* companion processes that may run at the same time
  Pids        \* process ids; a dead process's id may be given out again

VARIABLES
  disk,  \* trust.json
  temp,  \* the trust.tmp-<pid> files that exist: pid -> contents
  pc,    \* where each process stands in TrustStore::trust or forget
  pid,   \* std::process::id()
  mem,   \* TrustStore.receivers of each process
  next,  \* the clone that is being persisted
  op,    \* the request being served
  fresh  \* history: the processes that loaded or wrote since the last rename

vars == <<disk, temp, pc, pid, mem, next, op, fresh>>

----------------------------------------------------------------------------
(* A file is a set of entries, or the unfinished write of one.             *)
Content == [complete: BOOLEAN, entries: SUBSET Fingerprints]
Whole(s) == [complete |-> TRUE, entries |-> s]
Partial == [complete |-> FALSE, entries |-> {}]

Operation == [kind: {"trust", "forget"}, fp: Fingerprints]

\* Mutant: the new set starts from nothing.
ApplyToNothing(o, s) == IF o.kind = "trust" THEN {o.fp} ELSE {}

Apply(o, s) == IF o.kind = "trust" THEN s \cup {o.fp} ELSE s \ {o.fp}

Running(p) == pc[p] # "down"

TempExists(id) == id \in DOMAIN temp
WriteTemp(id, c) ==
  temp' = [x \in DOMAIN temp \cup {id} |-> IF x = id THEN c ELSE temp[x]]
RemoveTemp(id) == temp' = [x \in DOMAIN temp \ {id} |-> temp[x]]

----------------------------------------------------------------------------
(* No file yet: TrustStore::load answers with the empty store.             *)
Init ==
  /\ disk = Whole({})
  /\ temp = [id \in {} |-> Partial]
  /\ pc = [p \in Processes |-> "down"]
  /\ pid \in [Processes -> Pids]
  /\ mem = [p \in Processes |-> {}]
  /\ next = [p \in Processes |-> {}]
  /\ op \in [Processes -> Operation]
  /\ fresh = {}

(* main: load the store; a file that does not parse ends the process.      *)
Start(p) ==
  /\ ~Running(p)
  /\ disk.complete
  /\ \E id \in Pids :
       /\ \A q \in Processes : Running(q) => pid[q] # id
       /\ pid' = [pid EXCEPT ![p] = id]
  /\ pc' = [pc EXCEPT ![p] = "idle"]
  /\ mem' = [mem EXCEPT ![p] = disk.entries]
  /\ fresh' = fresh \cup {p}
  /\ UNCHANGED <<disk, temp, next, op>>

\* Mutant: memory takes the request before it is on disk.
OpenTempRemembering(p, o) ==
  /\ pc[p] = "idle"
  /\ o.kind = "forget" => o.fp \in mem[p]
  /\ ~TempExists(pid[p])
  /\ WriteTemp(pid[p], Partial)
  /\ pc' = [pc EXCEPT ![p] = "opened"]
  /\ next' = [next EXCEPT ![p] = Apply(o, mem[p])]
  /\ mem' = [mem EXCEPT ![p] = Apply(o, mem[p])]
  /\ op' = [op EXCEPT ![p] = o]
  /\ UNCHANGED <<disk, pid, fresh>>

(***************************************************************************)
(* trust or forget, up to the creation of the temporary file.  forget of   *)
(* an absent entry returns before this.  create_new refuses a name that    *)
(* exists, and then the request has failed: nothing has changed.           *)
(***************************************************************************)
OpenTemp(p, o) ==
  /\ pc[p] = "idle"
  /\ o.kind = "forget" => o.fp \in mem[p]
  /\ ~TempExists(pid[p])
  /\ WriteTemp(pid[p], Partial)
  /\ pc' = [pc EXCEPT ![p] = "opened"]
  /\ next' = [next EXCEPT ![p] = Apply(o, mem[p])]
  /\ op' = [op EXCEPT ![p] = o]
  /\ UNCHANGED <<disk, pid, mem, fresh>>

\* Mutant: one write call that may write less than it was given.
WriteSome(p) ==
  /\ pc[p] = "opened"
  /\ \/ WriteTemp(pid[p], Whole(next[p]))
     \/ UNCHANGED temp
  /\ pc' = [pc EXCEPT ![p] = "written"]
  /\ UNCHANGED <<disk, pid, mem, next, op, fresh>>

(* write_all, sync_all and set_permissions.                                *)
WriteAll(p) ==
  /\ pc[p] = "opened"
  /\ WriteTemp(pid[p], Whole(next[p]))
  /\ pc' = [pc EXCEPT ![p] = "written"]
  /\ UNCHANGED <<disk, pid, mem, next, op, fresh>>

(* rename succeeded: only now does memory take the new set.                *)
Rename(p) ==
  /\ pc[p] = "written"
  /\ disk' = temp[pid[p]]
  /\ RemoveTemp(pid[p])
  /\ pc' = [pc EXCEPT ![p] = "idle"]
  /\ mem' = [mem EXCEPT ![p] = next[p]]
  /\ fresh' = {p}
  /\ UNCHANGED <<pid, next, op>>

(* Any of the calls fails: the error returns past the rest, and the        *)
(* temporary file stays behind.                                            *)
Fail(p) ==
  /\ pc[p] \in {"opened", "written"}
  /\ pc' = [pc EXCEPT ![p] = "idle"]
  /\ UNCHANGED <<disk, temp, pid, mem, next, op, fresh>>

(* The browser closes the port (between requests) or the process is killed *)
(* (anywhere).                                                             *)
Stop(p) ==
  /\ Running(p)
  /\ pc' = [pc EXCEPT ![p] = "down"]
  /\ fresh' = fresh \ {p}
  /\ UNCHANGED <<disk, temp, pid, mem, next, op>>

Next ==
  \E p \in Processes :
    \/ Start(p)
    \/ \E o \in Operation : OpenTemp(p, o)
    \/ WriteAll(p)
    \/ Rename(p)
    \/ Fail(p)
    \/ Stop(p)

Spec == Init /\ [][Next]_vars

----------------------------------------------------------------------------
(* The type invariant: files hold sets of fingerprints, processes stand at *)
(* one of four places.                                                     *)
TypeOK ==
  /\ disk \in Content
  /\ DOMAIN temp \subseteq Pids
  /\ temp \in [DOMAIN temp -> Content]
  /\ pc \in [Processes -> {"down", "idle", "opened", "written"}]
  /\ pid \in [Processes -> Pids]
  /\ mem \in [Processes -> SUBSET Fingerprints]
  /\ next \in [Processes -> SUBSET Fingerprints]
  /\ op \in [Processes -> Operation]
  /\ fresh \subseteq Processes

(***************************************************************************)
(* The store on disk is never half written, whichever call fails, whenever *)
(* a process dies, and however many processes write at once                *)
(* (docs/security-model.md: "The trust file is written atomically").       *)
(***************************************************************************)
DiskNeverTorn == disk.complete

(* Running processes have different ids, so different temporary files.     *)
DistinctPids ==
  \A p, q \in Processes :
    Running(p) /\ Running(q) /\ pid[p] = pid[q] => p = q

(***************************************************************************)
(* What a process is about to rename over the store is what it wrote       *)
(* itself, complete: no stale file of a dead process that had its id and   *)
(* no file of another process ever gets in its place.                      *)
(***************************************************************************)
RenamesItsOwnWrite ==
  \A p \in Processes :
    pc[p] = "written" => TempExists(pid[p]) /\ temp[pid[p]] = Whole(next[p])

(* The inductive invariant of the write protocol.                          *)
TrustFileInv == TypeOK /\ DiskNeverTorn /\ DistinctPids /\ RenamesItsOwnWrite

(***************************************************************************)
(* A process that loaded the file or wrote it since it last changed        *)
(* answers from what is on disk: not after a failed write, and not after a *)
(* crash at any point and a restart, does it remember what it did not      *)
(* save.  The others answer from an older file until they write.           *)
(***************************************************************************)
MemoryMatchesDisk == \A p \in fresh : mem[p] = disk.entries

\* What is being persisted is the request applied to the memory.
PendingIsOneStep ==
  \A p \in Processes :
    pc[p] \in {"opened", "written"} =>
      /\ next[p] = Apply(op[p], mem[p])
      /\ op[p].kind = "forget" => op[p].fp \in mem[p]

(***************************************************************************)
(* Any number of processes, with failures, crashes, restarts and reused    *)
(* process ids, implement the store several views write back to: the file  *)
(* is always one process's view with one entry added or removed, never a   *)
(* mixture of two writes.                                                  *)
(***************************************************************************)
Shared == INSTANCE SharedStore WITH entries <- disk.entries, view <- mem
ImplementsSharedStore == Shared!Spec

(***************************************************************************)
(* One process implements the plain store: the disk changes by one entry   *)
(* at a time.                                                              *)
(***************************************************************************)
Store == INSTANCE TrustStore WITH entries <- disk.entries
ImplementsTrustStore == Store!Spec
=============================================================================
