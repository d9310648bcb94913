----------------------------- MODULE MediaFetch -----------------------------
(***************************************************************************)
(* How crates/media-fetcher/src/lib.rs fetches relayed media into          *)
(* temporary files, and how the companion keeps and drops them.            *)
(*                                                                         *)
(* Every companion process fetches for itself, one resource at a time, but *)
(* all of them use one directory, where a file is named by the process id  *)
(* and a counter.  Processes are killed and leave files behind, and their  *)
(* ids are given out again.                                                *)
(***************************************************************************)
EXTENDS Naturals

CONSTANTS
  Processes,  \* companion processes that may run at the same time
  Pids,       \* process ids
  Fetches,    \* the relayed loads; each is tried once
  NoFetch,
  Bodies,     \* lengths a resource may have
  MaxBytes    \* UrlPolicy::max_resource_bytes

ASSUME MediaFetchAssumption ==
  /\ NoFetch \notin Fetches
  /\ Bodies \subseteq Nat
  /\ MaxBytes \in Nat

VARIABLES
  body,     \* the length of each resource at its server
  framed,   \* the fetches whose response says where its body ends
  begun,    \* the fetches that were tried
  phase,    \* where each process stands in fetch_to_file
  fetch,    \* the one it works on
  address,  \* the address its client is pinned to
  path,     \* the path of its unfinished file
  pid,      \* std::process::id()
  counter,  \* FILE_COUNTER
  held,     \* the FetchedFile values its sessions own
  disk,     \* the files of the directory: path -> contents
  left      \* history: files on disk that nobody will remove any more

taskVars == <<phase, fetch, address, path>>
fileVars == <<held, disk, left>>
vars == <<body, framed, begun, taskVars, pid, counter, fileVars>>

----------------------------------------------------------------------------
(* Addresses.  An IPv4 address is public or not; an IPv6 address carries   *)
(* one (::ffff:0:0/96, 64:ff9b::/96), lies in a range that is refused as a *)
(* whole, or is neither.                                                   *)
Address == [range: {"v4", "mapped", "nat64", "reserved", "global"},
            v4: {"public", "private"}]

PrivateOrLocal(a) ==
  \/ a.range = "reserved"
  \/ a.range \in {"v4", "mapped", "nat64"} /\ a.v4 = "private"

NoAddress == [range |-> "none"]

----------------------------------------------------------------------------
Path == Pids \X Nat
NoPath == <<>>

\* What a file holds: a prefix of the body of some fetch.
Content == [fetch: Fetches, length: Nat]

FetchedFile == [path: Path, fetch: Fetches, length: Nat]

Put(q, f, n) ==
  disk' = [x \in DOMAIN disk \cup {q} |->
             IF x = q THEN [fetch |-> f, length |-> n] ELSE disk[x]]

WithFile == {"opening", "reading", "fetched"}
Phase == WithFile \cup {"down", "idle", "resolved", "requesting", "naming"}

HeldPaths(p) == {h.path : h \in held[p]}
Used(p) == HeldPaths(p) \cup (IF phase[p] \in WithFile THEN {path[p]} ELSE {})

Init ==
  /\ body \in [Fetches -> Bodies]
  /\ framed \in SUBSET Fetches
  /\ begun = {}
  /\ phase = [p \in Processes |-> "down"]
  /\ fetch = [p \in Processes |-> NoFetch]
  /\ address = [p \in Processes |-> NoAddress]
  /\ path = [p \in Processes |-> NoPath]
  /\ pid \in [Processes -> Pids]
  /\ counter = [p \in Processes |-> 0]
  /\ held = [p \in Processes |-> {}]
  /\ disk = [q \in {} |-> NoPath]
  /\ left = {}

Goto(p, place) == phase' = [phase EXCEPT ![p] = place]

\* fetch_to_file is over, or its caller is.
Leave(p, place) ==
  /\ Goto(p, place)
  /\ fetch' = [fetch EXCEPT ![p] = NoFetch]
  /\ address' = [address EXCEPT ![p] = NoAddress]
  /\ path' = [path EXCEPT ![p] = NoPath]

(* Files are removed; the ones in stuck cannot be, which nobody notices.   *)
Remove(paths) ==
  \E stuck \in SUBSET paths :
    /\ disk' = [q \in DOMAIN disk \ (paths \ stuck) |-> disk[q]]
    /\ left' = left \cup stuck

----------------------------------------------------------------------------
(* Processes.                                                              *)
Start(p) ==
  /\ phase[p] = "down"
  /\ \E id \in Pids \ {pid[q] : q \in {x \in Processes : phase[x] # "down"}} :
       pid' = [pid EXCEPT ![p] = id]
  /\ counter' = [counter EXCEPT ![p] = 0]
  /\ Goto(p, "idle")
  /\ UNCHANGED <<body, framed, begun, fetch, address, path, fileVars>>

\* main returns and drops the sessions' files.
Exit(p) ==
  /\ phase[p] = "idle"
  /\ Remove(HeldPaths(p))
  /\ held' = [held EXCEPT ![p] = {}]
  /\ Leave(p, "down")
  /\ UNCHANGED <<body, framed, begun, pid, counter>>

Kill(p) ==
  /\ phase[p] # "down"
  /\ left' = left \cup Used(p)
  /\ held' = [held EXCEPT ![p] = {}]
  /\ Leave(p, "down")
  /\ UNCHANGED <<body, framed, begun, pid, counter, disk>>

----------------------------------------------------------------------------
(* fetch_to_file.                                                          *)

(***************************************************************************)
(* The URL is checked and its host looked up.  The client is pinned to the *)
(* first address that is not private; the URL may be refused, there may be *)
(* no such address, or a header may not be allowed.                        *)
(***************************************************************************)
Begin(p, f) ==
  /\ phase[p] = "idle" /\ f \notin begun
  /\ begun' = begun \cup {f}
  /\ \/ UNCHANGED taskVars
     \/ /\ \E a \in Address :
             ~PrivateOrLocal(a) /\ address' = [address EXCEPT ![p] = a]
        /\ Goto(p, "resolved")
        /\ fetch' = [fetch EXCEPT ![p] = f]
        /\ UNCHANGED path
  /\ UNCHANGED <<body, framed, pid, counter, fileVars>>

\* Mutant: the host is looked up again when the request is sent.
SendResolving(p) ==
  /\ phase[p] = "resolved"
  /\ \E a \in Address : address' = [address EXCEPT ![p] = a]
  /\ Goto(p, "requesting")
  /\ UNCHANGED <<body, framed, begun, fetch, path, pid, counter, fileVars>>

Send(p) ==
  /\ phase[p] = "resolved"
  /\ Goto(p, "requesting")
  /\ UNCHANGED <<body, framed, begun, fetch, address, path, pid, counter, fileVars>>

\* A success that does not declare too long a body.
Respond(p) ==
  /\ phase[p] = "requesting"
  /\ Goto(p, "naming")
  /\ UNCHANGED <<body, framed, begun, fetch, address, path, pid, counter, fileVars>>

(***************************************************************************)
(* No connection, a redirect, another status, a declared length above the  *)
(* maximum, or no temporary directory.                                     *)
(***************************************************************************)
GiveUp(p) ==
  /\ phase[p] \in {"requesting", "naming"}
  /\ Leave(p, "idle")
  /\ UNCHANGED <<body, framed, begun, pid, counter, fileVars>>

\* Mutant: the counter is not advanced.
NameUncounted(p) ==
  /\ phase[p] = "naming"
  /\ LET q == <<pid[p], counter[p]>>
     IN \/ q \in DOMAIN disk /\ UNCHANGED <<phase, path, disk>>
        \/ /\ q \notin DOMAIN disk /\ Put(q, fetch[p], 0)
           /\ Goto(p, "opening") /\ path' = [path EXCEPT ![p] = q]
  /\ UNCHANGED <<body, framed, begun, fetch, address, pid, counter, held, left>>

(***************************************************************************)
(* One turn of temporary_path: the next name is taken, unless a file has   *)
(* it.                                                                     *)
(***************************************************************************)
Name(p) ==
  /\ phase[p] = "naming"
  /\ counter' = [counter EXCEPT ![p] = @ + 1]
  /\ LET q == <<pid[p], counter[p]>>
     IN \/ q \in DOMAIN disk /\ UNCHANGED <<phase, path, disk>>
        \/ /\ q \notin DOMAIN disk /\ Put(q, fetch[p], 0)
           /\ Goto(p, "opening") /\ path' = [path EXCEPT ![p] = q]
  /\ UNCHANGED <<body, framed, begun, fetch, address, pid, held, left>>

\* File::create truncates what is there.
Open(p) ==
  /\ phase[p] = "opening"
  /\ Put(path[p], fetch[p], 0)
  /\ Goto(p, "reading")
  /\ UNCHANGED <<body, framed, begun, fetch, address, path, pid, counter, held, left>>

\* Mutant: the file is not removed.
FailKeeping(p) ==
  /\ phase[p] \in WithFile
  /\ Leave(p, "idle")
  /\ UNCHANGED <<body, framed, begun, pid, counter, fileVars>>

(***************************************************************************)
(* Opening, reading, writing or flushing fails, the body is too long, or   *)
(* the receiver or dispatch refuses what was fetched: the file goes.       *)
(***************************************************************************)
Fail(p) ==
  /\ phase[p] \in WithFile
  /\ Remove({path[p]})
  /\ Leave(p, "idle")
  /\ UNCHANGED <<body, framed, begun, pid, counter, held>>

(***************************************************************************)
(* A chunk is written, unless the file would become too long: then Fail is *)
(* what follows.                                                           *)
(***************************************************************************)
Chunk(p) ==
  /\ phase[p] = "reading"
  /\ \E n \in disk[path[p]].length + 1 .. body[fetch[p]] :
       n <= MaxBytes /\ Put(path[p], fetch[p], n)
  /\ UNCHANGED <<body, framed, begun, taskVars, pid, counter, held, left>>

(***************************************************************************)
(* chunk() returns None.  The HTTP library returns an error instead if the *)
(* body is shorter than a declared length or its last chunk is missing; a  *)
(* body that only the end of the connection delimits may be cut anywhere.  *)
(***************************************************************************)
BodyEnds(f, length) == f \in framed => length = body[f]

\* Mutant: the loop ends at an error of chunk() as it does at None.
FinishAtError(p) ==
  /\ phase[p] = "reading"
  /\ Goto(p, "fetched")
  /\ UNCHANGED <<body, framed, begun, fetch, address, path, pid, counter, fileVars>>

Finish(p) ==
  /\ phase[p] = "reading" /\ BodyEnds(fetch[p], disk[path[p]].length)
  /\ Goto(p, "fetched")
  /\ UNCHANGED <<body, framed, begun, fetch, address, path, pid, counter, fileVars>>

----------------------------------------------------------------------------
(* The companion: load_session keeps the file, close_session drops it.     *)
Hold(p) ==
  /\ phase[p] = "fetched"
  /\ held' = [held EXCEPT ![p] = @ \cup
       {[path |-> path[p], fetch |-> fetch[p], length |-> disk[path[p]].length]}]
  /\ Leave(p, "idle")
  /\ UNCHANGED <<body, framed, begun, pid, counter, disk, left>>

Drop(p) ==
  /\ phase[p] = "idle"
  /\ \E h \in held[p] :
       Remove({h.path}) /\ held' = [held EXCEPT ![p] = @ \ {h}]
  /\ UNCHANGED <<body, framed, begun, taskVars, pid, counter>>

Next ==
  \E p \in Processes :
    \/ Start(p) \/ Exit(p) \/ Kill(p)
    \/ \E f \in Fetches : Begin(p, f)
    \/ Send(p) \/ Respond(p) \/ GiveUp(p)
    \/ Name(p) \/ Open(p) \/ Chunk(p) \/ Finish(p) \/ Fail(p)
    \/ Hold(p) \/ Drop(p)

Spec == Init /\ [][Next]_vars

\* The loop of temporary_path is not interrupted.
FairSpec == Spec /\ \A p \in Processes : WF_vars(Name(p))

----------------------------------------------------------------------------
TypeOK ==
  /\ body \in [Fetches -> Nat]
  /\ framed \subseteq Fetches
  /\ begun \subseteq Fetches
  /\ phase \in [Processes -> Phase]
  /\ fetch \in [Processes -> Fetches \cup {NoFetch}]
  /\ address \in [Processes -> Address \cup {NoAddress}]
  /\ path \in [Processes -> Path \cup {NoPath}]
  /\ pid \in [Processes -> Pids]
  /\ counter \in [Processes -> Nat]
  /\ held \in [Processes -> SUBSET FetchedFile]
  /\ DOMAIN disk \subseteq Path
  /\ \A q \in DOMAIN disk : disk[q] \in Content
  /\ left \subseteq Path

(***************************************************************************)
(* The file of a session is there and holds what was fetched for it, as    *)
(* many bytes as FetchedFile.length says, as long as the session keeps it, *)
(* whatever other processes with whatever ids did in the directory before  *)
(* or do meanwhile.  It is the whole resource, unless the response left it *)
(* to the end of the connection to say where it ends.                      *)
(***************************************************************************)
HeldIsFetched ==
  \A p \in Processes : \A h \in held[p] :
    /\ h.path \in DOMAIN disk
    /\ disk[h.path] = [fetch |-> h.fetch, length |-> h.length]
    /\ BodyEnds(h.fetch, h.length)

(***************************************************************************)
(* No file is ever longer than the maximum, also when the server does not  *)
(* declare a length, and also when the process is killed on the way.       *)
(***************************************************************************)
SizeBounded == \A q \in DOMAIN disk : disk[q].length <= MaxBytes

(***************************************************************************)
(* A file in the directory belongs to a fetch under way or to a session,   *)
(* or was left there by a process that was killed or could not remove it:  *)
(* no failure leaves one behind.                                           *)
(***************************************************************************)
FilesAccounted == DOMAIN disk = left \cup UNION {Used(p) : p \in Processes}

(***************************************************************************)
(* A request is sent to no private or local address, although the host may *)
(* resolve to another one by then.                                         *)
(***************************************************************************)
RequestsArePublic ==
  \A p \in Processes :
    phase[p] = "requesting" => address[p] \in Address /\ ~PrivateOrLocal(address[p])

(***************************************************************************)
(* The inductive invariant: no path is used twice, and the unfinished file *)
(* of a process is a prefix of its own fetch.                              *)
(***************************************************************************)
Exclusive ==
  /\ \A p \in Processes : Used(p) \cap left = {}
  /\ \A p, r \in Processes : p # r => Used(p) \cap Used(r) = {}
  /\ \A p \in Processes : \A g, h \in held[p] : g.path = h.path => g = h
  /\ \A p \in Processes : phase[p] \in WithFile => path[p] \notin HeldPaths(p)

Unfinished ==
  \A p \in Processes :
    /\ phase[p] \notin {"down", "idle"} => fetch[p] \in Fetches
    /\ phase[p] \in {"resolved", "requesting"} =>
         address[p] \in Address /\ ~PrivateOrLocal(address[p])
    /\ phase[p] = "down" => held[p] = {}
    /\ phase[p] \in WithFile =>
         path[p] \in DOMAIN disk /\ disk[path[p]].fetch = fetch[p]
    /\ phase[p] = "fetched" => BodyEnds(fetch[p], disk[path[p]].length)

MediaFetchInv ==
  /\ TypeOK
  /\ HeldIsFetched
  /\ SizeBounded
  /\ FilesAccounted
  /\ RequestsArePublic
  /\ Exclusive
  /\ Unfinished

(***************************************************************************)
(* A name is found, however many files earlier processes with the same id  *)
(* left behind.                                                            *)
(***************************************************************************)
NamingEnds == \A p \in Processes : phase[p] = "naming" ~> phase[p] # "naming"
=============================================================================
