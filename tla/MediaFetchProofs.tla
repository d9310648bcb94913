-------------------------- MODULE MediaFetchProofs --------------------------
(***************************************************************************)
(* Proofs about the temporary files of relayed media, for any number of    *)
(* processes, process ids and fetches: who owns which file, what a held    *)
(* file contains, that none grows too long and that none is forgotten.     *)
(***************************************************************************)
EXTENDS MediaFetch, TLAPS

USE MediaFetchAssumption

----------------------------------------------------------------------------
(* The part of the invariant that speaks about files.                      *)
Files == HeldIsFetched /\ SizeBounded /\ FilesAccounted /\ Exclusive

(* Every used path is on disk.                                             *)
LEMMA UsedOnDisk ==
  ASSUME FilesAccounted
  PROVE  \A p \in Processes : HeldPaths(p) \subseteq Used(p) /\ Used(p) \subseteq DOMAIN disk
BY DEF FilesAccounted, Used

(***************************************************************************)
(* A step that neither touches a file nor gives or takes one.              *)
(***************************************************************************)
LEMMA FilesStay ==
  ASSUME Files, UNCHANGED <<body, framed, fileVars>>,
         \A r \in Processes :
           /\ phase'[r] \in WithFile <=> phase[r] \in WithFile
           /\ phase[r] \in WithFile => path'[r] = path[r]
  PROVE  Files'
<1>1. \A r \in Processes : Used(r)' = Used(r) /\ HeldPaths(r)' = HeldPaths(r)
  BY DEF Used, HeldPaths, fileVars
<1>2. HeldIsFetched' /\ SizeBounded'
  BY DEF Files, HeldIsFetched, BodyEnds, SizeBounded, fileVars
<1>3. FilesAccounted'
  BY <1>1 DEF Files, FilesAccounted, fileVars
<1>4. Exclusive'
  BY <1>1 DEF Files, Exclusive, fileVars
<1> QED BY <1>2, <1>3, <1>4 DEF Files

(***************************************************************************)
(* A process writes its unfinished file.                                   *)
(***************************************************************************)
LEMMA FileWritten ==
  ASSUME Files, NEW p \in Processes, NEW n \in Nat, n <= MaxBytes,
         phase[p] \in WithFile, Put(path[p], fetch[p], n),
         UNCHANGED <<body, framed, held, left>>,
         \A r \in Processes :
           /\ phase'[r] \in WithFile <=> phase[r] \in WithFile
           /\ path'[r] = path[r]
  PROVE  Files' /\ DOMAIN disk' = DOMAIN disk
<1>1. \A r \in Processes : Used(r)' = Used(r) /\ HeldPaths(r)' = HeldPaths(r)
  BY DEF Used, HeldPaths
<1>2. path[p] \in DOMAIN disk
  BY UsedOnDisk DEF Files, Used
<1>3. /\ DOMAIN disk' = DOMAIN disk
      /\ \A q \in DOMAIN disk :
           disk'[q] = IF q = path[p] THEN [fetch |-> fetch[p], length |-> n]
                                     ELSE disk[q]
  BY <1>2 DEF Put
<1>4. \A r \in Processes : path[p] \notin HeldPaths(r)
  BY UsedOnDisk DEF Files, Exclusive, Used
<1>5. HeldIsFetched'
  <2> SUFFICES ASSUME NEW r \in Processes, NEW h \in held[r]
               PROVE  /\ h.path \in DOMAIN disk'
                      /\ disk'[h.path] = [fetch |-> h.fetch, length |-> h.length]
                      /\ BodyEnds(h.fetch, h.length)'
    BY DEF HeldIsFetched
  <2>1. h.path # path[p]
    BY <1>4 DEF HeldPaths
  <2>2. /\ h.path \in DOMAIN disk
        /\ disk[h.path] = [fetch |-> h.fetch, length |-> h.length]
        /\ BodyEnds(h.fetch, h.length)
    BY DEF Files, HeldIsFetched
  <2> QED BY <1>3, <2>1, <2>2 DEF BodyEnds
<1>6. SizeBounded'
  BY <1>3 DEF Files, SizeBounded
<1>7. FilesAccounted'
  BY <1>1, <1>3 DEF Files, FilesAccounted
<1>8. Exclusive'
  BY <1>1 DEF Files, Exclusive
<1> QED BY <1>3, <1>5, <1>6, <1>7, <1>8 DEF Files

(***************************************************************************)
(* A process gives files away: they are removed, but for the ones in stuck,*)
(* which are left.                                                         *)
(***************************************************************************)
LEMMA FilesGiven ==
  ASSUME Files, NEW p \in Processes, NEW paths \in SUBSET Used(p),
         NEW stuck \in SUBSET paths,
         DOMAIN disk' = DOMAIN disk \ (paths \ stuck),
         \A q \in DOMAIN disk' : disk'[q] = disk[q],
         left' = left \cup stuck,
         UNCHANGED <<body, framed>>,
         held'[p] \subseteq held[p],
         Used(p)' = Used(p) \ paths,
         phase'[p] \notin WithFile,
         \A r \in Processes \ {p} :
           held'[r] = held[r] /\ phase'[r] = phase[r] /\ path'[r] = path[r]
  PROVE  Files'
<1>1. \A r \in Processes \ {p} :
        Used(r)' = Used(r) /\ HeldPaths(r)' = HeldPaths(r)
  BY DEF Used, HeldPaths
<1>2. \A r \in Processes : HeldPaths(r)' \subseteq Used(r)' /\ Used(r)' \subseteq Used(r)
  BY <1>1 DEF Used
<1>3. \A r \in Processes : Used(r)' \cap paths = {}
  BY <1>1 DEF Files, Exclusive
<1>4. \A r \in Processes : held'[r] \subseteq held[r]
  OBVIOUS
<1>5. HeldIsFetched'
  <2> SUFFICES ASSUME NEW r \in Processes, NEW h \in held'[r]
               PROVE  /\ h.path \in DOMAIN disk'
                      /\ disk'[h.path] = [fetch |-> h.fetch, length |-> h.length]
                      /\ BodyEnds(h.fetch, h.length)'
    BY DEF HeldIsFetched
  <2>1. /\ h.path \in DOMAIN disk
        /\ disk[h.path] = [fetch |-> h.fetch, length |-> h.length]
        /\ BodyEnds(h.fetch, h.length)'
    BY <1>4 DEF Files, HeldIsFetched, BodyEnds
  <2>2. h.path \notin paths
    BY <1>2, <1>3 DEF HeldPaths
  <2> QED BY <2>1, <2>2
<1>6. SizeBounded'
  BY DEF Files, SizeBounded
<1>7. FilesAccounted'
  <2>1. \A q \in left \cup UNION {Used(r) : r \in Processes} : q \in DOMAIN disk
    BY DEF Files, FilesAccounted
  <2>2. ASSUME NEW q \in DOMAIN disk'
        PROVE  q \in left' \cup UNION {Used(r)' : r \in Processes}
    <3>1. q \in left \/ \E r \in Processes : q \in Used(r)
      BY <2>2 DEF Files, FilesAccounted
    <3>2. q \in Used(p) => q \in stuck \/ q \in Used(p)'
      BY <2>2
    <3> QED BY <1>1, <3>1, <3>2
  <2>3. ASSUME NEW q \in left' \cup UNION {Used(r)' : r \in Processes}
        PROVE  q \in DOMAIN disk'
    <3>1. q \in DOMAIN disk
      BY <1>2, <2>1, <2>3
    <3>2. CASE q \in left
      BY <3>1, <3>2 DEF Files, Exclusive
    <3>3. CASE q \in stuck
      BY <3>1, <3>3
    <3>4. CASE \E r \in Processes : q \in Used(r)'
      BY <1>3, <3>1, <3>4
    <3> QED BY <2>3, <3>2, <3>3, <3>4
  <2>4. DOMAIN disk' = left' \cup UNION {Used(r)' : r \in Processes}
    BY <2>2, <2>3
  <2> QED BY <2>4 DEF FilesAccounted
<1>8. Exclusive'
  <2>1. \A r \in Processes : Used(r)' \cap left' = {}
    BY <1>2, <1>3 DEF Files, Exclusive
  <2>2. \A r, s \in Processes : r # s => Used(r)' \cap Used(s)' = {}
    BY <1>2 DEF Files, Exclusive
  <2>3. \A r \in Processes : \A g, h \in held'[r] : g.path = h.path => g = h
    BY <1>4 DEF Files, Exclusive
  <2>4. \A r \in Processes : phase'[r] \in WithFile => path'[r] \notin HeldPaths(r)'
    BY <1>1 DEF Files, Exclusive
  <2> QED BY <2>1, <2>2, <2>3, <2>4 DEF Exclusive
<1> QED BY <1>5, <1>6, <1>7, <1>8 DEF Files

(***************************************************************************)
(* A new file is made under a name that no file has.                       *)
(***************************************************************************)
LEMMA FileMade ==
  ASSUME Files, NEW p \in Processes, NEW q, q \notin DOMAIN disk,
         Put(q, fetch[p], 0), UNCHANGED <<body, framed, held, left>>,
         phase[p] \notin WithFile, phase'[p] \in WithFile, path'[p] = q,
         \A r \in Processes \ {p} : phase'[r] = phase[r] /\ path'[r] = path[r]
  PROVE  Files'
<1>1. /\ DOMAIN disk' = DOMAIN disk \cup {q}
      /\ \A x \in DOMAIN disk : disk'[x] = disk[x]
      /\ disk'[q] = [fetch |-> fetch[p], length |-> 0]
  BY DEF Put
<1>2. \A r \in Processes \ {p} : Used(r)' = Used(r)
  BY DEF Used, HeldPaths
<1>3. \A r \in Processes : HeldPaths(r)' = HeldPaths(r)
  BY DEF HeldPaths
<1>4. Used(p)' = Used(p) \cup {q}
  BY <1>3 DEF Used
<1>5. q \notin left /\ \A r \in Processes : q \notin Used(r)
  BY DEF Files, FilesAccounted
<1>6. HeldIsFetched'
  BY <1>1 DEF Files, HeldIsFetched, BodyEnds
<1>7. SizeBounded'
  BY <1>1 DEF Files, SizeBounded
<1>8. FilesAccounted'
  <2>1. UNION {Used(r)' : r \in Processes} = {q} \cup UNION {Used(r) : r \in Processes}
    BY <1>2, <1>4
  <2> QED BY <1>1, <2>1 DEF Files, FilesAccounted
<1>9. Exclusive'
  <2>1. \A r \in Processes : Used(r)' \cap left' = {}
    BY <1>2, <1>4, <1>5 DEF Files, Exclusive
  <2>2. \A r, s \in Processes : r # s => Used(r)' \cap Used(s)' = {}
    BY <1>2, <1>4, <1>5 DEF Files, Exclusive
  <2>3. \A r \in Processes : phase'[r] \in WithFile => path'[r] \notin HeldPaths(r)'
    BY <1>3, <1>5, UsedOnDisk DEF Files, Exclusive
  <2> QED BY <2>1, <2>2, <2>3 DEF Files, Exclusive
<1> QED BY <1>6, <1>7, <1>8, <1>9 DEF Files

(***************************************************************************)
(* A session takes over the file that was fetched for it.                  *)
(***************************************************************************)
LEMMA FileHeld ==
  ASSUME Files, NEW p \in Processes, phase[p] \in WithFile,
         held \in [Processes -> SUBSET FetchedFile], NEW n,
         disk[path[p]] = [fetch |-> fetch[p], length |-> n], BodyEnds(fetch[p], n),
         held' = [held EXCEPT ![p] = @ \cup
                    {[path |-> path[p], fetch |-> fetch[p], length |-> n]}],
         phase'[p] \notin WithFile, UNCHANGED <<body, framed, disk, left>>,
         \A r \in Processes \ {p} : phase'[r] = phase[r] /\ path'[r] = path[r]
  PROVE  Files'
<1>1. /\ held'[p] = held[p] \cup {[path |-> path[p], fetch |-> fetch[p], length |-> n]}
      /\ \A r \in Processes \ {p} : held'[r] = held[r]
  OBVIOUS
<1>2. HeldPaths(p)' = HeldPaths(p) \cup {path[p]}
  <2> DEFINE h == [path |-> path[p], fetch |-> fetch[p], length |-> n]
  <2>1. held'[p] = held[p] \cup {h} /\ h.path = path[p]
    BY <1>1
  <2> HIDE DEF h
  <2>2. \A x : x \in HeldPaths(p)' <=> x \in HeldPaths(p) \cup {path[p]}
    BY <2>1 DEF HeldPaths
  <2> QED BY <2>2
<1>3. \A r \in Processes \ {p} : HeldPaths(r)' = HeldPaths(r)
  BY <1>1 DEF HeldPaths
<1>4. \A r \in Processes : Used(r)' = Used(r)
  BY <1>2, <1>3 DEF Used
<1>5. path[p] \in DOMAIN disk /\ path[p] \notin HeldPaths(p)
  BY UsedOnDisk DEF Files, Used, Exclusive
<1>6. HeldIsFetched'
  <2> DEFINE new == [path |-> path[p], fetch |-> fetch[p], length |-> n]
             Good(h) == /\ h.path \in DOMAIN disk
                        /\ disk[h.path] = [fetch |-> h.fetch, length |-> h.length]
                        /\ BodyEnds(h.fetch, h.length)
  <2>1. Good(new)
    BY <1>5
  <2>2. \A r \in Processes : \A h \in held[r] : Good(h)
    BY DEF Files, HeldIsFetched
  <2>3. \A r \in Processes : \A h \in held'[r] : h = new \/ h \in held[r]
    BY <1>1
  <2>4. \A r \in Processes : \A h \in held'[r] : Good(h)
    BY <2>1, <2>2, <2>3
  <2> QED BY <2>4 DEF HeldIsFetched, BodyEnds
<1>7. SizeBounded'
  BY DEF Files, SizeBounded
<1>8. FilesAccounted'
  BY <1>4 DEF Files, FilesAccounted
<1>9. Exclusive'
  <2>1. \A r \in Processes : Used(r)' \cap left' = {}
    BY <1>4 DEF Files, Exclusive
  <2>2. \A r, s \in Processes : r # s => Used(r)' \cap Used(s)' = {}
    BY <1>4 DEF Files, Exclusive
  <2>3. \A r \in Processes : \A g, h \in held'[r] : g.path = h.path => g = h
    BY <1>1, <1>5 DEF Files, Exclusive, HeldPaths
  <2>4. \A r \in Processes : phase'[r] \in WithFile => path'[r] \notin HeldPaths(r)'
    BY <1>3 DEF Files, Exclusive
  <2> QED BY <2>1, <2>2, <2>3, <2>4 DEF Exclusive
<1> QED BY <1>6, <1>7, <1>8, <1>9 DEF Files

----------------------------------------------------------------------------
(* The initial state.                                                      *)
LEMMA InvInit == Init => MediaFetchInv
<1> SUFFICES ASSUME Init PROVE MediaFetchInv
  OBVIOUS
<1> USE DEF Init
<1>1. TypeOK
  BY DEF TypeOK, Phase
<1>2. \A p \in Processes : Used(p) = {}
  BY DEF Used, HeldPaths, WithFile
<1>3. HeldIsFetched /\ SizeBounded /\ FilesAccounted /\ Exclusive
  BY <1>2 DEF HeldIsFetched, SizeBounded, FilesAccounted, Exclusive, WithFile
<1>4. RequestsArePublic /\ Unfinished
  BY DEF RequestsArePublic, Unfinished, BodyEnds, WithFile
<1> QED BY <1>1, <1>3, <1>4 DEF MediaFetchInv

----------------------------------------------------------------------------
(* Every step keeps the invariant.  What it does to the files is one of    *)
(* the cases above; TypeOK and Unfinished speak about the process itself.  *)
LEMMA Together ==
  ASSUME TypeOK', Files', Unfinished'
  PROVE  MediaFetchInv'
<1>1. RequestsArePublic'
  BY DEF RequestsArePublic, Unfinished, BodyEnds
<1> QED BY <1>1 DEF MediaFetchInv, Files

LEMMA StartStep ==
  ASSUME MediaFetchInv, NEW p \in Processes, Start(p)
  PROVE  MediaFetchInv'
<1> USE DEF MediaFetchInv, Start, Goto, Leave, taskVars, fileVars, WithFile
<1>1. TypeOK'
  BY DEF TypeOK, Phase
<1>2. Files'
  BY FilesStay DEF TypeOK, Files
<1>3. Unfinished'
  BY DEF TypeOK, Unfinished, BodyEnds
<1> QED BY <1>1, <1>2, <1>3, Together

LEMMA BeginStep ==
  ASSUME MediaFetchInv, NEW p \in Processes, NEW f \in Fetches, Begin(p, f)
  PROVE  MediaFetchInv'
<1> USE DEF MediaFetchInv, Begin, Goto, Leave, taskVars, fileVars, WithFile
<1>1. TypeOK'
  BY DEF TypeOK, Phase
<1>2. Files'
  BY FilesStay DEF TypeOK, Files
<1>3. Unfinished'
  BY DEF TypeOK, Unfinished, BodyEnds
<1> QED BY <1>1, <1>2, <1>3, Together

LEMMA SendStep ==
  ASSUME MediaFetchInv, NEW p \in Processes, Send(p)
  PROVE  MediaFetchInv'
<1> USE DEF MediaFetchInv, Send, Goto, Leave, taskVars, fileVars, WithFile
<1>1. TypeOK'
  BY DEF TypeOK, Phase
<1>2. Files'
  BY FilesStay DEF TypeOK, Files
<1>3. Unfinished'
  BY DEF TypeOK, Unfinished, BodyEnds
<1> QED BY <1>1, <1>2, <1>3, Together

LEMMA RespondStep ==
  ASSUME MediaFetchInv, NEW p \in Processes, Respond(p)
  PROVE  MediaFetchInv'
<1> USE DEF MediaFetchInv, Respond, Goto, Leave, taskVars, fileVars, WithFile
<1>1. TypeOK'
  BY DEF TypeOK, Phase
<1>2. Files'
  BY FilesStay DEF TypeOK, Files
<1>3. Unfinished'
  BY DEF TypeOK, Unfinished, BodyEnds
<1> QED BY <1>1, <1>2, <1>3, Together

LEMMA GiveUpStep ==
  ASSUME MediaFetchInv, NEW p \in Processes, GiveUp(p)
  PROVE  MediaFetchInv'
<1> USE DEF MediaFetchInv, GiveUp, Goto, Leave, taskVars, fileVars, WithFile
<1>1. TypeOK'
  BY DEF TypeOK, Phase
<1>2. Files'
  BY FilesStay DEF TypeOK, Files
<1>3. Unfinished'
  BY DEF TypeOK, Unfinished, BodyEnds
<1> QED BY <1>1, <1>2, <1>3, Together

LEMMA FinishStep ==
  ASSUME MediaFetchInv, NEW p \in Processes, Finish(p)
  PROVE  MediaFetchInv'
<1> USE DEF MediaFetchInv, Finish, Goto, Leave, taskVars, fileVars, WithFile
<1>1. TypeOK'
  BY DEF TypeOK, Phase
<1>2. Files'
  BY FilesStay DEF TypeOK, Files
<1>3. Unfinished'
  BY DEF TypeOK, Unfinished, BodyEnds
<1> QED BY <1>1, <1>2, <1>3, Together

LEMMA NameStep ==
  ASSUME MediaFetchInv, NEW p \in Processes, Name(p)
  PROVE  MediaFetchInv'
<1> USE DEF MediaFetchInv
<1> DEFINE q == <<pid[p], counter[p]>>
<1>1. q \in Path /\ fetch[p] \in Fetches
  BY DEF Name, TypeOK, Path, Unfinished, BodyEnds
<1>2. CASE UNCHANGED <<phase, path, disk>>
  <2>1. TypeOK'
    BY <1>2 DEF Name, TypeOK
  <2>2. Files'
    BY <1>2, FilesStay DEF Name, Files, fileVars
  <2>3. Unfinished'
    BY <1>2 DEF Name, Unfinished, BodyEnds
  <2> QED BY <2>1, <2>2, <2>3, Together
<1>3. CASE /\ q \notin DOMAIN disk /\ Put(q, fetch[p], 0)
           /\ Goto(p, "opening") /\ path' = [path EXCEPT ![p] = q]
  <2>1. /\ phase'[p] = "opening" /\ path'[p] = q /\ phase[p] \notin WithFile
        /\ \A r \in Processes \ {p} : phase'[r] = phase[r] /\ path'[r] = path[r]
    BY <1>3 DEF Name, Goto, TypeOK, WithFile
  <2>2. Files'
    BY <1>3, <2>1, FileMade DEF Name, Files, WithFile
  <2>3. /\ DOMAIN disk' = DOMAIN disk \cup {q}
        /\ disk'[q] = [fetch |-> fetch[p], length |-> 0]
        /\ \A x \in DOMAIN disk : disk'[x] = disk[x]
    BY <1>3 DEF Put
  <2> HIDE DEF q
  <2>4. TypeOK'
    BY <1>1, <1>3, <2>3 DEF Name, Goto, TypeOK, Phase, WithFile, Content
  <2>5. Unfinished'
    BY <1>1, <2>1, <2>3 DEF Name, Unfinished, BodyEnds, WithFile
  <2> QED BY <2>2, <2>4, <2>5, Together
<1> QED BY <1>2, <1>3 DEF Name

LEMMA WriteStep ==
  ASSUME MediaFetchInv, NEW p \in Processes, NEW n \in Nat, n <= MaxBytes,
         NEW place \in {"reading"}, phase[p] \in {"opening", "reading"},
         Goto(p, place), Put(path[p], fetch[p], n),
         UNCHANGED <<body, framed, begun, fetch, address, path, pid, counter, held, left>>
  PROVE  MediaFetchInv'
<1> USE DEF MediaFetchInv
<1>1. /\ phase[p] \in WithFile /\ phase'[p] = "reading"
      /\ \A r \in Processes \ {p} : phase'[r] = phase[r]
  BY DEF Goto, TypeOK, WithFile
<1>2. Files' /\ DOMAIN disk' = DOMAIN disk
  BY <1>1, FileWritten DEF Files, WithFile
<1>3. path[p] \in DOMAIN disk /\ fetch[p] \in Fetches
  BY <1>1 DEF Unfinished, BodyEnds, WithFile
<1>4. /\ disk'[path[p]] = [fetch |-> fetch[p], length |-> n]
      /\ \A q \in DOMAIN disk : q # path[p] => disk'[q] = disk[q]
  BY <1>3 DEF Put
<1>5. TypeOK'
  BY <1>2, <1>3, <1>4 DEF Goto, TypeOK, Phase, WithFile, Content
<1>6. \A r \in Processes \ {p} : phase[r] \in WithFile => path[r] # path[p]
  BY <1>1 DEF Exclusive, Used
<1>7. Unfinished'
  BY <1>1, <1>2, <1>3, <1>4, <1>6 DEF Unfinished, BodyEnds, WithFile
<1> QED BY <1>2, <1>5, <1>7, Together

LEMMA OpenStep ==
  ASSUME MediaFetchInv, NEW p \in Processes, Open(p)
  PROVE  MediaFetchInv'
BY WriteStep DEF Open

LEMMA ChunkStep ==
  ASSUME MediaFetchInv, NEW p \in Processes, Chunk(p)
  PROVE  MediaFetchInv'
<1>1. disk[path[p]].length \in Nat /\ body[fetch[p]] \in Nat
  BY DEF Chunk, MediaFetchInv, Unfinished, BodyEnds, TypeOK, WithFile, Content
<1>2. PICK n \in disk[path[p]].length + 1 .. body[fetch[p]] :
        n <= MaxBytes /\ Put(path[p], fetch[p], n)
  BY DEF Chunk
<1>3. n \in Nat
  BY <1>1
<1>4. Goto(p, "reading")
  BY DEF Chunk, Goto, taskVars, MediaFetchInv, TypeOK
<1> QED BY <1>2, <1>3, <1>4, WriteStep DEF Chunk, taskVars

(* What a process leaves or removes is gone for it.                        *)
LEMMA RestKept ==
  ASSUME MediaFetchInv, NEW p \in Processes, NEW paths \in SUBSET Used(p),
         NEW place \in {"down", "idle"}, phase'[p] = place,
         fetch'[p] \in Fetches \cup {NoFetch},
         place = "down" => held'[p] = {},
         (DOMAIN disk \ paths) \subseteq DOMAIN disk',
         \A q \in DOMAIN disk' : disk'[q] = disk[q],
         UNCHANGED <<body, framed>>,
         \A r \in Processes \ {p} :
           /\ phase'[r] = phase[r] /\ fetch'[r] = fetch[r]
           /\ address'[r] = address[r] /\ path'[r] = path[r] /\ held'[r] = held[r]
  PROVE  Unfinished'
<1>1. \A r \in Processes \ {p} :
        phase[r] \in WithFile => path[r] \in DOMAIN disk /\ path[r] \notin paths
  BY UsedOnDisk DEF MediaFetchInv, Exclusive, Used
<1> QED BY <1>1 DEF MediaFetchInv, Unfinished, BodyEnds, WithFile

LEMMA ExitStep ==
  ASSUME MediaFetchInv, NEW p \in Processes, Exit(p)
  PROVE  MediaFetchInv'
<1> USE DEF MediaFetchInv
<1>1. PICK stuck \in SUBSET HeldPaths(p) :
        /\ disk' = [q \in DOMAIN disk \ (HeldPaths(p) \ stuck) |-> disk[q]]
        /\ left' = left \cup stuck
  BY DEF Exit, Remove
<1>2. /\ HeldPaths(p) \subseteq Used(p) /\ Used(p) \subseteq DOMAIN disk
      /\ Used(p) = HeldPaths(p) /\ DOMAIN disk \subseteq Path
  BY UsedOnDisk DEF Exit, Used, WithFile, TypeOK
<1>3. /\ held'[p] = {} /\ phase'[p] = "down" /\ fetch'[p] = NoFetch
      /\ \A r \in Processes \ {p} :
           /\ phase'[r] = phase[r] /\ fetch'[r] = fetch[r]
           /\ address'[r] = address[r] /\ path'[r] = path[r] /\ held'[r] = held[r]
  BY DEF Exit, Leave, Goto, TypeOK
<1>4. Used(p)' = {}
  BY <1>3 DEF Used, HeldPaths, WithFile
<1>5. Files'
  <2>1. PICK paths \in SUBSET Used(p) : paths = HeldPaths(p)
    BY <1>2
  <2>2. /\ stuck \in SUBSET paths
        /\ DOMAIN disk' = DOMAIN disk \ (paths \ stuck)
        /\ \A q \in DOMAIN disk' : disk'[q] = disk[q]
        /\ left' = left \cup stuck
        /\ Used(p)' = Used(p) \ paths
    BY <1>1, <1>2, <1>4, <2>1
  <2>3. /\ Files /\ UNCHANGED <<body, framed>> /\ held'[p] \subseteq held[p]
        /\ phase'[p] \notin WithFile
        /\ \A r \in Processes \ {p} :
             held'[r] = held[r] /\ phase'[r] = phase[r] /\ path'[r] = path[r]
    BY <1>3 DEF Exit, Files, WithFile
  <2> QED BY <2>1, <2>2, <2>3, FilesGiven
<1>6. TypeOK'
  BY <1>1, <1>2 DEF Exit, Leave, Goto, TypeOK, Phase
<1>7. Unfinished'
  BY <1>1, <1>2, <1>3, RestKept DEF Exit
<1> QED BY <1>5, <1>6, <1>7, Together

LEMMA KillStep ==
  ASSUME MediaFetchInv, NEW p \in Processes, Kill(p)
  PROVE  MediaFetchInv'
<1> USE DEF MediaFetchInv
<1>1. Used(p) \subseteq DOMAIN disk /\ DOMAIN disk \subseteq Path
  BY UsedOnDisk DEF TypeOK
<1>2. /\ held'[p] = {} /\ phase'[p] = "down" /\ fetch'[p] = NoFetch
      /\ \A r \in Processes \ {p} :
           /\ phase'[r] = phase[r] /\ fetch'[r] = fetch[r]
           /\ address'[r] = address[r] /\ path'[r] = path[r] /\ held'[r] = held[r]
  BY DEF Kill, Leave, Goto, TypeOK
<1>3. Used(p)' = {}
  BY <1>2 DEF Used, HeldPaths, WithFile
<1>4. DOMAIN disk' = DOMAIN disk \ (Used(p) \ Used(p)) /\ left' = left \cup Used(p)
  BY DEF Kill
<1>5. Files'
  <2>1. PICK paths \in SUBSET Used(p) : paths = Used(p)
    BY <1>1
  <2>2. /\ DOMAIN disk' = DOMAIN disk \ (paths \ paths)
        /\ \A q \in DOMAIN disk' : disk'[q] = disk[q]
        /\ left' = left \cup paths
        /\ Used(p)' = Used(p) \ paths
    BY <1>3, <1>4, <2>1 DEF Kill
  <2>3. /\ Files /\ UNCHANGED <<body, framed>> /\ held'[p] \subseteq held[p]
        /\ phase'[p] \notin WithFile
        /\ \A r \in Processes \ {p} :
             held'[r] = held[r] /\ phase'[r] = phase[r] /\ path'[r] = path[r]
    BY <1>2 DEF Kill, Files, WithFile
  <2> QED BY <2>1, <2>2, <2>3, FilesGiven
<1>6. TypeOK'
  BY <1>1 DEF Kill, Leave, Goto, TypeOK, Phase
<1>7. Unfinished'
  BY <1>2, RestKept DEF Kill
<1> QED BY <1>5, <1>6, <1>7, Together

LEMMA FailStep ==
  ASSUME MediaFetchInv, NEW p \in Processes, Fail(p)
  PROVE  MediaFetchInv'
<1> USE DEF MediaFetchInv
<1>1. PICK stuck \in SUBSET {path[p]} :
        /\ disk' = [q \in DOMAIN disk \ ({path[p]} \ stuck) |-> disk[q]]
        /\ left' = left \cup stuck
  BY DEF Fail, Remove
<1>2. /\ path[p] \in Used(p) /\ Used(p) \subseteq DOMAIN disk
      /\ path[p] \notin HeldPaths(p) /\ DOMAIN disk \subseteq Path
  BY UsedOnDisk DEF Fail, Used, Exclusive, TypeOK
<1>3. /\ phase'[p] = "idle" /\ fetch'[p] = NoFetch /\ UNCHANGED <<held, body, framed>>
      /\ \A r \in Processes \ {p} :
           /\ phase'[r] = phase[r] /\ fetch'[r] = fetch[r]
           /\ address'[r] = address[r] /\ path'[r] = path[r]
  BY DEF Fail, Leave, Goto, TypeOK
<1>4. Used(p)' = Used(p) \ {path[p]}
  BY <1>2, <1>3 DEF Fail, Used, HeldPaths, WithFile
<1>5. Files'
  <2>1. PICK paths \in SUBSET Used(p) : paths = {path[p]}
    BY <1>2
  <2>2. /\ stuck \in SUBSET paths
        /\ DOMAIN disk' = DOMAIN disk \ (paths \ stuck)
        /\ \A q \in DOMAIN disk' : disk'[q] = disk[q]
        /\ left' = left \cup stuck
        /\ Used(p)' = Used(p) \ paths
    BY <1>1, <1>2, <1>4, <2>1
  <2>3. /\ Files /\ UNCHANGED <<body, framed>> /\ held'[p] \subseteq held[p]
        /\ phase'[p] \notin WithFile
        /\ \A r \in Processes \ {p} :
             held'[r] = held[r] /\ phase'[r] = phase[r] /\ path'[r] = path[r]
    BY <1>3 DEF Files, WithFile
  <2> QED BY <2>1, <2>2, <2>3, FilesGiven
<1>6. TypeOK'
  BY <1>1, <1>2 DEF Fail, Leave, Goto, TypeOK, Phase
<1>7. Unfinished'
  BY <1>1, <1>2, <1>3, RestKept
<1> QED BY <1>5, <1>6, <1>7, Together

LEMMA DropStep ==
  ASSUME MediaFetchInv, NEW p \in Processes, Drop(p)
  PROVE  MediaFetchInv'
<1> USE DEF MediaFetchInv
<1>1. PICK h \in held[p] : Remove({h.path}) /\ held' = [held EXCEPT ![p] = @ \ {h}]
  BY DEF Drop
<1>2. PICK stuck \in SUBSET {h.path} :
        /\ disk' = [q \in DOMAIN disk \ ({h.path} \ stuck) |-> disk[q]]
        /\ left' = left \cup stuck
  BY <1>1 DEF Remove
<1>3. /\ h.path \in Used(p) /\ Used(p) \subseteq DOMAIN disk
      /\ DOMAIN disk \subseteq Path
  BY <1>1, UsedOnDisk DEF HeldPaths, Used, TypeOK
<1>4. /\ phase[p] = "idle" /\ UNCHANGED <<body, framed, taskVars>>
      /\ held'[p] = held[p] \ {h}
      /\ \A r \in Processes \ {p} : held'[r] = held[r]
  BY <1>1 DEF Drop, TypeOK
<1>5. Used(p)' = Used(p) \ {h.path}
  <2>1. \A g \in held[p] : g.path = h.path => g = h
    BY <1>1 DEF Exclusive
  <2> QED BY <1>4, <2>1 DEF Used, HeldPaths, WithFile, taskVars
<1>6. Files'
  <2>1. PICK paths \in SUBSET Used(p) : paths = {h.path}
    BY <1>3
  <2>2. /\ stuck \in SUBSET paths
        /\ DOMAIN disk' = DOMAIN disk \ (paths \ stuck)
        /\ \A q \in DOMAIN disk' : disk'[q] = disk[q]
        /\ left' = left \cup stuck
        /\ Used(p)' = Used(p) \ paths
    BY <1>2, <1>3, <1>5, <2>1
  <2>3. /\ Files /\ UNCHANGED <<body, framed>> /\ held'[p] \subseteq held[p]
        /\ phase'[p] \notin WithFile
        /\ \A r \in Processes \ {p} :
             held'[r] = held[r] /\ phase'[r] = phase[r] /\ path'[r] = path[r]
    BY <1>4 DEF Files, WithFile, taskVars
  <2> QED BY <2>1, <2>2, <2>3, FilesGiven
<1>7. TypeOK'
  BY <1>1, <1>2, <1>3 DEF Drop, TypeOK, taskVars
<1>8. Unfinished'
  <2>1. fetch'[p] \in Fetches \cup {NoFetch} /\ phase'[p] = "idle"
    BY <1>4 DEF TypeOK, taskVars
  <2> QED BY <1>2, <1>3, <1>4, <2>1, RestKept DEF taskVars
<1> QED BY <1>6, <1>7, <1>8, Together

LEMMA HoldStep ==
  ASSUME MediaFetchInv, NEW p \in Processes, Hold(p)
  PROVE  MediaFetchInv'
<1> USE DEF MediaFetchInv
<1> DEFINE n == disk[path[p]].length
<1>1. /\ phase[p] = "fetched" /\ fetch[p] \in Fetches
      /\ path[p] \in DOMAIN disk /\ path[p] \in Path
      /\ disk[path[p]] \in Content
      /\ disk[path[p]].fetch = fetch[p] /\ BodyEnds(fetch[p], n)
  BY DEF Hold, Unfinished, BodyEnds, WithFile, TypeOK
<1>2. disk[path[p]] = [fetch |-> fetch[p], length |-> n] /\ n \in Nat
  BY <1>1 DEF Content
<1>3. /\ phase'[p] = "idle" /\ fetch'[p] = NoFetch
      /\ UNCHANGED <<body, framed, disk, left>>
      /\ \A r \in Processes \ {p} :
           /\ phase'[r] = phase[r] /\ fetch'[r] = fetch[r]
           /\ address'[r] = address[r] /\ path'[r] = path[r] /\ held'[r] = held[r]
  BY DEF Hold, Leave, Goto, TypeOK
<1>4. Files'
  BY <1>1, <1>2, <1>3, FileHeld DEF Hold, Files, WithFile, TypeOK
<1>5. held' \in [Processes -> SUBSET FetchedFile]
  <2>1. [path |-> path[p], fetch |-> fetch[p], length |-> n] \in FetchedFile
    BY <1>1, <1>2 DEF FetchedFile
  <2> QED BY <2>1 DEF Hold, TypeOK
<1>6. TypeOK'
  BY <1>5 DEF Hold, Leave, Goto, TypeOK, Phase
<1>7. Unfinished'
  BY <1>3, RestKept
<1> QED BY <1>4, <1>6, <1>7, Together

LEMMA InvStep == MediaFetchInv /\ [Next]_vars => MediaFetchInv'
<1> SUFFICES ASSUME MediaFetchInv, [Next]_vars PROVE MediaFetchInv'
  OBVIOUS
<1>1. ASSUME NEW p \in Processes, Start(p) \/ Exit(p) \/ Kill(p)
      PROVE  MediaFetchInv'
  BY <1>1, StartStep, ExitStep, KillStep
<1>2. ASSUME NEW p \in Processes, NEW f \in Fetches, Begin(p, f)
      PROVE  MediaFetchInv'
  BY <1>2, BeginStep
<1>3. ASSUME NEW p \in Processes, Send(p) \/ Respond(p) \/ GiveUp(p)
      PROVE  MediaFetchInv'
  BY <1>3, SendStep, RespondStep, GiveUpStep
<1>4. ASSUME NEW p \in Processes,
             Name(p) \/ Open(p) \/ Chunk(p) \/ Finish(p) \/ Fail(p)
      PROVE  MediaFetchInv'
  BY <1>4, NameStep, OpenStep, ChunkStep, FinishStep, FailStep
<1>5. ASSUME NEW p \in Processes, Hold(p) \/ Drop(p)
      PROVE  MediaFetchInv'
  BY <1>5, HoldStep, DropStep
<1>6. CASE UNCHANGED vars
  <2>1. Files'
    BY <1>6, FilesStay DEF vars, taskVars, fileVars, MediaFetchInv, Files
  <2>2. TypeOK' /\ Unfinished'
    BY <1>6 DEF vars, taskVars, fileVars, MediaFetchInv, TypeOK, Unfinished, BodyEnds
  <2> QED BY <2>1, <2>2, Together
<1> QED BY <1>1, <1>2, <1>3, <1>4, <1>5, <1>6 DEF Next

----------------------------------------------------------------------------
(* The inductive invariant of the temporary files, types included.         *)
THEOREM MediaFetchInvariance == Spec => []MediaFetchInv
BY InvInit, InvStep, PTL DEF Spec

(***************************************************************************)
(* The file of a session keeps what was fetched for it, whole where the    *)
(* response said where its body ends.                                      *)
(***************************************************************************)
THEOREM HeldIsFetchedAlways == Spec => []HeldIsFetched
<1>1. MediaFetchInv => HeldIsFetched
  BY DEF MediaFetchInv
<1> QED BY <1>1, MediaFetchInvariance, PTL

(***************************************************************************)
(* No file is longer than the maximum.                                     *)
(***************************************************************************)
THEOREM SizeBoundedAlways == Spec => []SizeBounded
<1>1. MediaFetchInv => SizeBounded
  BY DEF MediaFetchInv
<1> QED BY <1>1, MediaFetchInvariance, PTL

(***************************************************************************)
(* No failure leaves a file behind.                                        *)
(***************************************************************************)
THEOREM FilesAccountedAlways == Spec => []FilesAccounted
<1>1. MediaFetchInv => FilesAccounted
  BY DEF MediaFetchInv
<1> QED BY <1>1, MediaFetchInvariance, PTL

(***************************************************************************)
(* A request is sent to no private or local address.                       *)
(***************************************************************************)
THEOREM RequestsArePublicAlways == Spec => []RequestsArePublic
<1>1. MediaFetchInv => RequestsArePublic
  BY DEF MediaFetchInv
<1> QED BY <1>1, MediaFetchInvariance, PTL
=============================================================================
