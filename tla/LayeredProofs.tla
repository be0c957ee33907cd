---------------------------- MODULE LayeredProofs ----------------------------
(***************************************************************************)
(* Proofs about LayeredStorage, for any number of requests, sessions,      *)
(* placeholders and files: the goroutines that save placeholders exclude   *)
(* each other per file, lose no placeholder of one another, and bring none *)
(* back that was cleared; every variable keeps its type, no two operations *)
(* have the same number, and no file stays locked without a job in it; and *)
(* what goroutines in any order, reads that fill the hot tier, clean-ups   *)
(* and restarts make of the messages and maskMetas of a session.           *)
(***************************************************************************)
EXTENDS LayeredStorage, TLAPS, FiniteSetTheorems

USE LayeredAssumption

----------------------------------------------------------------------------
(* The inductive invariant.  Only the fields of requests and jobs that the *)
(* placeholders depend on are given types.                                 *)

IsRequest(r) ==
    DOMAIN r = {"pc", "op", "s", "item", "id", "todo", "over", "dirs"}

IsJob(j) ==
    /\ DOMAIN j = {"op", "s", "item", "id", "pc", "data"}
    /\ j.id \in Nat \ {0}
    /\ j.op = "savePair" => j.item \in Pairs

\* The jobs of the requests that have not started theirs.
Unstarted == {JobOf(p) : p \in {r \in Procs : proc[r].pc = "spawn"}}

Requests ==
    /\ DOMAIN proc = Procs
    /\ proc = [p \in Procs |-> proc[p]]
    /\ \A p \in Procs : IsRequest(proc[p])
    /\ clock \in Nat

JobsFit == \A j \in jobs \cup Unstarted : IsJob(j)

InFile(j) == At(j, "load") \/ At(j, "store")

\* The mutex of a file says which job is in it, and no other is.
MutexHeld ==
    /\ fileMu \in [Files -> Nat]
    /\ \A j \in jobs : InFile(j) => fileMu[FileOfJob(j)] = j.id
    /\ \A j, k \in jobs : InFile(j) /\ InFile(k) /\ FileOfJob(j) = FileOfJob(k) => j = k

\* What a job is about to write back is what it found, and nothing was added since.
DataCurrent ==
    \A j \in jobs : At(j, "store") =>
        /\ files \cap PairsIn(FileOfJob(j)) \subseteq j.data
        /\ j.data \subseteq PairsIn(FileOfJob(j))

\* Nobody is about to write what was cleared.
WipedIsQuiet ==
    /\ wiped \cap PendingPairs = {}
    /\ \A j \in jobs : At(j, "store") => wiped \cap j.data = {}

LayeredInv ==
    /\ Requests /\ JobsFit /\ MutexHeld /\ DataCurrent
    /\ PairsAreKept /\ WipedIsQuiet /\ ClearedIsGone

----------------------------------------------------------------------------
(* Requests and jobs.                                                      *)

LEMMA IdleRequest == IsRequest(Idle) /\ Idle.pc = "idle" /\ Idle.op = None /\ Idle.item = None
<1> QED
    BY DEF Idle, IsRequest

\* One request goes on elsewhere.
LEMMA Replaced ==
    ASSUME Requests, NEW p \in Procs, NEW r, IsRequest(r), proc' = [proc EXCEPT ![p] = r]
    PROVE  /\ DOMAIN proc' = Procs
           /\ proc' = [x \in Procs |-> proc'[x]]
           /\ \A x \in Procs : IsRequest(proc'[x])
           /\ proc'[p] = r
           /\ \A x \in Procs \ {p} : proc'[x] = proc[x]
<1>1. \A x \in Procs : proc'[x] = IF x = p THEN r ELSE proc[x]
    BY DEF Requests
<1>2. proc' = [x \in Procs |-> proc'[x]] /\ DOMAIN proc' = Procs
    BY <1>1 DEF Requests
<1>3. \A x \in Procs : IsRequest(proc'[x])
    BY <1>1 DEF Requests
<1> QED
    BY <1>1, <1>2, <1>3

\* A request that neither leaves nor reaches the start of its job has none.
LEMMA UnstartedSame ==
    ASSUME NEW p \in Procs, proc[p].pc # "spawn", proc'[p].pc # "spawn",
           \A x \in Procs \ {p} : proc'[x] = proc[x]
    PROVE  Unstarted' = Unstarted
<1>1. \A x \in Procs : (proc'[x].pc = "spawn") <=> (proc[x].pc = "spawn")
    OBVIOUS
<1>2. \A x \in Procs : proc[x].pc = "spawn" => JobOf(x)' = JobOf(x)
    BY DEF JobOf
<1> QED
    BY <1>1, <1>2 DEF Unstarted

\* A step that leaves the jobs, the files and their history alone keeps the invariant.
LEMMA NothingHappens ==
    ASSUME LayeredInv, Requests', Unstarted' = Unstarted, jobs' = jobs, files' = files,
           fileMu' = fileMu, pairHistory' = pairHistory
    PROVE  LayeredInv'
<1>1. JobsFit'
    BY DEF LayeredInv, JobsFit
<1>2. MutexHeld' /\ DataCurrent'
    BY DEF LayeredInv, MutexHeld, DataCurrent, InFile, At, FileOfJob, PairsIn
<1>3. PendingPairs' = PendingPairs
  <2>1. Pending = jobs \cup Unstarted /\ Pending' = jobs' \cup Unstarted'
      BY DEF Pending, Unstarted
  <2> QED
      BY <2>1 DEF PendingPairs
<1>4. PairsAreKept' /\ WipedIsQuiet' /\ ClearedIsGone'
    BY <1>3 DEF LayeredInv, PairsAreKept, WipedIsQuiet, ClearedIsGone, pairHistory
<1> QED
    BY <1>1, <1>2, <1>4 DEF LayeredInv

\* The same for a step of one request.
LEMMA RequestGoesOn ==
    ASSUME LayeredInv, NEW p \in Procs, NEW r, IsRequest(r), r.pc # "spawn",
           proc[p].pc # "spawn", proc' = [proc EXCEPT ![p] = r], clock' \in Nat,
           jobs' = jobs, files' = files, fileMu' = fileMu, pairHistory' = pairHistory
    PROVE  LayeredInv'
<1>1. Requests
    BY DEF LayeredInv
<1>2. Requests' /\ proc'[p].pc # "spawn" /\ \A x \in Procs \ {p} : proc'[x] = proc[x]
  <2>1. /\ DOMAIN proc' = Procs
        /\ proc' = [x \in Procs |-> proc'[x]]
        /\ \A x \in Procs : IsRequest(proc'[x])
        /\ proc'[p] = r
        /\ \A x \in Procs \ {p} : proc'[x] = proc[x]
      BY <1>1, Replaced
  <2> QED
      BY <2>1 DEF Requests, IsRequest
<1>3. Unstarted' = Unstarted
    BY <1>2, UnstartedSame
<1> QED
    BY <1>2, <1>3, NothingHappens

\* An operation has changed the hot tier and is about to start its job.
LEMMA JobPrepared ==
    ASSUME LayeredInv, NEW p \in Procs, NEW s, NEW op, NEW i, WriteHot(p, s, op, i),
           proc[p].pc # "spawn", op = "savePair" => i \in Pairs
    PROVE  /\ Requests' /\ JobsFit' /\ MutexHeld' /\ DataCurrent'
           /\ Unstarted' = Unstarted \cup {JobOf(p)'}
           /\ JobOf(p)'.op = op /\ JobOf(p)'.item = i
<1> DEFINE r == [Idle EXCEPT !.pc = "spawn", !.op = op, !.s = s, !.item = i, !.id = clock + 1]
<1>1. Requests /\ clock \in Nat
    BY DEF LayeredInv, Requests
<1>2. IsRequest(r) /\ r.pc = "spawn" /\ r.op = op /\ r.item = i /\ r.id = clock + 1
    BY DEF IsRequest, Idle
<1>3. proc' = [proc EXCEPT ![p] = r] /\ clock' = clock + 1
      /\ jobs' = jobs /\ fileMu' = fileMu /\ files' = files
    BY DEF WriteHot
<1> HIDE DEF r
<1>4. /\ DOMAIN proc' = Procs
      /\ proc' = [x \in Procs |-> proc'[x]]
      /\ \A x \in Procs : IsRequest(proc'[x])
      /\ proc'[p] = r
      /\ \A x \in Procs \ {p} : proc'[x] = proc[x]
    BY <1>1, <1>2, <1>3, Replaced
<1>5. Requests'
    BY <1>1, <1>3, <1>4 DEF Requests, IsRequest
<1>6. \A x \in Procs \ {p} : JobOf(x)' = JobOf(x) /\ proc'[x].pc = proc[x].pc
    BY <1>4 DEF JobOf
<1>7. Unstarted' = Unstarted \cup {JobOf(p)'}
    BY <1>2, <1>4, <1>6 DEF Unstarted
<1>8. JobOf(p)'.op = op /\ JobOf(p)'.item = i /\ JobOf(p)'.id = clock + 1
    BY <1>2, <1>4 DEF JobOf
<1>9. IsJob(JobOf(p)')
  <2>1. JobOf(p)' = [op |-> op, s |-> r.s, item |-> i, id |-> clock + 1, pc |-> "start", data |-> {}]
      BY <1>2, <1>4 DEF JobOf
  <2> QED
      BY <1>1, <2>1 DEF IsJob
<1>10. JobsFit'
    BY <1>3, <1>7, <1>9 DEF LayeredInv, JobsFit, IsJob
<1>11. MutexHeld' /\ DataCurrent'
    BY <1>3 DEF LayeredInv, MutexHeld, DataCurrent, InFile, At, FileOfJob, PairsIn
<1> QED
    BY <1>5, <1>7, <1>8, <1>10, <1>11

\* An operation that does not save a placeholder.
LEMMA SessionWrite ==
    ASSUME LayeredInv, NEW p \in Procs, NEW s, NEW op, NEW i, WriteHot(p, s, op, i),
           UNCHANGED pairHistory, proc[p].pc # "spawn", op # "savePair"
    PROVE  LayeredInv'
<1>1. /\ Requests' /\ JobsFit' /\ MutexHeld' /\ DataCurrent'
      /\ Unstarted' = Unstarted \cup {JobOf(p)'}
      /\ JobOf(p)'.op = op /\ JobOf(p)'.item = i
    BY JobPrepared
<1>2. jobs' = jobs /\ files' = files /\ keptPairs' = keptPairs /\ wiped' = wiped
    BY DEF WriteHot, pairHistory
<1>3. Pending = jobs \cup Unstarted /\ Pending' = jobs' \cup Unstarted'
    BY DEF Pending, Unstarted
<1>4. PendingPairs' = PendingPairs
    BY <1>1, <1>2, <1>3 DEF PendingPairs
<1> QED
    BY <1>1, <1>2, <1>4 DEF LayeredInv, PairsAreKept, WipedIsQuiet, ClearedIsGone, At

LEMMA PairWrite ==
    ASSUME LayeredInv, NEW p \in Procs, NEW s, NEW q \in Pairs, SavePlaceholder(p, s, q)
    PROVE  LayeredInv'
<1>1. proc[p].pc # "spawn" /\ WriteHot(p, s, "savePair", q)
    BY DEF SavePlaceholder, Starting
<1>2. /\ Requests' /\ JobsFit' /\ MutexHeld' /\ DataCurrent'
      /\ Unstarted' = Unstarted \cup {JobOf(p)'}
      /\ JobOf(p)'.op = "savePair" /\ JobOf(p)'.item = q
    BY <1>1, JobPrepared
<1>3. jobs' = jobs /\ files' = files /\ keptPairs' = keptPairs \cup {q} /\ wiped' = wiped \ {q}
    BY DEF SavePlaceholder, WriteHot
<1>4. Pending = jobs \cup Unstarted /\ Pending' = jobs' \cup Unstarted'
    BY DEF Pending, Unstarted
<1>5. PendingPairs' = PendingPairs \cup {q}
    BY <1>2, <1>3, <1>4 DEF PendingPairs
<1> QED
    BY <1>2, <1>3, <1>5 DEF LayeredInv, PairsAreKept, WipedIsQuiet, ClearedIsGone, At

\* The goroutine of an operation is started.
LEMMA JobStarted ==
    ASSUME LayeredInv, NEW p \in Procs, Spawn(p)
    PROVE  LayeredInv'
<1> DEFINE r == Returned(proc[p])
<1>1. Requests /\ proc[p].pc = "spawn" /\ proc' = [proc EXCEPT ![p] = r] /\ clock' = clock
    BY DEF LayeredInv, Spawn
<1>2. IsRequest(r) /\ r.pc # "spawn"
  <2>1. r \in {Idle, [Idle EXCEPT !.pc = "count", !.s = proc[p].s]}
      BY DEF Returned
  <2>2. /\ IsRequest([Idle EXCEPT !.pc = "count", !.s = proc[p].s])
        /\ [Idle EXCEPT !.pc = "count", !.s = proc[p].s].pc = "count"
      BY DEF Idle, IsRequest
  <2> QED
      BY <2>1, <2>2, IdleRequest
<1> HIDE DEF r
<1>3. /\ DOMAIN proc' = Procs
      /\ proc' = [x \in Procs |-> proc'[x]]
      /\ \A x \in Procs : IsRequest(proc'[x])
      /\ proc'[p] = r
      /\ \A x \in Procs \ {p} : proc'[x] = proc[x]
    BY <1>1, <1>2, Replaced
<1>4. Requests'
    BY <1>1, <1>3 DEF Requests, IsRequest
<1>5. jobs' = jobs \cup {JobOf(p)} /\ files' = files /\ fileMu' = fileMu
      /\ keptPairs' = keptPairs /\ wiped' = wiped
    BY DEF Spawn, tiers, pairHistory
<1>6. Unstarted \subseteq Unstarted' \cup {JobOf(p)} /\ Unstarted' \subseteq Unstarted
      /\ JobOf(p) \in Unstarted
    BY <1>1, <1>2, <1>3 DEF Unstarted, JobOf
<1>7. jobs' \cup Unstarted' = jobs \cup Unstarted
    BY <1>5, <1>6
<1>8. PendingPairs' = PendingPairs
  <2>1. Pending = jobs \cup Unstarted /\ Pending' = jobs' \cup Unstarted'
      BY DEF Pending, Unstarted
  <2> QED
      BY <1>7, <2>1 DEF PendingPairs
<1>9. JobsFit'
    BY <1>7 DEF LayeredInv, JobsFit, IsJob
<1>10. JobOf(p).pc = "start" /\ ~ InFile(JobOf(p))
    BY DEF JobOf, InFile, At
<1>11. MutexHeld' /\ DataCurrent'
    BY <1>5, <1>10 DEF LayeredInv, MutexHeld, DataCurrent, InFile, At, FileOfJob, PairsIn
<1>12. PairsAreKept' /\ WipedIsQuiet' /\ ClearedIsGone'
    BY <1>5, <1>8, <1>10 DEF LayeredInv, PairsAreKept, WipedIsQuiet, ClearedIsGone, At
<1> QED
    BY <1>4, <1>9, <1>11, <1>12 DEF LayeredInv

----------------------------------------------------------------------------
(* The steps of the jobs.                                                  *)

\* A job that does not save a placeholder ends.
LEMMA SessionJobEnds ==
    ASSUME LayeredInv, NEW j \in jobs, WriteCold(j)
    PROVE  LayeredInv'
<1>1. j.op # "savePair"
    BY DEF WriteCold, SessionOps
<1>2. jobs' = jobs \ {j} /\ files' = files /\ fileMu' = fileMu /\ proc' = proc /\ clock' = clock
      /\ keptPairs' = keptPairs /\ wiped' = wiped
    BY DEF WriteCold, pairHistory
<1>3. Requests' /\ Unstarted' = Unstarted
    BY <1>2 DEF LayeredInv, Requests, IsRequest, Unstarted, JobOf
<1>4. PendingPairs' = PendingPairs
  <2>1. Pending = jobs \cup Unstarted /\ Pending' = jobs' \cup Unstarted'
      BY DEF Pending, Unstarted
  <2> QED
      BY <1>1, <1>2, <1>3, <2>1 DEF PendingPairs
<1>5. JobsFit'
    BY <1>2, <1>3 DEF LayeredInv, JobsFit, IsJob
<1>6. MutexHeld' /\ DataCurrent'
    BY <1>2 DEF LayeredInv, MutexHeld, DataCurrent, InFile, At, FileOfJob, PairsIn
<1>7. PairsAreKept' /\ WipedIsQuiet' /\ ClearedIsGone'
    BY <1>2, <1>4 DEF LayeredInv, PairsAreKept, WipedIsQuiet, ClearedIsGone, At
<1> QED
    BY <1>3, <1>5, <1>6, <1>7 DEF LayeredInv

\* A job of a placeholder goes on to another step of its own.
LEMMA PairJobGoesOn ==
    ASSUME LayeredInv, NEW j \in jobs, NEW k, j.op = "savePair", k.op = "savePair",
           k.item = j.item, k.id = j.id, IsJob(k), jobs' = (jobs \ {j}) \cup {k},
           UNCHANGED <<files, proc, clock, pairHistory>>,
           At(k, "store") => wiped \cap k.data = {}
    PROVE  /\ Requests' /\ JobsFit' /\ PairsAreKept' /\ WipedIsQuiet' /\ ClearedIsGone'
<1>1. files' = files /\ proc' = proc /\ clock' = clock /\ keptPairs' = keptPairs /\ wiped' = wiped
    BY DEF pairHistory
<1>2. Requests' /\ Unstarted' = Unstarted
    BY <1>1 DEF LayeredInv, Requests, IsRequest, Unstarted, JobOf
<1>3. JobsFit'
    BY <1>2 DEF LayeredInv, JobsFit, IsJob
<1>4. PendingPairs' = PendingPairs
  <2>1. Pending = jobs \cup Unstarted /\ Pending' = jobs' \cup Unstarted'
      BY DEF Pending, Unstarted
  <2> QED
      BY <1>2, <2>1 DEF PendingPairs
<1>5. PairsAreKept' /\ WipedIsQuiet' /\ ClearedIsGone'
    BY <1>1, <1>4 DEF LayeredInv, PairsAreKept, WipedIsQuiet, ClearedIsGone, At
<1> QED
    BY <1>2, <1>3, <1>5

\* Two jobs are in the same file only if they are the same.
LEMMA OneInFile ==
    ASSUME LayeredInv, NEW j \in jobs, NEW k \in jobs, InFile(j), InFile(k),
           FileOfJob(j) = FileOfJob(k)
    PROVE  j = k
<1> QED
    BY DEF LayeredInv, MutexHeld

LEMMA JobFile ==
    ASSUME LayeredInv, NEW j \in jobs, j.op = "savePair"
    PROVE  /\ IsJob(j) /\ j.item \in Pairs /\ FileOfJob(j) \in Files
           /\ j.item \in PairsIn(FileOfJob(j))
<1>1. IsJob(j)
    BY DEF LayeredInv, JobsFit
<1> QED
    BY <1>1 DEF IsJob, FileOfJob, Files, PairsIn

LEMMA FileLocked ==
    ASSUME LayeredInv, NEW j \in jobs, LockFile(j)
    PROVE  LayeredInv'
<1> DEFINE k == [j EXCEPT !.pc = "load"]
<1>1. j.op = "savePair" /\ j.pc = "start" /\ fileMu[FileOfJob(j)] = 0
    BY DEF LockFile, At
<1>2. IsJob(j) /\ FileOfJob(j) \in Files
    BY <1>1, JobFile
<1>3. IsJob(k) /\ k.op = "savePair" /\ k.item = j.item /\ k.id = j.id /\ k.pc = "load"
    BY <1>1, <1>2 DEF IsJob
<1>4. jobs' = (jobs \ {j}) \cup {k} /\ fileMu' = [fileMu EXCEPT ![FileOfJob(j)] = j.id]
      /\ UNCHANGED <<files, proc, clock, pairHistory>>
    BY DEF LockFile, tiers
<1> HIDE DEF k
<1>5. Requests' /\ JobsFit' /\ PairsAreKept' /\ WipedIsQuiet' /\ ClearedIsGone'
    BY <1>1, <1>3, <1>4, PairJobGoesOn DEF At
<1>6. FileOfJob(k) = FileOfJob(j) /\ InFile(k) /\ ~ At(k, "store")
    BY <1>3 DEF FileOfJob, InFile, At
<1>7. \A x \in jobs : InFile(x) => FileOfJob(x) # FileOfJob(j)
  <2> SUFFICES ASSUME NEW x \in jobs, InFile(x), FileOfJob(x) = FileOfJob(j) PROVE FALSE
      OBVIOUS
  <2>1. fileMu[FileOfJob(x)] = x.id /\ x.id # 0
      BY DEF LayeredInv, MutexHeld, JobsFit, IsJob
  <2> QED
      BY <1>1, <2>1
<1>8. MutexHeld'
  <2>1. fileMu' \in [Files -> Nat]
      BY <1>2, <1>4 DEF LayeredInv, MutexHeld, IsJob
  <2>2. \A x \in jobs' : InFile(x) => fileMu'[FileOfJob(x)] = x.id
    <3>1. fileMu'[FileOfJob(k)] = k.id
        BY <1>2, <1>3, <1>4, <1>6 DEF LayeredInv, MutexHeld
    <3>2. \A x \in jobs : InFile(x) => fileMu'[FileOfJob(x)] = x.id
        BY <1>4, <1>7 DEF LayeredInv, MutexHeld
    <3> QED
        BY <1>4, <3>1, <3>2
  <2>3. \A x, y \in jobs' : InFile(x) /\ InFile(y) /\ FileOfJob(x) = FileOfJob(y) => x = y
      BY <1>4, <1>6, <1>7 DEF LayeredInv, MutexHeld
  <2> QED
      BY <2>1, <2>2, <2>3 DEF MutexHeld, InFile, At, FileOfJob
<1>9. DataCurrent'
    BY <1>4, <1>6 DEF LayeredInv, DataCurrent, At, FileOfJob, PairsIn
<1> QED
    BY <1>5, <1>8, <1>9 DEF LayeredInv

LEMMA FileLoaded ==
    ASSUME LayeredInv, NEW j \in jobs, LoadFile(j)
    PROVE  LayeredInv'
<1> DEFINE k == [j EXCEPT !.pc = "store", !.data = files \cap PairsIn(FileOfJob(j))]
<1>1. j.op = "savePair" /\ j.pc = "load" /\ InFile(j)
    BY DEF LoadFile, At, InFile
<1>2. IsJob(j) /\ FileOfJob(j) \in Files
    BY <1>1, JobFile
<1>3. /\ IsJob(k) /\ k.op = "savePair" /\ k.item = j.item /\ k.id = j.id /\ k.pc = "store"
      /\ k.data = files \cap PairsIn(FileOfJob(j))
    BY <1>1, <1>2 DEF IsJob
<1>4. jobs' = (jobs \ {j}) \cup {k} /\ fileMu' = fileMu
      /\ UNCHANGED <<files, proc, clock, pairHistory>>
    BY DEF LoadFile, tiers
<1> HIDE DEF k
<1>5. wiped \cap k.data = {}
    BY <1>3 DEF LayeredInv, ClearedIsGone
<1>6. Requests' /\ JobsFit' /\ PairsAreKept' /\ WipedIsQuiet' /\ ClearedIsGone'
    BY <1>1, <1>3, <1>4, <1>5, PairJobGoesOn DEF At
<1>7. FileOfJob(k) = FileOfJob(j) /\ InFile(k)
    BY <1>3 DEF FileOfJob, InFile, At
<1>8. MutexHeld'
  <2>1. \A x \in jobs' : InFile(x) => fileMu[FileOfJob(x)] = x.id
      BY <1>1, <1>3, <1>4, <1>7 DEF LayeredInv, MutexHeld
  <2>2. \A x, y \in jobs' : InFile(x) /\ InFile(y) /\ FileOfJob(x) = FileOfJob(y) => x = y
    <3>1. \A x \in jobs : InFile(x) /\ FileOfJob(x) = FileOfJob(j) => x = j
        BY <1>1, OneInFile
    <3> QED
        BY <1>4, <1>7, <3>1 DEF LayeredInv, MutexHeld
  <2> QED
      BY <1>4, <2>1, <2>2 DEF LayeredInv, MutexHeld, InFile, At, FileOfJob
<1>9. DataCurrent'
  <2>1. \A x \in jobs' : At(x, "store") =>
            files \cap PairsIn(FileOfJob(x)) \subseteq x.data /\ x.data \subseteq PairsIn(FileOfJob(x))
      BY <1>3, <1>4, <1>7 DEF LayeredInv, DataCurrent
  <2> QED
      BY <1>4, <2>1 DEF DataCurrent, At, FileOfJob, PairsIn
<1> QED
    BY <1>6, <1>8, <1>9 DEF LayeredInv

\* A job leaves its file and ends.
LEMMA FileLeft ==
    ASSUME LayeredInv, NEW j \in jobs, InFile(j), jobs' = jobs \ {j},
           fileMu' = [fileMu EXCEPT ![FileOfJob(j)] = 0], UNCHANGED <<proc, clock>>
    PROVE  /\ Requests' /\ JobsFit' /\ MutexHeld'
           /\ \A x \in jobs' : InFile(x) => FileOfJob(x) # FileOfJob(j)
           /\ PendingPairs \subseteq PendingPairs' \cup {j.item}
           /\ PendingPairs' \subseteq PendingPairs
           /\ j.item \in PendingPairs
<1>1. j.op = "savePair"
    BY DEF InFile, At
<1>2. Requests' /\ Unstarted' = Unstarted
    BY DEF LayeredInv, Requests, IsRequest, Unstarted, JobOf
<1>3. JobsFit'
    BY <1>2 DEF LayeredInv, JobsFit, IsJob
<1>4. \A x \in jobs' : InFile(x) => FileOfJob(x) # FileOfJob(j)
    BY OneInFile
<1>5. MutexHeld'
  <2>1. fileMu' \in [Files -> Nat]
      BY DEF LayeredInv, MutexHeld
  <2>2. \A x \in jobs' : InFile(x) => fileMu'[FileOfJob(x)] = x.id
      BY <1>4 DEF LayeredInv, MutexHeld
  <2> QED
      BY <2>1, <2>2 DEF LayeredInv, MutexHeld, InFile, At, FileOfJob
<1>6. Pending = jobs \cup Unstarted /\ Pending' = jobs' \cup Unstarted'
    BY DEF Pending, Unstarted
<1>7. PendingPairs \subseteq PendingPairs' \cup {j.item} /\ PendingPairs' \subseteq PendingPairs
      /\ j.item \in PendingPairs
    BY <1>1, <1>2, <1>6 DEF PendingPairs
<1> QED
    BY <1>2, <1>3, <1>4, <1>5, <1>7

LEMMA FileStored ==
    ASSUME LayeredInv, NEW j \in jobs, StoreFile(j)
    PROVE  LayeredInv'
<1>1. At(j, "store") /\ InFile(j) /\ j.op = "savePair"
    BY DEF StoreFile, At, InFile
<1>2. /\ jobs' = jobs \ {j} /\ fileMu' = [fileMu EXCEPT ![FileOfJob(j)] = 0]
      /\ UNCHANGED <<proc, clock>> /\ keptPairs' = keptPairs /\ wiped' = wiped
      /\ files' = (files \ PairsIn(FileOfJob(j))) \cup j.data \cup {j.item}
    BY DEF StoreFile, pairHistory
<1>3. /\ Requests' /\ JobsFit' /\ MutexHeld'
      /\ \A x \in jobs' : InFile(x) => FileOfJob(x) # FileOfJob(j)
      /\ PendingPairs \subseteq PendingPairs' \cup {j.item}
      /\ PendingPairs' \subseteq PendingPairs
      /\ j.item \in PendingPairs
    BY <1>1, <1>2, FileLeft
<1>4. files \cap PairsIn(FileOfJob(j)) \subseteq j.data /\ j.data \subseteq PairsIn(FileOfJob(j))
      /\ j.item \in PairsIn(FileOfJob(j))
    BY <1>1, JobFile DEF LayeredInv, DataCurrent
<1>5. DataCurrent'
  <2>1. \A x \in jobs' : At(x, "store") =>
            files' \cap PairsIn(FileOfJob(x)) \subseteq x.data /\ x.data \subseteq PairsIn(FileOfJob(x))
    <3> SUFFICES ASSUME NEW x \in jobs', At(x, "store")
                 PROVE  /\ files' \cap PairsIn(FileOfJob(x)) \subseteq x.data
                        /\ x.data \subseteq PairsIn(FileOfJob(x))
        OBVIOUS
    <3>1. FileOfJob(x) # FileOfJob(j)
        BY <1>3 DEF InFile
    <3>2. PairsIn(FileOfJob(x)) \cap PairsIn(FileOfJob(j)) = {}
        BY <3>1 DEF PairsIn
    <3>3. files \cap PairsIn(FileOfJob(x)) \subseteq x.data /\ x.data \subseteq PairsIn(FileOfJob(x))
        BY <1>2 DEF LayeredInv, DataCurrent
    <3> QED
        BY <1>2, <1>4, <3>2, <3>3
  <2> QED
      BY <2>1 DEF DataCurrent, At, FileOfJob, PairsIn
<1>6. PairsAreKept'
    BY <1>2, <1>3, <1>4 DEF LayeredInv, PairsAreKept
<1>7. WipedIsQuiet'
    BY <1>2, <1>3 DEF LayeredInv, WipedIsQuiet, At
<1>8. ClearedIsGone'
    BY <1>1, <1>2, <1>3 DEF LayeredInv, WipedIsQuiet, ClearedIsGone
<1> QED
    BY <1>3, <1>5, <1>6, <1>7, <1>8 DEF LayeredInv

LEMMA FileFails ==
    ASSUME LayeredInv, NEW j \in jobs, PairFails(j)
    PROVE  LayeredInv'
<1>1. InFile(j)
    BY DEF PairFails, InFile
<1>2. /\ jobs' = jobs \ {j} /\ fileMu' = [fileMu EXCEPT ![FileOfJob(j)] = 0]
      /\ UNCHANGED <<proc, clock>> /\ keptPairs' = keptPairs \ {j.item} /\ wiped' = wiped
      /\ files' = files
    BY DEF PairFails, tiers
<1>3. /\ Requests' /\ JobsFit' /\ MutexHeld'
      /\ PendingPairs \subseteq PendingPairs' \cup {j.item}
      /\ PendingPairs' \subseteq PendingPairs
    BY <1>1, <1>2, FileLeft
<1>4. DataCurrent'
    BY <1>2 DEF LayeredInv, DataCurrent, At, FileOfJob, PairsIn
<1>5. PairsAreKept' /\ WipedIsQuiet' /\ ClearedIsGone'
    BY <1>2, <1>3 DEF LayeredInv, PairsAreKept, WipedIsQuiet, ClearedIsGone, At
<1> QED
    BY <1>3, <1>4, <1>5 DEF LayeredInv

----------------------------------------------------------------------------
(* Clearings and restarts.                                                 *)

LEMMA DirRemoved ==
    ASSUME LayeredInv, NEW p \in Procs, RemoveDir(p)
    PROVE  LayeredInv'
<1> PICK f \in proc[p].dirs :
          /\ proc' = [proc EXCEPT ![p].dirs = @ \ {f}]
          /\ \/ /\ files' = files \ PairsIn(f)
                /\ keptPairs' = keptPairs \ PairsIn(f)
                /\ wiped' = wiped \cup {q \in PairsIn(f) :
                                /\ q \notin PendingPairs
                                /\ \A j \in jobs : At(j, "store") => q \notin j.data}
             \/ UNCHANGED <<files, pairHistory>>
    BY DEF RemoveDir
<1> DEFINE r == [proc[p] EXCEPT !.dirs = @ \ {f}]
<1>1. Requests /\ proc[p].pc = "clear" /\ jobs' = jobs /\ fileMu' = fileMu /\ clock' = clock
    BY DEF RemoveDir, LayeredInv
<1>2. proc' = [proc EXCEPT ![p] = r] /\ IsRequest(r) /\ r.pc = "clear"
    BY <1>1 DEF Requests, IsRequest
<1> HIDE DEF r
<1>3. /\ DOMAIN proc' = Procs
      /\ proc' = [x \in Procs |-> proc'[x]]
      /\ \A x \in Procs : IsRequest(proc'[x])
      /\ proc'[p] = r
      /\ \A x \in Procs \ {p} : proc'[x] = proc[x]
    BY <1>1, <1>2, Replaced
<1>4. Requests'
    BY <1>1, <1>3 DEF Requests, IsRequest
<1>5. Unstarted' = Unstarted
    BY <1>1, <1>2, <1>3, UnstartedSame
<1>6. CASE UNCHANGED <<files, pairHistory>>
    BY <1>1, <1>4, <1>5, <1>6, NothingHappens
<1>7. CASE /\ files' = files \ PairsIn(f)
           /\ keptPairs' = keptPairs \ PairsIn(f)
           /\ wiped' = wiped \cup {q \in PairsIn(f) :
                           /\ q \notin PendingPairs
                           /\ \A j \in jobs : At(j, "store") => q \notin j.data}
  <2>1. PendingPairs' = PendingPairs
    <3>1. Pending = jobs \cup Unstarted /\ Pending' = jobs' \cup Unstarted'
        BY DEF Pending, Unstarted
    <3> QED
        BY <1>1, <1>5, <3>1 DEF PendingPairs
  <2>2. JobsFit' /\ MutexHeld'
      BY <1>1, <1>5 DEF LayeredInv, JobsFit, IsJob, MutexHeld, InFile, At, FileOfJob
  <2>3. DataCurrent'
      BY <1>1, <1>7 DEF LayeredInv, DataCurrent, At, FileOfJob, PairsIn
  <2>4. PairsAreKept'
      BY <1>7, <2>1 DEF LayeredInv, PairsAreKept
  <2>5. WipedIsQuiet'
    <3>1. wiped' \cap PendingPairs' = {}
        BY <1>7, <2>1 DEF LayeredInv, WipedIsQuiet
    <3>2. \A j \in jobs : At(j, "store") => wiped' \cap j.data = {}
        BY <1>7 DEF LayeredInv, WipedIsQuiet
    <3> QED
        BY <1>1, <3>1, <3>2 DEF WipedIsQuiet, At
  <2>6. ClearedIsGone'
      BY <1>7 DEF LayeredInv, ClearedIsGone
  <2> QED
      BY <1>4, <2>2, <2>3, <2>4, <2>5, <2>6 DEF LayeredInv
<1> QED
    BY <1>6, <1>7

LEMMA AfterRestart ==
    ASSUME LayeredInv, Restart
    PROVE  LayeredInv'
<1>1. /\ jobs' = {} /\ fileMu' = [f \in Files |-> 0] /\ proc' = [p \in Procs |-> Idle]
      /\ keptPairs' = keptPairs \ PendingPairs /\ files' = files /\ wiped' = wiped /\ clock' = clock
    BY DEF Restart
<1>2. Requests'
    BY <1>1, IdleRequest DEF LayeredInv, Requests, IsRequest
<1>3. Unstarted' = {}
    BY <1>1, IdleRequest DEF Unstarted
<1>4. PendingPairs' = {}
  <2>1. Pending' = jobs' \cup Unstarted'
      BY DEF Pending, Unstarted
  <2> QED
      BY <1>1, <1>3, <2>1 DEF PendingPairs
<1>5. JobsFit' /\ MutexHeld' /\ DataCurrent'
    BY <1>1, <1>3 DEF JobsFit, MutexHeld, DataCurrent
<1>6. PairsAreKept' /\ WipedIsQuiet' /\ ClearedIsGone'
    BY <1>1, <1>4 DEF LayeredInv, PairsAreKept, WipedIsQuiet, ClearedIsGone
<1> QED
    BY <1>2, <1>5, <1>6 DEF LayeredInv

----------------------------------------------------------------------------
(* The other steps of the requests.                                        *)

LEMMA ReadBegins ==
    ASSUME LayeredInv, NEW p \in Procs, NEW s, NEW op, NEW i, Missing(p, s, op, i)
    PROVE  LayeredInv'
<1> DEFINE r == [Idle EXCEPT !.pc = "cold", !.op = op, !.s = s, !.item = i]
<1>1. IsRequest(r) /\ r.pc = "cold"
    BY DEF Idle, IsRequest
<1>2. proc[p].pc = "idle" /\ proc' = [proc EXCEPT ![p] = r] /\ clock' = clock + 1 /\ jobs' = jobs
      /\ files' = files /\ fileMu' = fileMu /\ pairHistory' = pairHistory
    BY DEF Missing, Starting, tiers
<1>3. clock' \in Nat
    BY <1>2 DEF LayeredInv, Requests
<1> QED
    BY <1>1, <1>2, <1>3, RequestGoesOn

\* A read that has copied something goes on, trims, or returns.
LEMMA CopiedRequest ==
    ASSUME NEW r, IsRequest(r), NEW todo
    PROVE  IsRequest(Copied(r, todo)) /\ Copied(r, todo).pc \in {"refill", "trim", "idle"}
<1>1. /\ IsRequest([r EXCEPT !.pc = "refill", !.todo = todo])
      /\ [r EXCEPT !.pc = "refill", !.todo = todo].pc = "refill"
    BY DEF IsRequest
<1>2. /\ IsRequest([Idle EXCEPT !.pc = "trim", !.s = r.s])
      /\ [Idle EXCEPT !.pc = "trim", !.s = r.s].pc = "trim"
    BY DEF IsRequest, Idle
<1> QED
    BY <1>1, <1>2, IdleRequest DEF Copied

LEMMA ReadGoesOn ==
    ASSUME LayeredInv, NEW p \in Procs, ReadCold(p) \/ Refill(p)
    PROVE  LayeredInv'
<1>1. IsRequest(proc[p]) /\ DOMAIN proc = Procs /\ clock \in Nat
    BY DEF LayeredInv, Requests
<1>2. /\ proc[p].pc # "spawn" /\ clock' = clock /\ jobs' = jobs /\ files' = files
      /\ fileMu' = fileMu /\ pairHistory' = pairHistory
    BY DEF ReadCold, Refill, tiers, PutPair
<1>3. \E r : IsRequest(r) /\ r.pc # "spawn" /\ proc' = [proc EXCEPT ![p] = r]
  <2>1. CASE ReadCold(p)
    <3> DEFINE todo == Found(proc[p])
               over == proc[p].op = "count" /\ Len(todo.msgs) > MaxMessages
               r == [proc[p] EXCEPT !.over = over]
    <3>1. proc' = [proc EXCEPT ![p] = Copied(r, todo)] \/ proc' = [proc EXCEPT ![p] = Idle]
        BY <2>1 DEF ReadCold
    <3>2. IsRequest(r)
        BY <1>1 DEF IsRequest
    <3> HIDE DEF r, todo
    <3>3. IsRequest(Copied(r, todo)) /\ Copied(r, todo).pc # "spawn"
        BY <3>2, CopiedRequest
    <3> QED
        BY <3>1, <3>3, IdleRequest
  <2>2. CASE Refill(p)
    <3>1. \E d : proc' = [proc EXCEPT ![p] = Copied(@, d)]
        BY <2>2 DEF Refill
    <3>2. PICK d : proc' = [proc EXCEPT ![p] = Copied(proc[p], d)]
        BY <1>1, <3>1
    <3>3. IsRequest(Copied(proc[p], d)) /\ Copied(proc[p], d).pc # "spawn"
        BY <1>1, CopiedRequest
    <3> QED
        BY <3>2, <3>3
  <2> QED
      BY <2>1, <2>2
<1> QED
    BY <1>1, <1>2, <1>3, RequestGoesOn

LEMMA RequestSteps ==
    ASSUME LayeredInv, NEW p \in Procs,
           CountMessages(p) \/ DeleteAllPlaceholders(p) \/ LockAll(p) \/ Cleared(p)
    PROVE  LayeredInv'
<1>1. IsRequest(proc[p]) /\ DOMAIN proc = Procs /\ clock \in Nat
    BY DEF LayeredInv, Requests
<1>2. /\ proc[p].pc # "spawn" /\ clock' \in Nat /\ jobs' = jobs /\ files' = files
      /\ fileMu' = fileMu /\ pairHistory' = pairHistory
    BY <1>1 DEF CountMessages, DeleteAllPlaceholders, Starting, LockAll, Cleared, tiers
<1>3. \E r : IsRequest(r) /\ r.pc # "spawn" /\ proc' = [proc EXCEPT ![p] = r]
  <2>1. CASE CountMessages(p)
    <3>1. /\ IsRequest([proc[p] EXCEPT !.pc = "cold", !.op = "count"])
          /\ [proc[p] EXCEPT !.pc = "cold", !.op = "count"].pc = "cold"
          /\ IsRequest([proc[p] EXCEPT !.pc = "trim"])
          /\ [proc[p] EXCEPT !.pc = "trim"].pc = "trim"
        BY <1>1 DEF IsRequest
    <3>2. \/ proc' = [proc EXCEPT ![p] = [proc[p] EXCEPT !.pc = "cold", !.op = "count"]]
          \/ proc' = [proc EXCEPT ![p] = [proc[p] EXCEPT !.pc = "trim"]]
          \/ proc' = [proc EXCEPT ![p] = Idle]
        BY <1>1, <2>1 DEF CountMessages
    <3> QED
        BY <3>1, <3>2, IdleRequest
  <2>2. CASE DeleteAllPlaceholders(p)
    <3>1. IsRequest([Idle EXCEPT !.pc = "lockAll"]) /\ [Idle EXCEPT !.pc = "lockAll"].pc = "lockAll"
        BY DEF Idle, IsRequest
    <3> QED
        BY <2>2, <3>1 DEF DeleteAllPlaceholders
  <2>3. CASE LockAll(p)
    <3> DEFINE dirs == {FileOf[q] : q \in files}
               r == [proc[p] EXCEPT !.pc = "clear", !.dirs = dirs]
    <3>1. IsRequest(r) /\ r.pc = "clear"
        BY <1>1 DEF IsRequest
    <3>2. proc' = [proc EXCEPT ![p] = r] \/ proc' = [proc EXCEPT ![p] = Idle]
        BY <1>1, <2>3 DEF LockAll
    <3> QED
        BY <3>1, <3>2, IdleRequest
  <2>4. CASE Cleared(p)
      BY <2>4, IdleRequest DEF Cleared
  <2> QED
      BY <2>1, <2>2, <2>3, <2>4
<1> QED
    BY <1>1, <1>2, <1>3, RequestGoesOn

\* What happens to the sessions, and the calls of Close, have nothing to do with the
\* placeholders.
LEMMA NoRequest ==
    ASSUME LayeredInv,
           \/ \E p, s : DeletePlaceholders(p, s)
           \/ \E s : CleanHot(s) \/ CleanCold(s)
           \/ Close \/ Closed \/ UNCHANGED layeredVars
    PROVE  LayeredInv'
<1>1. proc' = proc /\ clock' = clock /\ jobs' = jobs /\ files' = files /\ fileMu' = fileMu
      /\ pairHistory' = pairHistory
    BY DEF DeletePlaceholders, CleanHot, CleanCold, Close, Closed, layeredVars, tiers
<1>2. Requests' /\ Unstarted' = Unstarted
    BY <1>1 DEF LayeredInv, Requests, IsRequest, Unstarted, JobOf
<1> QED
    BY <1>1, <1>2, NothingHappens

----------------------------------------------------------------------------
(* The theorems.                                                           *)

LEMMA LayeredInitInv == LayeredInit => LayeredInv
<1> SUFFICES ASSUME LayeredInit PROVE LayeredInv
    OBVIOUS
<1>1. Requests
    BY IdleRequest DEF LayeredInit, Requests
<1>2. Unstarted = {} /\ Pending = {}
    BY IdleRequest DEF LayeredInit, Unstarted, Pending
<1>3. JobsFit /\ MutexHeld /\ DataCurrent
    BY <1>2 DEF LayeredInit, JobsFit, MutexHeld, DataCurrent
<1>4. PairsAreKept /\ WipedIsQuiet /\ ClearedIsGone
    BY DEF LayeredInit, PairsAreKept, WipedIsQuiet, ClearedIsGone
<1> QED
    BY <1>1, <1>3, <1>4 DEF LayeredInv

LEMMA LayeredNextInv == LayeredInv /\ [LayeredNext]_layeredVars => LayeredInv'
<1> SUFFICES ASSUME LayeredInv, [LayeredNext]_layeredVars PROVE LayeredInv'
    OBVIOUS
<1>1. ASSUME NEW p \in Procs, NEW s \in Sessions, Write(p, s) PROVE LayeredInv'
  <2>1. CASE SaveMessage(p, s) \/ DeleteMessages(p, s) \/ DeleteMaskMeta(p, s) \/ DeleteSession(p, s)
      BY <2>1, SessionWrite
      DEF SaveMessage, DeleteMessages, DeleteMaskMeta, DeleteSession, Starting
  <2>2. ASSUME NEW i \in Metas, SaveMaskMeta(p, s, i) PROVE LayeredInv'
      BY <2>2, SessionWrite DEF SaveMaskMeta, Starting
  <2>3. ASSUME NEW q \in Pairs, SavePlaceholder(p, s, q) PROVE LayeredInv'
      BY <2>3, PairWrite
  <2>4. CASE DeletePlaceholders(p, s)
      BY <2>4, NoRequest
  <2> QED
      BY <1>1, <2>1, <2>2, <2>3, <2>4 DEF Write
<1>2. ASSUME NEW p \in Procs, NEW s \in Sessions, Read(p, s) PROVE LayeredInv'
    BY <1>2, ReadBegins
    DEF Read, GetMessages, GetAllMaskMeta, GetAllPlaceholders, GetMaskMeta, GetPlaceholder,
        LoadSessionFromDisk
<1>3. ASSUME NEW p \in Procs, DeleteAllPlaceholders(p) \/ Proceed(p) PROVE LayeredInv'
  <2>1. CASE TruncateMessages(p)
      BY <2>1, SessionWrite DEF TruncateMessages
  <2>2. CASE ~ TruncateMessages(p)
      BY <1>3, <2>2, JobStarted, RequestSteps, ReadGoesOn, DirRemoved DEF Proceed
  <2> QED
      BY <2>1, <2>2
<1>4. ASSUME NEW j \in jobs, Job(j) PROVE LayeredInv'
    BY <1>4, SessionJobEnds, FileLocked, FileLoaded, FileStored, FileFails DEF Job
<1>5. ASSUME NEW s \in Sessions, CleanHot(s) \/ CleanCold(s) PROVE LayeredInv'
    BY <1>5, NoRequest
<1>6. CASE Close \/ Closed \/ UNCHANGED layeredVars
    BY <1>6, NoRequest
<1>7. CASE Restart
    BY <1>7, AfterRestart
<1> QED
    BY <1>1, <1>2, <1>3, <1>4, <1>5, <1>6, <1>7 DEF LayeredNext

LEMMA LayeredInvariant == LayeredSpec => []LayeredInv
<1> QED
    BY LayeredInitInv, LayeredNextInv, PTL DEF LayeredSpec

\* A placeholder whose save has answered is in its file or on its way there: whatever
\* other saves, failures, clearings and restarts there are, none undoes it.
THEOREM PairsKept == LayeredSpec => []PairsAreKept
<1>1. LayeredInv => PairsAreKept
    BY DEF LayeredInv
<1> QED
    BY <1>1, LayeredInvariant, PTL

\* A placeholder that was cleared while nobody saved it or rewrote its file stays out
\* of the files until it is saved again.
THEOREM ClearedGone == LayeredSpec => []ClearedIsGone
<1>1. LayeredInv => ClearedIsGone
    BY DEF LayeredInv
<1> QED
    BY <1>1, LayeredInvariant, PTL

\* The goroutines that save placeholders exclude each other per file.
THEOREM FilesExclude == LayeredSpec => []MutexHeld
<1>1. LayeredInv => MutexHeld
    BY DEF LayeredInv
<1> QED
    BY <1>1, LayeredInvariant, PTL

----------------------------------------------------------------------------
(* The types.                                                              *)

Items == Nat \cup Metas

\* What an operation op with the number id takes.
Fitting(op, item, id) ==
    CASE op = "saveMessage" -> item = id
      [] op = "saveMeta" -> item \in Metas
      [] op = "savePair" -> item \in Pairs
      [] OTHER -> item = None

ReadOps == {"getMessages", "count", "getMeta", "getMetas", "getPair", "getPairs", "load"}

TierTypes ==
    /\ hot \in [Sessions -> SessionRecords]
    /\ disk \in [Sessions -> SessionRecords]
    /\ files \subseteq Pairs
    /\ phase \in {"up", "closing", "closed"}

HistoryTypes ==
    /\ kept \in [Sessions -> SUBSET Items]
    /\ dropped \in [Sessions -> SUBSET Items]
    /\ flaws \in [Sessions -> SUBSET Flaws]

RequestFits(r) ==
    /\ r.pc \in ProcPcs
    /\ r.pc \in {"count", "trim", "cold", "refill"} => r.s \in Sessions
    /\ r.pc = "cold" => r.op \in ReadOps
    /\ r.pc = "refill" => r.todo \in SessionRecords

RequestTypes == \A p \in Procs : RequestFits(proc[p])

JobFits(j) == j \in JobRecords /\ Fitting(j.op, j.item, j.id)

PendingTypes == \A j \in Pending : JobFits(j) /\ j.id <= clock

\* No two jobs have the same number, the ones that have not been started included.
OwnNumbers ==
    /\ \A p, q \in Procs :
          proc[p].pc = "spawn" /\ proc[q].pc = "spawn" /\ proc[p].id = proc[q].id => p = q
    /\ \A j \in jobs, p \in Procs : proc[p].pc = "spawn" => j.id # proc[p].id
    /\ \A j, k \in jobs : j.id = k.id => j = k

\* Who holds the mutex of a file is in it.
MutexOwned ==
    \A f \in Files : fileMu[f] # 0 => \E j \in jobs : InFile(j) /\ FileOfJob(j) = f

LayeredTypes ==
    TierTypes /\ HistoryTypes /\ RequestTypes /\ PendingTypes /\ OwnNumbers /\ MutexOwned

----------------------------------------------------------------------------
(* The operators.                                                          *)

LEMMA EmptyType == Empty \in SessionRecords /\ Empty.msgs = <<>> /\ Empty.metas = {}
<1> QED
    BY DEF Empty, SessionRecords

LEMMA TruncatedType ==
    ASSUME NEW d \in SessionRecords
    PROVE  /\ Truncated(d) \in SessionRecords
           /\ Truncated(d).metas = d.metas /\ Truncated(d).pairs = d.pairs
           /\ Truncated(d).msgs = IF Len(d.msgs) <= MaxMessages THEN d.msgs
                                  ELSE SubSeq(d.msgs, Len(d.msgs) - MaxMessages + 1, Len(d.msgs))
<1>1. d.msgs \in Seq(Nat) /\ MaxMessages \in Nat
    BY LayeredAssumption DEF SessionRecords
<1>2. CASE Len(d.msgs) <= MaxMessages
    BY <1>2 DEF Truncated
<1>3. CASE ~ (Len(d.msgs) <= MaxMessages)
  <2> DEFINE q == SubSeq(d.msgs, Len(d.msgs) - MaxMessages + 1, Len(d.msgs))
  <2>1. q \in Seq(Nat)
      BY <1>1, <1>3
  <2>2. Truncated(d) = [d EXCEPT !.msgs = q]
      BY <1>3 DEF Truncated
  <2> HIDE DEF q
  <2>3. Truncated(d) \in SessionRecords /\ Truncated(d).msgs = q
        /\ Truncated(d).metas = d.metas /\ Truncated(d).pairs = d.pairs
      BY <2>1, <2>2 DEF SessionRecords
  <2> QED
      BY <1>3, <2>3 DEF q
<1> QED
    BY <1>2, <1>3

LEMMA AfterType ==
    ASSUME NEW d \in SessionRecords, NEW op \in SessionOps \cup {"savePair"}, NEW i, NEW n \in Nat,
           Fitting(op, i, n)
    PROVE  After(op, i, d) \in SessionRecords
<1>1. d.msgs \in Seq(Nat) /\ d.metas \subseteq Metas /\ d.pairs \subseteq Pairs
    BY DEF SessionRecords
<1>2. \A q \in Seq(Nat) : [d EXCEPT !.msgs = q] \in SessionRecords
    BY DEF SessionRecords
<1>3. \A m \in SUBSET Metas : [d EXCEPT !.metas = m] \in SessionRecords
    BY DEF SessionRecords
<1>4. \A q \in SUBSET Pairs : [d EXCEPT !.pairs = q] \in SessionRecords
    BY DEF SessionRecords
<1>5. CASE op = "saveMessage"
  <2>1. i \in Nat /\ After(op, i, d) = [d EXCEPT !.msgs = Append(d.msgs, i)]
      BY <1>5 DEF After, Fitting, WithMessage
  <2>2. Append(d.msgs, i) \in Seq(Nat)
      BY <1>1, <2>1
  <2> QED
      BY <1>2, <2>1, <2>2
<1>6. CASE op = "deleteMessages"
  <2>1. After(op, i, d) = [d EXCEPT !.msgs = <<>>]
      BY <1>6 DEF After, WithoutMessages
  <2>2. <<>> \in Seq(Nat)
      OBVIOUS
  <2> QED
      BY <1>2, <2>1, <2>2
<1>7. CASE op = "truncate"
    BY <1>7, TruncatedType DEF After
<1>8. CASE op = "saveMeta"
  <2>1. i \in Metas /\ After(op, i, d) = [d EXCEPT !.metas = d.metas \cup {i}]
      BY <1>8 DEF After, Fitting, WithMeta
  <2> QED
      BY <1>1, <1>3, <2>1
<1>9. CASE op = "deleteMetas"
    BY <1>3, <1>9 DEF After, WithoutMetas
<1>10. CASE op = "savePair"
  <2>1. i \in Pairs /\ After(op, i, d) = [d EXCEPT !.pairs = d.pairs \cup {i}]
      BY <1>10 DEF After, Fitting, WithPair
  <2> QED
      BY <1>1, <1>4, <2>1
<1>11. CASE op = "deleteSession"
    BY <1>11, EmptyType DEF After
<1> QED
    BY <1>5, <1>6, <1>7, <1>8, <1>9, <1>10, <1>11 DEF SessionOps

LEMMA FoundType ==
    ASSUME TierTypes, NEW r, r.s \in Sessions, r.op \in ReadOps
    PROVE  Found(r) \in SessionRecords
<1>1. disk[r.s] \in SessionRecords /\ files \subseteq Pairs
    BY DEF TierTypes
<1>2. disk[r.s].msgs \in Seq(Nat) /\ disk[r.s].metas \subseteq Metas
    BY <1>1 DEF SessionRecords
<1>3. /\ \A q \in Seq(Nat) : [Empty EXCEPT !.msgs = q] \in SessionRecords
      /\ \A m \in SUBSET Metas : [Empty EXCEPT !.metas = m] \in SessionRecords
      /\ \A q \in SUBSET Pairs : [Empty EXCEPT !.pairs = q] \in SessionRecords
  <2>1. Empty \in SessionRecords
      BY EmptyType
  <2> QED
      BY <2>1 DEF SessionRecords
<1>4. ColdMessages(r.s) \in SessionRecords
    BY <1>2, <1>3 DEF ColdMessages
<1>5. ColdMetas(r.s) \in SessionRecords /\ ColdMeta(r.s, r.item) \in SessionRecords
    BY <1>2, <1>3 DEF ColdMetas, ColdMeta
<1>6. ColdPairs \in SessionRecords /\ ColdPair(r.item) \in SessionRecords
    BY <1>1, <1>3 DEF ColdPairs, ColdPair
<1> QED
    BY <1>1, <1>4, <1>5, <1>6 DEF Found, ReadOps

\* Where a read goes on.
LEMMA CopiedType ==
    ASSUME NEW r, IsRequest(r), NEW todo \in SessionRecords, r.s \in Sessions
    PROVE  LET c == Copied(r, todo)
           IN  /\ IsRequest(c)
               /\ c.pc \in {"refill", "trim", "idle"}
               /\ c.pc # "idle" => c.s = r.s
               /\ c.pc = "refill" => c.todo = todo
               /\ c.pc = "refill" <=> todo # Empty
<1>1. /\ [r EXCEPT !.pc = "refill", !.todo = todo].pc = "refill"
      /\ [r EXCEPT !.pc = "refill", !.todo = todo].s = r.s
      /\ [r EXCEPT !.pc = "refill", !.todo = todo].todo = todo
    BY DEF IsRequest
<1>2. /\ [Idle EXCEPT !.pc = "trim", !.s = r.s].pc = "trim"
      /\ [Idle EXCEPT !.pc = "trim", !.s = r.s].s = r.s
    BY DEF Idle
<1>3. /\ IsRequest(Copied(r, todo)) /\ Copied(r, todo).pc \in {"refill", "trim", "idle"}
    BY CopiedRequest
<1>4. CASE todo # Empty
    BY <1>1, <1>3, <1>4 DEF Copied
<1>5. CASE todo = Empty /\ r.over
    BY <1>2, <1>3, <1>5 DEF Copied
<1>6. CASE todo = Empty /\ ~ r.over
    BY <1>3, <1>6, IdleRequest DEF Copied
<1> QED
    BY <1>4, <1>5, <1>6

----------------------------------------------------------------------------
(* The steps of the requests.                                              *)

\* What is under way is what was started and what was not, before a step and after it.
LEMMA PendingIs == Pending = jobs \cup Unstarted /\ Pending' = jobs' \cup Unstarted'
<1> QED
    BY DEF Pending, Unstarted

\* A step that starts no job and ends none.
LEMMA TypesStay ==
    ASSUME Requests, LayeredTypes, TierTypes', HistoryTypes', RequestTypes',
           jobs' = jobs, fileMu' = fileMu, Unstarted' = Unstarted, clock' \in Nat, clock <= clock',
           \A p \in Procs : proc'[p].pc = "spawn" => proc[p].pc = "spawn" /\ proc'[p].id = proc[p].id
    PROVE  LayeredTypes'
<1>1. Pending' = Pending
    BY PendingIs
<1>2. PendingTypes'
  <2> SUFFICES ASSUME NEW j \in Pending PROVE (JobFits(j) /\ j.id <= clock)'
      BY <1>1 DEF PendingTypes
  <2>1. JobFits(j) /\ j.id <= clock
      BY DEF LayeredTypes, PendingTypes
  <2>2. j.id \in Nat
      BY <2>1 DEF JobFits, JobRecords
  <2> QED
      BY <2>1, <2>2 DEF JobFits, Requests
<1>3. OwnNumbers'
    BY DEF LayeredTypes, OwnNumbers
<1>4. MutexOwned'
    BY DEF LayeredTypes, MutexOwned, InFile, At, FileOfJob
<1> QED
    BY <1>2, <1>3, <1>4 DEF LayeredTypes

LEMMA RequestTypesStay ==
    ASSUME Requests, LayeredTypes, NEW p \in Procs, NEW r, IsRequest(r), RequestFits(r),
           proc' = [proc EXCEPT ![p] = r]
    PROVE  RequestTypes'
<1>1. \A x \in Procs : proc'[x] = IF x = p THEN r ELSE proc[x]
    BY DEF Requests
<1> QED
    BY <1>1 DEF LayeredTypes, RequestTypes, RequestFits

\* The step of a request that has no job to start, and does not come to have one.
LEMMA TypesGoOn ==
    ASSUME Requests, LayeredTypes, TierTypes', HistoryTypes', NEW p \in Procs, NEW r,
           IsRequest(r), RequestFits(r), r.pc # "spawn", proc[p].pc # "spawn",
           proc' = [proc EXCEPT ![p] = r], jobs' = jobs, fileMu' = fileMu,
           clock' \in Nat, clock <= clock'
    PROVE  LayeredTypes'
<1>1. proc'[p] = r /\ \A x \in Procs \ {p} : proc'[x] = proc[x]
    BY Replaced
<1>2. Unstarted' = Unstarted
    BY <1>1, UnstartedSame
<1>3. RequestTypes'
    BY RequestTypesStay
<1> QED
    BY <1>1, <1>2, <1>3, TypesStay

\* No request at all takes the step.
LEMMA TypesKept ==
    ASSUME Requests, LayeredTypes, TierTypes', HistoryTypes',
           UNCHANGED <<proc, jobs, fileMu, clock>>
    PROVE  LayeredTypes'
<1>1. Unstarted' = Unstarted
    BY DEF Unstarted, JobOf
<1>2. RequestTypes'
    BY DEF LayeredTypes, RequestTypes, RequestFits
<1> QED
    BY <1>1, <1>2, TypesStay DEF Requests

LEMMA IdleFits == IsRequest(Idle) /\ RequestFits(Idle) /\ Idle.pc = "idle"
<1> QED
    BY IdleRequest DEF RequestFits, ProcPcs

\* What a write makes of its session.
LEMMA HistoryOfWrite ==
    ASSUME HistoryTypes, TierTypes, NEW p \in Procs, NEW s \in Sessions,
           NEW op \in SessionOps \cup {"savePair"}, NEW i, Fitting(op, i, clock + 1), clock \in Nat,
           WriteHot(p, s, op, i)
    PROVE  TierTypes' /\ HistoryTypes'
<1>1. After(op, i, hot[s]) \in SessionRecords
    BY AfterType DEF TierTypes
<1>2. TierTypes'
    BY <1>1 DEF TierTypes, WriteHot
<1>3. CASE op \in SessionOps
  <2>1. Saved(op, i) \subseteq Items
      BY <1>3 DEF Saved, Items, Fitting
  <2>2. Deleted(op, hot[s], kept[s]) \subseteq Items
    <3>1. kept[s] \subseteq Items
        BY DEF HistoryTypes
    <3>2. ToSet(hot[s].msgs) \subseteq Items
        BY DEF TierTypes, SessionRecords, ToSet, Items
    <3>3. op = "truncate" => Deleted(op, hot[s], kept[s]) \subseteq Items
        BY <3>2 DEF Deleted
    <3>4. op # "truncate" => Deleted(op, hot[s], kept[s]) \subseteq Items
        BY <3>1 DEF Deleted
    <3> QED
        BY <3>3, <3>4
  <2> DEFINE k == ((kept[s] \ Deleted(op, hot[s], kept[s])) \ Doubtful(op, hot[s], kept[s]))
                    \cup Saved(op, i)
             d == (dropped[s] \cup Deleted(op, hot[s], kept[s])) \ Saved(op, i)
             f == IF Refilling(s) = {} THEN {} ELSE {"mixed"}
  <2>3. k \subseteq Items /\ d \subseteq Items /\ f \subseteq Flaws
      BY <2>1, <2>2 DEF HistoryTypes, Flaws
  <2>4. kept' = [kept EXCEPT ![s] = k] /\ dropped' = [dropped EXCEPT ![s] = d]
        /\ flaws' = [flaws EXCEPT ![s] = @ \cup f]
      BY <1>3 DEF WriteHot, Flawed
  <2> HIDE DEF k, d, f
  <2> QED
      BY <1>2, <2>3, <2>4 DEF HistoryTypes
<1>4. CASE op \notin SessionOps
    BY <1>2, <1>4 DEF WriteHot, history, HistoryTypes
<1> QED
    BY <1>3, <1>4

\* An operation has changed the hot tier, and has a number of its own.
LEMMA TypesOfWrite ==
    ASSUME LayeredInv, LayeredTypes, NEW p \in Procs, NEW s \in Sessions,
           NEW op \in SessionOps \cup {"savePair"}, NEW i, Fitting(op, i, clock + 1),
           proc[p].pc # "spawn", WriteHot(p, s, op, i)
    PROVE  LayeredTypes'
<1> DEFINE r == [Idle EXCEPT !.pc = "spawn", !.op = op, !.s = s, !.item = i, !.id = clock + 1]
           x == [op |-> op, s |-> s, item |-> i, id |-> clock + 1, pc |-> "start", data |-> {}]
<1>1. Requests /\ clock \in Nat
    BY DEF LayeredInv, Requests
<1>2. TierTypes' /\ HistoryTypes'
    BY <1>1, HistoryOfWrite DEF LayeredTypes
<1>3. /\ IsRequest(r) /\ r.pc = "spawn" /\ r.op = op /\ r.s = s /\ r.item = i /\ r.id = clock + 1
    BY DEF IsRequest, Idle
<1>4. proc' = [proc EXCEPT ![p] = r] /\ clock' = clock + 1 /\ jobs' = jobs /\ fileMu' = fileMu
    BY DEF WriteHot
<1> HIDE DEF r
<1>5. RequestFits(r)
    BY <1>3 DEF RequestFits, ProcPcs
<1>6. RequestTypes'
    BY <1>1, <1>3, <1>4, <1>5, RequestTypesStay
<1>7. proc'[p] = r /\ \A q \in Procs \ {p} : proc'[q] = proc[q]
    BY <1>1, <1>3, <1>4, Replaced
<1>8. JobOf(p)' = x
    BY <1>3, <1>7 DEF JobOf
<1>9. Unstarted' = Unstarted \cup {JobOf(p)'}
    BY JobPrepared DEF Fitting
<1>10. Pending' = Pending \cup {x}
    BY <1>4, <1>8, <1>9, PendingIs
<1>11. JobFits(x) /\ x.id = clock + 1
  <2>1. i \in Nat \cup Metas \cup Pairs \cup {None}
      BY <1>1 DEF Fitting
  <2>2. x \in JobRecords
      BY <1>1, <2>1 DEF JobRecords
  <2> QED
      BY <2>2 DEF JobFits
<1> HIDE DEF x
<1>12. \A j \in Pending : j.id \in Nat /\ j.id <= clock
    BY DEF LayeredTypes, PendingTypes, JobFits, JobRecords
<1>13. PendingTypes'
  <2> SUFFICES ASSUME NEW j \in Pending' PROVE (JobFits(j) /\ j.id <= clock)'
      BY DEF PendingTypes
  <2>1. CASE j = x
      BY <1>1, <1>4, <1>11, <2>1 DEF JobFits
  <2>2. CASE j \in Pending
    <3>1. JobFits(j) /\ j.id <= clock'
        BY <1>1, <1>4, <1>12, <2>2 DEF LayeredTypes, PendingTypes
    <3> QED
        BY <3>1 DEF JobFits
  <2> QED
      BY <1>10, <2>1, <2>2
<1>14. OwnNumbers'
  <2>1. \A q \in Procs : proc[q].pc = "spawn" => proc[q].id \in Nat /\ proc[q].id <= clock
    <3> SUFFICES ASSUME NEW q \in Procs, proc[q].pc = "spawn"
                 PROVE  proc[q].id \in Nat /\ proc[q].id <= clock
        OBVIOUS
    <3>1. JobOf(q) \in Pending /\ JobOf(q).id = proc[q].id
        BY DEF Pending, JobOf
    <3> QED
        BY <1>12, <3>1
  <2>2. \A j \in jobs : j.id \in Nat /\ j.id <= clock
      BY <1>12, PendingIs
  <2>3. r.id > clock
      BY <1>1, <1>3
  <2>4. \A q1, q2 \in Procs :
            proc'[q1].pc = "spawn" /\ proc'[q2].pc = "spawn" /\ proc'[q1].id = proc'[q2].id => q1 = q2
      BY <1>1, <1>7, <2>1, <2>3 DEF LayeredTypes, OwnNumbers
  <2>5. \A j \in jobs, q \in Procs : proc'[q].pc = "spawn" => j.id # proc'[q].id
      BY <1>1, <1>7, <2>2, <2>3 DEF LayeredTypes, OwnNumbers
  <2> QED
      BY <1>4, <2>4, <2>5 DEF LayeredTypes, OwnNumbers
<1>15. MutexOwned'
    BY <1>4 DEF LayeredTypes, MutexOwned, InFile, At, FileOfJob
<1> QED
    BY <1>2, <1>6, <1>13, <1>14, <1>15 DEF LayeredTypes

\* Starting the goroutine of an operation changes nothing of what is under way.
LEMMA PendingSpawned ==
    ASSUME Requests, NEW p \in Procs, Spawn(p)
    PROVE  /\ Pending' = Pending
           /\ proc'[p] = Returned(proc[p])
           /\ IsRequest(proc'[p]) /\ proc'[p].pc \in {"idle", "count"}
           /\ proc'[p].pc = "count" => /\ proc'[p].s = proc[p].s /\ MaxMessages > 0
                                       /\ proc[p].op = "saveMessage"
           /\ proc'[p].pc = "idle" => (proc[p].op = "saveMessage" => ~ (MaxMessages > 0))
           /\ \A x \in Procs \ {p} : proc'[x] = proc[x]
<1> DEFINE r == Returned(proc[p])
           c == [Idle EXCEPT !.pc = "count", !.s = proc[p].s]
<1>1. proc[p].pc = "spawn" /\ proc' = [proc EXCEPT ![p] = r] /\ jobs' = jobs \cup {JobOf(p)}
    BY DEF Requests, Spawn
<1>2. IsRequest(c) /\ c.pc = "count" /\ c.s = proc[p].s
    BY DEF Idle, IsRequest
<1> HIDE DEF c
<1>3. /\ IsRequest(r) /\ r.pc \in {"idle", "count"}
      /\ r.pc = "count" => r.s = proc[p].s /\ MaxMessages > 0 /\ proc[p].op = "saveMessage"
      /\ r.pc = "idle" => (proc[p].op = "saveMessage" => ~ (MaxMessages > 0))
  <2>1. r = IF proc[p].op = "saveMessage" /\ MaxMessages > 0 THEN c ELSE Idle
      BY DEF Returned, c
  <2> QED
      BY <1>2, <2>1, IdleFits
<1> HIDE DEF r
<1>4. proc'[p] = r /\ \A x \in Procs \ {p} : proc'[x] = proc[x]
    BY <1>1, <1>3, Replaced
<1>5. Unstarted \subseteq Unstarted' \cup {JobOf(p)} /\ Unstarted' \subseteq Unstarted
      /\ JobOf(p) \in Unstarted
  <2>1. \A x \in Procs \ {p} : JobOf(x)' = JobOf(x) /\ proc'[x].pc = proc[x].pc
      BY <1>4 DEF JobOf
  <2>2. proc'[p].pc # "spawn"
      BY <1>3, <1>4
  <2> QED
      BY <1>1, <2>1, <2>2 DEF Unstarted
<1>6. Pending' = Pending
    BY <1>1, <1>5, PendingIs
<1> QED
    BY <1>3, <1>4, <1>6 DEF r

LEMMA TypesOfSpawn ==
    ASSUME LayeredInv, LayeredTypes, NEW p \in Procs, Spawn(p)
    PROVE  LayeredTypes'
<1>1. Requests
    BY DEF LayeredInv
<1>2. /\ Pending' = Pending
      /\ proc'[p] = Returned(proc[p])
      /\ IsRequest(proc'[p]) /\ proc'[p].pc \in {"idle", "count"}
      /\ proc'[p].pc = "count" => proc'[p].s = proc[p].s
      /\ \A x \in Procs \ {p} : proc'[x] = proc[x]
    BY <1>1, PendingSpawned
<1>3. proc[p].pc = "spawn" /\ jobs' = jobs \cup {JobOf(p)} /\ fileMu' = fileMu /\ clock' = clock
      /\ UNCHANGED <<tiers, phase, history>>
    BY DEF Spawn
<1>4. TierTypes' /\ HistoryTypes'
    BY <1>3 DEF LayeredTypes, TierTypes, HistoryTypes, tiers, history
<1>5. JobOf(p) \in Pending /\ JobOf(p).s = proc[p].s /\ JobOf(p).id = proc[p].id
      /\ JobOf(p).pc = "start"
    BY <1>3 DEF Pending, JobOf
<1>6. RequestTypes'
  <2>1. proc[p].s \in Sessions
      BY <1>5 DEF LayeredTypes, PendingTypes, JobFits, JobRecords
  <2>2. RequestFits(proc'[p])
      BY <1>2, <2>1 DEF RequestFits, ProcPcs
  <2>3. \A x \in Procs : RequestFits(proc'[x])
      BY <1>2, <2>2 DEF LayeredTypes, RequestTypes
  <2> QED
      BY <2>3 DEF RequestTypes, RequestFits
<1>7. PendingTypes'
    BY <1>2, <1>3 DEF LayeredTypes, PendingTypes, JobFits
<1>8. OwnNumbers'
  <2>1. proc'[p].pc # "spawn"
      BY <1>2
  <2>2. \A x \in Procs : proc'[x].pc = "spawn" => x # p /\ proc'[x] = proc[x]
      BY <1>2, <2>1
  <2>3. \A j \in jobs', x \in Procs : proc'[x].pc = "spawn" => j.id # proc'[x].id
      BY <1>3, <1>5, <2>2 DEF LayeredTypes, OwnNumbers
  <2>4. \A j, k \in jobs' : j.id = k.id => j = k
      BY <1>3, <1>5 DEF LayeredTypes, OwnNumbers
  <2> QED
      BY <2>2, <2>3, <2>4 DEF LayeredTypes, OwnNumbers
<1>9. MutexOwned'
    BY <1>3 DEF LayeredTypes, MutexOwned, InFile, At, FileOfJob
<1> QED
    BY <1>4, <1>6, <1>7, <1>8, <1>9 DEF LayeredTypes

----------------------------------------------------------------------------
(* The steps of the jobs.                                                  *)

\* A job ends, or goes on under its number.
LEMMA TypesOfJob ==
    ASSUME LayeredTypes, TierTypes', HistoryTypes', NEW j \in jobs, NEW k, proc' = proc, clock' = clock,
           jobs' \subseteq (jobs \ {j}) \cup {k}, JobFits(k), k.id = j.id, MutexOwned'
    PROVE  LayeredTypes'
<1>1. RequestTypes'
    BY DEF LayeredTypes, RequestTypes, RequestFits
<1>2. Unstarted' = Unstarted
    BY DEF Unstarted, JobOf
<1>3. \A x \in Pending' : x \in Pending \/ (x = k /\ j \in Pending)
    BY <1>2, PendingIs
<1>4. PendingTypes'
  <2> SUFFICES ASSUME NEW x \in Pending' PROVE (JobFits(x) /\ x.id <= clock)'
      BY DEF PendingTypes
  <2> QED
      BY <1>3 DEF LayeredTypes, PendingTypes, JobFits
<1>5. OwnNumbers'
    BY DEF LayeredTypes, OwnNumbers
<1> QED
    BY <1>1, <1>4, <1>5 DEF LayeredTypes

LEMMA TypesOfSessionJob ==
    ASSUME LayeredInv, LayeredTypes, NEW j \in jobs, WriteCold(j)
    PROVE  LayeredTypes'
<1>1. JobFits(j)
    BY PendingIs DEF LayeredTypes, PendingTypes
<1>2. j.op \in SessionOps /\ j.s \in Sessions /\ j.id \in Nat /\ Fitting(j.op, j.item, j.id)
    BY <1>1 DEF WriteCold, JobFits, JobRecords
<1>3. After(j.op, j.item, disk[j.s]) \in SessionRecords
    BY <1>2, AfterType DEF LayeredTypes, TierTypes
<1>4. TierTypes'
    BY <1>2, <1>3 DEF LayeredTypes, TierTypes, WriteCold
<1>5. HistoryTypes'
    BY DEF LayeredTypes, HistoryTypes, WriteCold, Flawed, Flaws
<1>6. MutexOwned'
    BY <1>2 DEF LayeredTypes, MutexOwned, InFile, At, FileOfJob, WriteCold, SessionOps
<1>7. jobs' = jobs \ {j} /\ proc' = proc /\ clock' = clock
    BY DEF WriteCold
<1> QED
    BY <1>1, <1>4, <1>5, <1>6, <1>7, TypesOfJob

LEMMA TypesOfFileJob ==
    ASSUME LayeredInv, LayeredTypes, NEW j \in jobs,
           LockFile(j) \/ LoadFile(j) \/ StoreFile(j) \/ PairFails(j)
    PROVE  LayeredTypes'
<1>1. JobFits(j) /\ j.op = "savePair"
    BY PendingIs DEF LayeredTypes, PendingTypes, LockFile, LoadFile, StoreFile, PairFails, At
<1>2. j.item \in Pairs /\ j.data \subseteq Pairs /\ FileOfJob(j) \in Files /\ DOMAIN fileMu = Files
      /\ j.id # 0
    BY <1>1, JobFile DEF JobFits, JobRecords, LayeredInv, MutexHeld
<1>3. HistoryTypes' /\ proc' = proc /\ clock' = clock
    BY DEF LayeredTypes, HistoryTypes, LockFile, LoadFile, StoreFile, PairFails, history
<1>4. CASE LockFile(j)
  <2> DEFINE k == [j EXCEPT !.pc = "load"]
  <2>1. JobFits(k) /\ k.id = j.id /\ k.op = "savePair" /\ k.item = j.item /\ k.pc = "load"
      BY <1>1 DEF JobFits, JobRecords
  <2>2. TierTypes' /\ jobs' = (jobs \ {j}) \cup {k} /\ fileMu' = [fileMu EXCEPT ![FileOfJob(j)] = j.id]
        /\ j.pc = "start"
      BY <1>4 DEF LockFile, LayeredTypes, TierTypes, tiers, At
  <2> HIDE DEF k
  <2>3. MutexOwned'
    <3> SUFFICES ASSUME NEW f \in Files, fileMu'[f] # 0
                 PROVE  \E x \in jobs' : InFile(x) /\ FileOfJob(x) = f
        BY DEF MutexOwned, InFile, At, FileOfJob
    <3>1. CASE f = FileOfJob(j)
        BY <2>1, <2>2, <3>1 DEF InFile, At, FileOfJob
    <3>2. CASE f # FileOfJob(j)
      <4>1. PICK x \in jobs : InFile(x) /\ FileOfJob(x) = f
          BY <1>2, <2>2, <3>2 DEF LayeredTypes, MutexOwned
      <4> QED
          BY <2>2, <3>2, <4>1
    <3> QED
        BY <3>1, <3>2
  <2> QED
      BY <1>3, <2>1, <2>2, <2>3, TypesOfJob
<1>5. CASE LoadFile(j)
  <2> DEFINE data == files \cap PairsIn(FileOfJob(j))
             k == [j EXCEPT !.pc = "store", !.data = data]
  <2>1. data \subseteq Pairs
      BY DEF PairsIn
  <2> HIDE DEF data
  <2>2. JobFits(k) /\ k.id = j.id /\ k.op = "savePair" /\ k.item = j.item /\ k.pc = "store"
      BY <1>1, <2>1 DEF JobFits, JobRecords
  <2>3. TierTypes' /\ jobs' = (jobs \ {j}) \cup {k} /\ fileMu' = fileMu
      BY <1>5 DEF LoadFile, LayeredTypes, TierTypes, tiers, data
  <2> HIDE DEF k
  <2>4. MutexOwned'
    <3> SUFFICES ASSUME NEW f \in Files, fileMu'[f] # 0
                 PROVE  \E x \in jobs' : InFile(x) /\ FileOfJob(x) = f
        BY DEF MutexOwned, InFile, At, FileOfJob
    <3>1. PICK x \in jobs : InFile(x) /\ FileOfJob(x) = f
        BY <2>3 DEF LayeredTypes, MutexOwned
    <3>2. FileOfJob(k) = FileOfJob(j) /\ InFile(k)
        BY <2>2 DEF FileOfJob, InFile, At
    <3> QED
        BY <2>3, <3>1, <3>2
  <2> QED
      BY <1>3, <2>2, <2>3, <2>4, TypesOfJob
<1>6. CASE StoreFile(j) \/ PairFails(j)
  <2>1. jobs' = jobs \ {j} /\ fileMu' = [fileMu EXCEPT ![FileOfJob(j)] = 0] /\ TierTypes'
      BY <1>2, <1>6 DEF StoreFile, PairFails, LayeredTypes, TierTypes, tiers
  <2>2. MutexOwned'
    <3> SUFFICES ASSUME NEW f \in Files, fileMu'[f] # 0
                 PROVE  \E x \in jobs' : InFile(x) /\ FileOfJob(x) = f
        BY DEF MutexOwned, InFile, At, FileOfJob
    <3>1. f # FileOfJob(j)
        BY <1>2, <2>1
    <3>2. PICK x \in jobs : InFile(x) /\ FileOfJob(x) = f
        BY <1>2, <2>1, <3>1 DEF LayeredTypes, MutexOwned
    <3> QED
        BY <2>1, <3>1, <3>2
  <2> QED
      BY <1>1, <1>3, <2>1, <2>2, TypesOfJob
<1> QED
    BY <1>4, <1>5, <1>6

----------------------------------------------------------------------------
(* The other steps.                                                        *)

LEMMA TypesOfReadBegins ==
    ASSUME LayeredInv, LayeredTypes, NEW p \in Procs, NEW s \in Sessions, NEW op \in ReadOps,
           NEW i, Missing(p, s, op, i)
    PROVE  LayeredTypes'
<1> DEFINE r == [Idle EXCEPT !.pc = "cold", !.op = op, !.s = s, !.item = i]
<1>1. Requests /\ clock \in Nat
    BY DEF LayeredInv, Requests
<1>2. IsRequest(r) /\ r.pc = "cold" /\ r.s = s /\ r.op = op
    BY DEF Idle, IsRequest
<1>3. /\ proc[p].pc # "spawn" /\ proc' = [proc EXCEPT ![p] = r] /\ clock' = clock + 1
      /\ UNCHANGED <<tiers, fileMu, jobs, phase, history>>
    BY DEF Missing, Starting
<1> HIDE DEF r
<1>4. RequestFits(r) /\ r.pc # "spawn"
    BY <1>2 DEF RequestFits, ProcPcs
<1>5. TierTypes' /\ HistoryTypes'
    BY <1>3 DEF LayeredTypes, TierTypes, HistoryTypes, tiers, history
<1>6. jobs' = jobs /\ fileMu' = fileMu /\ clock' \in Nat /\ clock <= clock'
    BY <1>1, <1>3
<1> QED
    BY <1>1, <1>2, <1>3, <1>4, <1>5, <1>6, TypesGoOn

LEMMA TypesOfReadCold ==
    ASSUME LayeredInv, LayeredTypes, NEW p \in Procs, ReadCold(p)
    PROVE  LayeredTypes'
<1> DEFINE todo == Found(proc[p])
           over == proc[p].op = "count" /\ Len(todo.msgs) > MaxMessages
           r == [proc[p] EXCEPT !.over = over]
<1>1. Requests /\ clock \in Nat /\ IsRequest(proc[p]) /\ proc[p].pc = "cold" /\ RequestFits(proc[p])
    BY DEF LayeredInv, Requests, ReadCold, LayeredTypes, RequestTypes
<1>2. todo \in SessionRecords
    BY <1>1, FoundType DEF LayeredTypes, RequestFits
<1>3. /\ proc' = [proc EXCEPT ![p] = Copied(r, todo)] \/ proc' = [proc EXCEPT ![p] = Idle]
      /\ UNCHANGED <<tiers, fileMu, jobs, phase, clock, kept, dropped>>
      /\ flaws' = flaws \/ \E w \in {{}, {"mixed"}} : flaws' = Flawed(proc[p].s, w)
    BY DEF ReadCold
<1>4. TierTypes' /\ HistoryTypes'
    BY <1>3 DEF LayeredTypes, TierTypes, HistoryTypes, tiers, Flawed, Flaws
<1>5. IsRequest(r) /\ r.s = proc[p].s
    BY <1>1 DEF IsRequest
<1> HIDE DEF r, todo
<1>6. IsRequest(Copied(r, todo)) /\ RequestFits(Copied(r, todo)) /\ Copied(r, todo).pc # "spawn"
    BY <1>1, <1>2, <1>5, CopiedType DEF RequestFits, ProcPcs
<1>7. jobs' = jobs /\ fileMu' = fileMu /\ clock' \in Nat /\ clock <= clock' /\ proc[p].pc # "spawn"
      /\ Idle.pc # "spawn"
    BY <1>1, <1>3, IdleFits
<1> QED
    BY <1>1, <1>3, <1>4, <1>6, <1>7, IdleFits, TypesGoOn

LEMMA TypesOfRefill ==
    ASSUME LayeredInv, LayeredTypes, NEW p \in Procs, Refill(p)
    PROVE  LayeredTypes'
<1>1. Requests /\ clock \in Nat /\ IsRequest(proc[p]) /\ proc[p].pc = "refill" /\ RequestFits(proc[p])
    BY DEF LayeredInv, Requests, Refill, LayeredTypes, RequestTypes
<1> DEFINE r == proc[p]
           todo == proc[p].todo
<1>2. todo \in SessionRecords /\ hot[r.s] \in SessionRecords /\ r.s \in Sessions
    BY <1>1 DEF RequestFits, LayeredTypes, TierTypes
<1>3. UNCHANGED <<disk, fileMu, jobs, phase, clock, history>> /\ files' = files
    BY DEF Refill, PutPair
<1>4. \E d \in SessionRecords, h \in SessionRecords :
         proc' = [proc EXCEPT ![p] = Copied(r, d)] /\ hot' = [hot EXCEPT ![r.s] = h]
  <2>1. CASE todo.msgs # <<>> /\ PutMessage(p, Head(todo.msgs))
             /\ proc' = [proc EXCEPT ![p] = Copied(r, [todo EXCEPT !.msgs = Tail(@)])]
    <3>1. Head(todo.msgs) \in Nat /\ Tail(todo.msgs) \in Seq(Nat)
        BY <1>2, <2>1 DEF SessionRecords
    <3>2. [todo EXCEPT !.msgs = Tail(@)] \in SessionRecords
        BY <1>2, <3>1 DEF SessionRecords
    <3>3. WithMessage(hot[r.s], Head(todo.msgs)) \in SessionRecords
      <4>1. Append(hot[r.s].msgs, Head(todo.msgs)) \in Seq(Nat)
          BY <1>2, <3>1 DEF SessionRecords
      <4> QED
          BY <1>2, <4>1 DEF SessionRecords, WithMessage
    <3> QED
        BY <2>1, <3>2, <3>3 DEF PutMessage
  <2>2. ASSUME NEW i \in todo.metas, PutMeta(p, i),
               proc' = [proc EXCEPT ![p] = Copied(r, [todo EXCEPT !.metas = @ \ {i}])]
        PROVE  \E d \in SessionRecords, h \in SessionRecords :
                  proc' = [proc EXCEPT ![p] = Copied(r, d)] /\ hot' = [hot EXCEPT ![r.s] = h]
    <3>1. [todo EXCEPT !.metas = @ \ {i}] \in SessionRecords /\ i \in Metas
        BY <1>2 DEF SessionRecords
    <3>2. WithMeta(hot[r.s], i) \in SessionRecords
        BY <1>2, <3>1 DEF SessionRecords, WithMeta
    <3> QED
        BY <2>2, <3>1, <3>2 DEF PutMeta
  <2>3. ASSUME NEW q \in todo.pairs, PutPair(p, q),
               proc' = [proc EXCEPT ![p] = Copied(r, [todo EXCEPT !.pairs = @ \ {q}])]
        PROVE  \E d \in SessionRecords, h \in SessionRecords :
                  proc' = [proc EXCEPT ![p] = Copied(r, d)] /\ hot' = [hot EXCEPT ![r.s] = h]
    <3>1. [todo EXCEPT !.pairs = @ \ {q}] \in SessionRecords /\ q \in Pairs
        BY <1>2 DEF SessionRecords
    <3>2. WithPair(hot[r.s], q) \in SessionRecords
        BY <1>2, <3>1 DEF SessionRecords, WithPair
    <3> QED
        BY <2>3, <3>1, <3>2 DEF PutPair
  <2> QED
      BY <1>1, <2>1, <2>2, <2>3 DEF Refill, Requests
<1>5. PICK d \in SessionRecords, h \in SessionRecords :
         proc' = [proc EXCEPT ![p] = Copied(r, d)] /\ hot' = [hot EXCEPT ![r.s] = h]
    BY <1>4
<1>6. TierTypes' /\ HistoryTypes'
    BY <1>3, <1>5 DEF LayeredTypes, TierTypes, HistoryTypes, history
<1>7. IsRequest(Copied(r, d)) /\ RequestFits(Copied(r, d)) /\ Copied(r, d).pc # "spawn"
    BY <1>1, <1>2, CopiedType DEF RequestFits, ProcPcs
<1>8. jobs' = jobs /\ fileMu' = fileMu /\ clock' \in Nat /\ clock <= clock' /\ proc[p].pc # "spawn"
    BY <1>1, <1>3
<1> QED
    BY <1>1, <1>5, <1>6, <1>7, <1>8, TypesGoOn

LEMMA TypesOfRequestSteps ==
    ASSUME LayeredInv, LayeredTypes, NEW p \in Procs,
           CountMessages(p) \/ DeleteAllPlaceholders(p) \/ LockAll(p) \/ RemoveDir(p) \/ Cleared(p)
    PROVE  LayeredTypes'
<1>1. Requests /\ clock \in Nat /\ IsRequest(proc[p]) /\ RequestFits(proc[p])
    BY DEF LayeredInv, Requests, LayeredTypes, RequestTypes
<1>2. /\ proc[p].pc # "spawn" /\ clock' \in Nat /\ clock <= clock' /\ jobs' = jobs
      /\ fileMu' = fileMu
    BY <1>1 DEF CountMessages, DeleteAllPlaceholders, Starting, LockAll, RemoveDir, Cleared, tiers
<1>3. TierTypes' /\ HistoryTypes'
  <2>1. CASE CountMessages(p) \/ LockAll(p) \/ Cleared(p)
      BY <2>1 DEF CountMessages, LockAll, Cleared, LayeredTypes, TierTypes, HistoryTypes, tiers, history
  <2>2. CASE RemoveDir(p)
      BY <2>2 DEF RemoveDir, LayeredTypes, TierTypes, HistoryTypes, history
  <2>3. CASE DeleteAllPlaceholders(p)
    <3>1. hot' = [s \in Sessions |-> Empty] /\ disk' = disk /\ files' = files /\ phase' = phase
          /\ kept' = kept /\ dropped' = dropped
        BY <2>3 DEF DeleteAllPlaceholders
    <3>2. flaws' = [s \in Sessions |-> flaws[s] \cup {"reborn"}
                                     \cup IF Refilling(s) = {} THEN {} ELSE {"mixed"}]
        BY <2>3 DEF DeleteAllPlaceholders
    <3>3. flaws' \in [Sessions -> SUBSET Flaws]
        BY <3>2 DEF LayeredTypes, HistoryTypes, Flaws
    <3> QED
        BY <3>1, <3>3, EmptyType DEF LayeredTypes, TierTypes, HistoryTypes
  <2> QED
      BY <2>1, <2>2, <2>3
<1>4. \E r : IsRequest(r) /\ RequestFits(r) /\ r.pc # "spawn" /\ proc' = [proc EXCEPT ![p] = r]
  <2>1. CASE CountMessages(p)
    <3> DEFINE a == [proc[p] EXCEPT !.pc = "cold", !.op = "count"]
               b == [proc[p] EXCEPT !.pc = "trim"]
    <3>1. IsRequest(a) /\ a.pc = "cold" /\ a.op = "count" /\ a.s = proc[p].s
          /\ IsRequest(b) /\ b.pc = "trim" /\ b.s = proc[p].s
        BY <1>1 DEF IsRequest
    <3>2. \/ proc' = [proc EXCEPT ![p] = a]
          \/ proc' = [proc EXCEPT ![p] = b]
          \/ proc' = [proc EXCEPT ![p] = Idle]
        BY <1>1, <2>1 DEF CountMessages, Requests
    <3>3. proc[p].pc = "count"
        BY <2>1 DEF CountMessages
    <3> HIDE DEF a, b
    <3>4. RequestFits(a) /\ RequestFits(b)
        BY <1>1, <3>1, <3>3 DEF RequestFits, ProcPcs, ReadOps
    <3> QED
        BY <3>1, <3>2, <3>4, IdleFits
  <2>2. CASE DeleteAllPlaceholders(p)
    <3> DEFINE a == [Idle EXCEPT !.pc = "lockAll"]
    <3>1. IsRequest(a) /\ a.pc = "lockAll"
        BY DEF Idle, IsRequest
    <3>2. proc' = [proc EXCEPT ![p] = a]
        BY <2>2 DEF DeleteAllPlaceholders
    <3> HIDE DEF a
    <3> QED
        BY <3>1, <3>2 DEF RequestFits, ProcPcs
  <2>3. CASE LockAll(p)
    <3> DEFINE dirs == {FileOf[q] : q \in files}
               r == [proc[p] EXCEPT !.pc = "clear", !.dirs = dirs]
    <3>1. IsRequest(r) /\ r.pc = "clear"
        BY <1>1 DEF IsRequest
    <3>2. proc' = [proc EXCEPT ![p] = r] \/ proc' = [proc EXCEPT ![p] = Idle]
        BY <1>1, <2>3 DEF LockAll, Requests
    <3> HIDE DEF r
    <3> QED
        BY <3>1, <3>2, IdleFits DEF RequestFits, ProcPcs
  <2>4. CASE RemoveDir(p)
    <3>1. PICK f : proc' = [proc EXCEPT ![p].dirs = @ \ {f}]
        BY <2>4 DEF RemoveDir
    <3> DEFINE r == [proc[p] EXCEPT !.dirs = @ \ {f}]
    <3>2. IsRequest(r) /\ r.pc = "clear" /\ proc' = [proc EXCEPT ![p] = r]
        BY <1>1, <2>4, <3>1 DEF IsRequest, RemoveDir, Requests
    <3> HIDE DEF r
    <3> QED
        BY <3>2 DEF RequestFits, ProcPcs
  <2>5. CASE Cleared(p)
      BY <2>5, IdleFits DEF Cleared
  <2> QED
      BY <2>1, <2>2, <2>3, <2>4, <2>5
<1> QED
    BY <1>1, <1>2, <1>3, <1>4, TypesGoOn

LEMMA TypesOfNoRequest ==
    ASSUME LayeredInv, LayeredTypes,
           \/ \E p \in Procs, s \in Sessions : DeletePlaceholders(p, s)
           \/ \E s \in Sessions : CleanHot(s) \/ CleanCold(s)
           \/ Close \/ Closed \/ UNCHANGED layeredVars
    PROVE  LayeredTypes'
<1>1. proc' = proc /\ jobs' = jobs /\ fileMu' = fileMu /\ clock' = clock
    BY DEF DeletePlaceholders, CleanHot, CleanCold, Close, Closed, layeredVars
<1>2. TierTypes' /\ HistoryTypes'
  <2>1. ASSUME NEW p, NEW s \in Sessions, DeletePlaceholders(p, s) PROVE TierTypes' /\ HistoryTypes'
    <3>1. WithoutPairs(hot[s]) \in SessionRecords
        BY DEF LayeredTypes, TierTypes, SessionRecords, WithoutPairs
    <3> QED
        BY <2>1, <3>1 DEF DeletePlaceholders, LayeredTypes, TierTypes, HistoryTypes, history
  <2>2. ASSUME NEW s \in Sessions, CleanHot(s) PROVE TierTypes' /\ HistoryTypes'
      BY <2>2, EmptyType DEF CleanHot, LayeredTypes, TierTypes, HistoryTypes, Flawed, Flaws
  <2>3. ASSUME NEW s \in Sessions, CleanCold(s) PROVE TierTypes' /\ HistoryTypes'
      BY <2>3, EmptyType DEF CleanCold, LayeredTypes, TierTypes, HistoryTypes, Flawed, Flaws
  <2>4. CASE Close \/ Closed \/ UNCHANGED layeredVars
      BY <2>4 DEF Close, Closed, layeredVars, tiers, history, LayeredTypes, TierTypes, HistoryTypes
  <2> QED
      BY <2>1, <2>2, <2>3, <2>4
<1> QED
    BY <1>1, <1>2, TypesKept DEF LayeredInv

LEMMA TypesOfRestart ==
    ASSUME LayeredInv, LayeredTypes, Restart
    PROVE  LayeredTypes'
<1>1. /\ hot' = [s \in Sessions |-> Empty] /\ jobs' = {} /\ fileMu' = [f \in Files |-> 0]
      /\ proc' = [p \in Procs |-> Idle] /\ phase' = "up"
      /\ disk' = disk /\ files' = files /\ kept' = kept /\ dropped' = dropped
    BY DEF Restart
<1>2. flaws' \in [Sessions -> SUBSET Flaws]
  <2>1. flaws' = [s \in Sessions |-> flaws[s] \cup {"reborn"}
                                     \cup IF PendingIn(s) = {} THEN {} ELSE {"failed"}]
      BY DEF Restart
  <2> QED
      BY <2>1 DEF LayeredTypes, HistoryTypes, Flaws
<1>3. TierTypes' /\ HistoryTypes'
    BY <1>1, <1>2, EmptyType DEF LayeredTypes, TierTypes, HistoryTypes
<1>4. \A p \in Procs : proc'[p] = Idle
    BY <1>1
<1>5. RequestTypes'
    BY <1>4, IdleFits DEF RequestTypes, RequestFits
<1>6. Unstarted' = {}
    BY <1>4, IdleFits DEF Unstarted
<1>7. PendingTypes' /\ OwnNumbers'
    BY <1>1, <1>4, <1>6, PendingIs, IdleFits DEF PendingTypes, OwnNumbers
<1>8. MutexOwned'
    BY <1>1 DEF MutexOwned
<1> QED
    BY <1>3, <1>5, <1>7, <1>8 DEF LayeredTypes

----------------------------------------------------------------------------
(* The theorems.                                                           *)

LEMMA LayeredInitTypes == LayeredInit => LayeredTypes
<1> SUFFICES ASSUME LayeredInit PROVE LayeredTypes
    OBVIOUS
<1>1. TierTypes /\ HistoryTypes
    BY EmptyType DEF LayeredInit, TierTypes, HistoryTypes
<1>2. \A p \in Procs : proc[p] = Idle
    BY DEF LayeredInit
<1>3. RequestTypes
    BY <1>2, IdleFits DEF RequestTypes
<1>4. Pending = {}
    BY <1>2, IdleFits DEF LayeredInit, Pending
<1>5. PendingTypes /\ OwnNumbers /\ MutexOwned
    BY <1>2, <1>4, IdleFits DEF LayeredInit, PendingTypes, OwnNumbers, MutexOwned
<1> QED
    BY <1>1, <1>3, <1>5 DEF LayeredTypes

\* The writes of a request, as the steps they are.
LEMMA WriteCases ==
    ASSUME Requests, NEW p \in Procs, NEW s \in Sessions,
           Write(p, s) \/ (TruncateMessages(p) /\ s = proc[p].s)
    PROVE  \/ DeletePlaceholders(p, s)
           \/ \E op \in SessionOps \cup {"savePair"} : \E i :
                 /\ WriteHot(p, s, op, i)
                 /\ Fitting(op, i, clock + 1)
                 /\ proc[p].pc \in {"idle", "trim"}
                 /\ proc[p].pc = "trim" <=> op = "truncate"
<1>1. CASE SaveMessage(p, s) \/ DeleteMessages(p, s) \/ DeleteMaskMeta(p, s) \/ DeleteSession(p, s)
    BY <1>1 DEF SaveMessage, DeleteMessages, DeleteMaskMeta, DeleteSession, Starting, SessionOps, Fitting
<1>2. ASSUME NEW i \in Metas, SaveMaskMeta(p, s, i)
      PROVE  /\ WriteHot(p, s, "saveMeta", i) /\ Fitting("saveMeta", i, clock + 1)
             /\ proc[p].pc = "idle"
    BY <1>2 DEF SaveMaskMeta, Starting, Fitting
<1>3. ASSUME NEW q \in Pairs, SavePlaceholder(p, s, q)
      PROVE  /\ WriteHot(p, s, "savePair", q) /\ Fitting("savePair", q, clock + 1)
             /\ proc[p].pc = "idle"
    BY <1>3 DEF SavePlaceholder, Starting, Fitting
<1>4. CASE TruncateMessages(p) /\ s = proc[p].s
    BY <1>4 DEF TruncateMessages, SessionOps, Fitting
<1> QED
    BY <1>1, <1>2, <1>3, <1>4 DEF Write, SessionOps

LEMMA LayeredNextTypes == LayeredInv /\ LayeredTypes /\ [LayeredNext]_layeredVars => LayeredTypes'
<1> SUFFICES ASSUME LayeredInv, LayeredTypes, [LayeredNext]_layeredVars PROVE LayeredTypes'
    OBVIOUS
<1>1. Requests
    BY DEF LayeredInv
<1>2. ASSUME NEW p \in Procs, NEW s \in Sessions,
             Write(p, s) \/ (TruncateMessages(p) /\ s = proc[p].s)
      PROVE  LayeredTypes'
    BY <1>1, <1>2, WriteCases, TypesOfWrite, TypesOfNoRequest
<1>3. ASSUME NEW p \in Procs, NEW s \in Sessions, Read(p, s) PROVE LayeredTypes'
    BY <1>3, TypesOfReadBegins
    DEF Read, GetMessages, GetAllMaskMeta, GetAllPlaceholders, GetMaskMeta, GetPlaceholder,
        LoadSessionFromDisk, ReadOps
<1>4. ASSUME NEW p \in Procs, DeleteAllPlaceholders(p) \/ Proceed(p) PROVE LayeredTypes'
  <2>1. CASE TruncateMessages(p)
    <3>1. proc[p].s \in Sessions
        BY <2>1 DEF TruncateMessages, LayeredTypes, RequestTypes, RequestFits
    <3> QED
        BY <1>2, <2>1, <3>1
  <2>2. CASE ~ TruncateMessages(p)
      BY <1>4, <2>2, TypesOfSpawn, TypesOfRequestSteps, TypesOfReadCold, TypesOfRefill DEF Proceed
  <2> QED
      BY <2>1, <2>2
<1>5. ASSUME NEW j \in jobs, Job(j) PROVE LayeredTypes'
    BY <1>5, TypesOfSessionJob, TypesOfFileJob DEF Job
<1>6. ASSUME NEW s \in Sessions, CleanHot(s) \/ CleanCold(s) PROVE LayeredTypes'
    BY <1>6, TypesOfNoRequest
<1>7. CASE Close \/ Closed \/ UNCHANGED layeredVars
    BY <1>7, TypesOfNoRequest
<1>8. CASE Restart
    BY <1>8, TypesOfRestart
<1> QED
    BY <1>2, <1>3, <1>4, <1>5, <1>6, <1>7, <1>8 DEF LayeredNext

LEMMA LayeredTypesKept == LayeredSpec => [](LayeredInv /\ LayeredTypes)
<1>1. LayeredInit => LayeredInv /\ LayeredTypes
    BY LayeredInitInv, LayeredInitTypes
<1>2. (LayeredInv /\ LayeredTypes) /\ [LayeredNext]_layeredVars => (LayeredInv /\ LayeredTypes)'
    BY LayeredNextInv, LayeredNextTypes
<1> QED
    BY <1>1, <1>2, PTL DEF LayeredSpec

\* Every variable keeps its type, and the mutex of a placeholder file is held by the one
\* job that is past it and by no other, whatever jobs fail and whatever is cleared
\* meanwhile: no file is left locked.
THEOREM LayeredTypeCorrect == LayeredSpec => []LayeredTypeOK
<1>1. LayeredInv /\ LayeredTypes => LayeredTypeOK
  <2> SUFFICES ASSUME LayeredInv, LayeredTypes PROVE LayeredTypeOK
      OBVIOUS
  <2>1. jobs \subseteq JobRecords
      BY PendingIs DEF LayeredTypes, PendingTypes, JobFits
  <2>2. \A f \in Files :
          {j.id : j \in {k \in jobs : (At(k, "load") \/ At(k, "store")) /\ FileOfJob(k) = f}}
             = {fileMu[f]} \ {0}
    <3> SUFFICES ASSUME NEW f \in Files
                 PROVE  {j.id : j \in {k \in jobs : InFile(k) /\ FileOfJob(k) = f}} = {fileMu[f]} \ {0}
        BY DEF InFile
    <3>1. \A k \in jobs : InFile(k) /\ FileOfJob(k) = f => k.id = fileMu[f] /\ k.id # 0
        BY <2>1 DEF LayeredInv, MutexHeld, JobRecords
    <3>2. fileMu[f] # 0 => \E k \in jobs : InFile(k) /\ FileOfJob(k) = f /\ k.id = fileMu[f]
        BY <3>1 DEF LayeredTypes, MutexOwned
    <3> QED
        BY <3>1, <3>2
  <2>3. \A p \in Procs : proc[p].pc \in ProcPcs
      BY DEF LayeredTypes, RequestTypes, RequestFits
  <2> QED
      BY <2>1, <2>2, <2>3
      DEF LayeredTypeOK, LayeredTypes, TierTypes, HistoryTypes, LayeredInv, Requests
<1> QED
    BY <1>1, LayeredTypesKept, PTL

HIDE LayeredAssumption

----------------------------------------------------------------------------
(* Sessions.                                                               *)
(* A session of the cold tier, d, and the changes P that are on their way  *)
(* to it.  What is saved and what is deleted is told from these two alone. *)

Increasing(q) == \A i, j \in DOMAIN q : i < j => q[i] < q[j]

\* The messages that the cold tier has or will get.
Stock(d, P) == ToSet(d.msgs) \cup {j.id : j \in {k \in P : k.op = "saveMessage"}}

\* Those that came after i and before the operation n.
Newer(d, P, i, n) == {k \in Stock(d, P) : i < k /\ k < n}

Saves(j, i) == j.op \in {"saveMessage", "saveMeta"} /\ j.item = i

Deletes(j, i) ==
    \/ j.op = "deleteSession"
    \/ j.op = "deleteMessages" /\ i \in Nat
    \/ j.op = "deleteMetas" /\ i \in Metas

\* A truncation that finds enough newer messages, once those on their way are there.
Cuts(d, P, j, i) ==
    j.op = "truncate" /\ i \in Nat /\ i < j.id /\ MaxMessages <= Cardinality(Newer(d, P, i, j.id))

\* An item is in the cold tier to stay, or will be.
Stored(d, P, i) ==
    /\ \/ i \in ItemsOf(d) /\ \A y \in P : ~ Deletes(y, i)
       \/ \E j \in P : Saves(j, i) /\ \A y \in P : Deletes(y, i) => y.id < j.id
    /\ \A y \in P : ~ Cuts(d, P, y, i)

\* An item is out of the cold tier for good, or will be.
Gone(d, P, i) ==
    \/ i \notin ItemsOf(d) /\ \A j \in P : ~ Saves(j, i)
    \/ \E y \in P : (Deletes(y, i) \/ Cuts(d, P, y, i)) /\ \A j \in P : Saves(j, i) => j.id < y.id

\* n operations were begun so far, and messages reach the cold tier in their order.
Queue(d, P, n) ==
    /\ d \in SessionRecords /\ n \in Nat
    /\ \A j \in P : JobFits(j) /\ j.op \in SessionOps /\ j.id <= n
    /\ \A j, k \in P : j.id = k.id => j = k
    /\ Increasing(d.msgs)
    /\ \A m \in ToSet(d.msgs) : m <= n
    /\ \A j \in P : "msgs" \in Touches(j.op) => \A m \in ToSet(d.msgs) : m < j.id

\* Job j has no older one to wait for.
InTurn(P, j) == \A k \in P : k.id < j.id => Touches(k.op) \cap Touches(j.op) = {}

----------------------------------------------------------------------------
(* Sequences of messages.                                                  *)

LEMMA SetOf ==
    ASSUME NEW q \in Seq(Nat)
    PROVE  /\ ToSet(q) \subseteq Nat
           /\ \A k : k \in ToSet(q) <=> \E i \in 1 .. Len(q) : q[i] = k
           /\ \A i \in 1 .. Len(q) : q[i] \in Nat
<1> QED
    BY DEF ToSet

\* How many messages come after the i-th one.
LEMMA CountAbove ==
    ASSUME NEW q \in Seq(Nat), Increasing(q), NEW i \in 1 .. Len(q)
    PROVE  /\ IsFiniteSet({k \in ToSet(q) : k > q[i]})
           /\ Cardinality({k \in ToSet(q) : k > q[i]}) = Len(q) - i
<1> DEFINE A == (i + 1) .. Len(q)
           B == {k \in ToSet(q) : k > q[i]}
           f == [x \in A |-> q[x]]
<1>1. \A x \in 1 .. Len(q) : q[x] > q[i] <=> x > i
    BY SetOf DEF Increasing
<1>2. f \in Injection(A, B)
  <2>1. \A x \in A : f[x] \in B
      BY <1>1, SetOf
  <2>2. \A x, y \in A : f[x] = f[y] => x = y
    <3> SUFFICES ASSUME NEW x \in A, NEW y \in A, q[x] = q[y] PROVE x = y
        OBVIOUS
    <3>1. x \in DOMAIN q /\ y \in DOMAIN q /\ q[x] \in Nat
        BY SetOf
    <3> QED
        BY <3>1 DEF Increasing
  <2> QED
      BY <2>1, <2>2 DEF Injection, IsInjective
<1>3. \A k \in B : \E x \in A : f[x] = k
    BY <1>1, SetOf
<1>4. f \in Bijection(A, B)
    BY <1>2, <1>3 DEF Bijection, Surjection, Injection
<1>5. IsFiniteSet(A) /\ Cardinality(A) = Len(q) - i
    BY FS_Interval
<1>6. ExistsBijection(A, B)
    BY <1>4 DEF ExistsBijection
<1> QED
    BY <1>5, <1>6, FS_Bijection

LEMMA IncreasingAppend ==
    ASSUME NEW q \in Seq(Nat), Increasing(q), NEW m \in Nat, \A k \in ToSet(q) : k < m
    PROVE  /\ Append(q, m) \in Seq(Nat)
           /\ Increasing(Append(q, m))
           /\ ToSet(Append(q, m)) = ToSet(q) \cup {m}
<1>1. /\ Append(q, m) \in Seq(Nat) /\ Len(Append(q, m)) = Len(q) + 1
      /\ DOMAIN Append(q, m) = 1 .. Len(q) + 1
      /\ \A i \in 1 .. Len(q) : Append(q, m)[i] = q[i]
      /\ Append(q, m)[Len(q) + 1] = m
    OBVIOUS
<1>2. \A i \in 1 .. Len(q) : q[i] < m
    BY SetOf
<1>3. Increasing(Append(q, m))
    BY <1>1, <1>2 DEF Increasing
<1>4. ToSet(Append(q, m)) = ToSet(q) \cup {m}
  <2> DEFINE a == Append(q, m)
  <2>1. \A k : k \in ToSet(a) <=> \E i \in 1 .. Len(q) + 1 : a[i] = k
      BY <1>1, SetOf, ZenonT(30)
  <2>2. \A k : k \in ToSet(q) <=> \E i \in 1 .. Len(q) : q[i] = k
      BY SetOf
  <2> HIDE DEF a
  <2>3. \A k \in ToSet(q) : k \in ToSet(a)
    <3> SUFFICES ASSUME NEW i \in 1 .. Len(q) PROVE q[i] \in ToSet(a)
        BY <2>2
    <3>1. i \in 1 .. Len(q) + 1 /\ a[i] = q[i]
        BY <1>1 DEF a
    <3> QED
        BY <2>1, <3>1
  <2>4. m \in ToSet(a)
    <3>1. Len(q) + 1 \in 1 .. Len(q) + 1 /\ a[Len(q) + 1] = m
        BY <1>1 DEF a
    <3> QED
        BY <2>1, <3>1
  <2>5. \A k \in ToSet(a) : k \in ToSet(q) \/ k = m
    <3> SUFFICES ASSUME NEW i \in 1 .. Len(q) + 1 PROVE a[i] \in ToSet(q) \/ a[i] = m
        BY <2>1
    <3>1. CASE i = Len(q) + 1
        BY <1>1, <3>1 DEF a
    <3>2. CASE i # Len(q) + 1
      <4>1. i \in 1 .. Len(q) /\ a[i] = q[i]
          BY <1>1, <3>2 DEF a
      <4> QED
          BY <2>2, <4>1
    <3> QED
        BY <3>1, <3>2
  <2>6. ToSet(a) = ToSet(q) \cup {m}
      BY <2>3, <2>4, <2>5
  <2> QED
      BY <2>6 DEF a
<1> QED
    BY <1>1, <1>3, <1>4

\* What a truncation leaves: the messages that have less than the limit of newer ones.
LEMMA TruncatedKeeps ==
    ASSUME NEW d \in SessionRecords, Increasing(d.msgs)
    PROVE  LET t == Truncated(d).msgs
           IN  /\ t \in Seq(Nat)
               /\ Increasing(t)
               /\ Len(t) <= MaxMessages
               /\ \A k : k \in ToSet(t) <=>
                     /\ k \in ToSet(d.msgs)
                     /\ Cardinality({x \in ToSet(d.msgs) : x > k}) < MaxMessages
<1> DEFINE q == d.msgs
           t == Truncated(d).msgs
<1>1. q \in Seq(Nat) /\ t \in Seq(Nat) /\ MaxMessages \in Nat
    BY TruncatedType, LayeredAssumption DEF SessionRecords
<1>2. t = IF Len(q) <= MaxMessages THEN q
          ELSE SubSeq(q, Len(q) - MaxMessages + 1, Len(q))
    BY TruncatedType
<1> HIDE DEF q, t
<1> DEFINE n == IF Len(q) <= MaxMessages THEN 0 ELSE Len(q) - MaxMessages
<1>3. n \in Nat /\ n = (IF Len(q) <= MaxMessages THEN 0 ELSE Len(q) - MaxMessages)
  <2>1. Len(q) \in Nat
      BY <1>1
  <2> QED
      BY <1>1, <2>1
<1> HIDE DEF n
<1>4. /\ n \in Nat /\ Len(q) \in Nat /\ Len(t) \in Nat
      /\ n <= Len(q) /\ Len(t) = Len(q) - n /\ Len(t) <= MaxMessages
      /\ \A i \in 1 .. Len(t) : t[i] = q[n + i]
  <2>1. Len(q) \in Nat
      BY <1>1
  <2>2. CASE Len(q) <= MaxMessages
      BY <1>1, <1>2, <1>3, <2>1, <2>2
  <2>3. CASE ~ (Len(q) <= MaxMessages)
    <3>1. n = Len(q) - MaxMessages /\ t = SubSeq(q, n + 1, Len(q))
        BY <1>2, <1>3, <2>3
    <3>2. Len(t) = Len(q) - n
        BY <1>1, <2>1, <2>3, <3>1
    <3>3. \A i \in 1 .. Len(t) : t[i] = q[n + 1 + i - 1]
        BY <1>1, <2>1, <2>3, <3>1, <3>2
    <3> QED
        BY <1>1, <2>1, <2>3, <3>1, <3>2, <3>3, SMTT(30)
  <2> QED
      BY <2>2, <2>3
<1>5. Increasing(q)
    BY DEF q
<1>6. Increasing(t)
  <2> SUFFICES ASSUME NEW i \in DOMAIN t, NEW j \in DOMAIN t, i < j PROVE t[i] < t[j]
      BY DEF Increasing
  <2>1. i \in 1 .. Len(t) /\ j \in 1 .. Len(t)
      BY <1>1
  <2>2. n + i \in 1 .. Len(q) /\ n + j \in 1 .. Len(q) /\ n + i < n + j
      BY <1>4, <2>1
  <2>3. DOMAIN q = 1 .. Len(q)
      BY <1>1
  <2> QED
      BY <1>4, <1>5, <2>1, <2>2, <2>3 DEF Increasing
<1>7. \A i \in 1 .. Len(q) : Cardinality({x \in ToSet(q) : x > q[i]}) = Len(q) - i
    BY <1>1, <1>5, CountAbove
<1>8. \A i \in 1 .. Len(q) : q[i] \in ToSet(t) <=> i > n
  <2>1. \A i \in 1 .. Len(q), j \in 1 .. Len(q) : q[i] = q[j] => i = j
    <3> SUFFICES ASSUME NEW i \in 1 .. Len(q), NEW j \in 1 .. Len(q), q[i] = q[j] PROVE i = j
        OBVIOUS
    <3>1. q[i] \in Nat /\ i \in DOMAIN q /\ j \in DOMAIN q
        BY <1>1
    <3> QED
        BY <1>5, <3>1 DEF Increasing
  <2> SUFFICES ASSUME NEW i \in 1 .. Len(q) PROVE q[i] \in ToSet(t) <=> i > n
      OBVIOUS
  <2>2. ASSUME i > n PROVE q[i] \in ToSet(t)
    <3>1. i - n \in 1 .. Len(t) /\ t[i - n] = q[i]
      <4>1. i - n \in 1 .. Len(t) /\ n + (i - n) = i
          BY <1>4, <2>2
      <4> QED
          BY <1>4, <4>1
    <3> QED
        BY <1>1, <3>1, SetOf
  <2>3. ASSUME q[i] \in ToSet(t) PROVE i > n
    <3>1. PICK x \in 1 .. Len(t) : t[x] = q[i]
        BY <1>1, <2>3, SetOf
    <3>2. n + x \in 1 .. Len(q) /\ q[n + x] = q[i]
        BY <1>4, <3>1
    <3>3. n + x = i
        BY <2>1, <3>2
    <3> QED
        BY <1>4, <3>3
  <2> QED
      BY <2>2, <2>3
<1>9. ToSet(t) \subseteq ToSet(q)
  <2> SUFFICES ASSUME NEW k \in ToSet(t) PROVE k \in ToSet(q)
      OBVIOUS
  <2>1. PICK x \in 1 .. Len(t) : t[x] = k
      BY <1>1, SetOf
  <2>2. n + x \in 1 .. Len(q) /\ q[n + x] = k
      BY <1>4, <2>1
  <2> QED
      BY <1>1, <2>2, SetOf
<1>10. \A k \in ToSet(q) : k \in ToSet(t) <=> Cardinality({x \in ToSet(q) : x > k}) < MaxMessages
  <2> SUFFICES ASSUME NEW k \in ToSet(q)
               PROVE  k \in ToSet(t) <=> Cardinality({x \in ToSet(q) : x > k}) < MaxMessages
      OBVIOUS
  <2>1. PICK i \in 1 .. Len(q) : q[i] = k
      BY <1>1, SetOf
  <2>2. Cardinality({x \in ToSet(q) : x > k}) = Len(q) - i
      BY <1>7, <2>1
  <2>3. k \in ToSet(t) <=> i > n
      BY <1>8, <2>1
  <2> QED
      BY <1>1, <1>3, <2>2, <2>3
<1>11. t \in Seq(Nat) /\ Increasing(t) /\ Len(t) <= MaxMessages
       /\ \A k : k \in ToSet(t) <=>
             k \in ToSet(q) /\ Cardinality({x \in ToSet(q) : x > k}) < MaxMessages
    BY <1>1, <1>4, <1>6, <1>9, <1>10
<1> QED
    BY <1>11 DEF q, t

----------------------------------------------------------------------------
(* Counting the messages.                                                  *)

LEMMA StockFinite ==
    ASSUME NEW d, NEW P, NEW n, Queue(d, P, n)
    PROVE  /\ Stock(d, P) \subseteq 0 .. n
           /\ ToSet(d.msgs) \subseteq Nat
           /\ \A j \in P : j.id \in Nat \ {0} /\ j.id <= n
           /\ \A S \in SUBSET (0 .. n) : IsFiniteSet(S) /\ Cardinality(S) \in Nat
           /\ \A S \in SUBSET (0 .. n) : \A R \in SUBSET S : Cardinality(R) <= Cardinality(S)
<1>1. \A j \in P : j.id \in Nat \ {0} /\ j.id <= n
    BY DEF Queue, JobFits, JobRecords
<1>2. d.msgs \in Seq(Nat) /\ n \in Nat
    BY DEF Queue, SessionRecords
<1>3. ToSet(d.msgs) \subseteq Nat /\ \A m \in ToSet(d.msgs) : m <= n
    BY <1>2, SetOf DEF Queue
<1>4. IsFiniteSet(0 .. n)
    BY <1>2, FS_Interval
<1>5. \A S \in SUBSET (0 .. n) : IsFiniteSet(S) /\ Cardinality(S) \in Nat
    BY <1>4, FS_Subset, FS_CardinalityType
<1>6. \A S \in SUBSET (0 .. n) : \A R \in SUBSET S : Cardinality(R) <= Cardinality(S)
    BY <1>5, FS_Subset
<1>7. Stock(d, P) \subseteq 0 .. n
    BY <1>1, <1>2, <1>3 DEF Stock
<1> QED
    BY <1>1, <1>3, <1>5, <1>6, <1>7

\* Whoever finds more newer messages still cuts what it cut.
LEMMA CutsMonotone ==
    ASSUME NEW d, NEW P, NEW e, NEW Q, NEW n, Queue(d, P, n), Queue(e, Q, n),
           NEW j, NEW i, Cuts(d, P, j, i), Newer(d, P, i, j.id) \subseteq Newer(e, Q, i, j.id)
    PROVE  Cuts(e, Q, j, i)
<1>1. Newer(e, Q, i, j.id) \subseteq 0 .. n
    BY StockFinite DEF Newer
<1>2. Cardinality(Newer(d, P, i, j.id)) <= Cardinality(Newer(e, Q, i, j.id))
      /\ Cardinality(Newer(d, P, i, j.id)) \in Nat /\ Cardinality(Newer(e, Q, i, j.id)) \in Nat
  <2>1. Newer(d, P, i, j.id) \in SUBSET (0 .. n)
      BY <1>1
  <2> QED
      BY <1>1, <2>1, StockFinite
<1>3. MaxMessages <= Cardinality(Newer(e, Q, i, j.id))
    BY <1>2, LayeredAssumption DEF Cuts
<1> QED
    BY <1>3 DEF Cuts

\* A message is no maskMeta, and what changes an item touches its part of the session.
LEMMA Touching ==
    ASSUME NEW d, NEW P, NEW n, Queue(d, P, n), NEW j \in P, NEW i \in Items
    PROVE  /\ i \in Nat <=> i \notin Metas
           /\ Saves(j, i) => j.id = i \/ i \in Metas
           /\ Saves(j, i) => ~ Deletes(j, i) /\ ~ Cuts(d, P, j, i)
           /\ (Saves(j, i) \/ Deletes(j, i) \/ Cuts(d, P, j, i)) /\ i \in Nat => "msgs" \in Touches(j.op)
           /\ (Saves(j, i) \/ Deletes(j, i) \/ Cuts(d, P, j, i)) /\ i \in Metas => "metas" \in Touches(j.op)
           /\ i \in Nat => (Saves(j, i) <=> j.op = "saveMessage" /\ j.id = i)
           /\ i \in ItemsOf(d) <=> i \in ToSet(d.msgs) \/ i \in d.metas
           /\ i \in ToSet(d.msgs) => i \in Nat
           /\ i \in d.metas => i \in Metas
<1>1. i \in Nat <=> i \notin Metas
    BY LayeredAssumption DEF Items
<1>2. j.op \in SessionOps /\ Fitting(j.op, j.item, j.id)
    BY DEF Queue, JobFits
<1>3. ToSet(d.msgs) \subseteq Nat /\ d.metas \subseteq Metas
    BY StockFinite DEF Queue, SessionRecords
<1>4. j.id \in Nat
    BY StockFinite
<1>5. Saves(j, i) => \/ j.op = "saveMessage" /\ j.id = i
                     \/ j.op = "saveMeta" /\ i \in Metas
    BY <1>2 DEF Fitting, Saves
<1>6. Saves(j, i) => ~ Deletes(j, i) /\ ~ Cuts(d, P, j, i)
    BY DEF Saves, Deletes, Cuts
<1>7. (Saves(j, i) \/ Deletes(j, i) \/ Cuts(d, P, j, i)) /\ i \in Nat => "msgs" \in Touches(j.op)
    BY <1>1, <1>5 DEF Deletes, Cuts, Touches
<1>8. (Saves(j, i) \/ Deletes(j, i) \/ Cuts(d, P, j, i)) /\ i \in Metas => "metas" \in Touches(j.op)
    BY <1>1, <1>4, <1>5 DEF Deletes, Cuts, Touches
<1>9. i \in Nat => (Saves(j, i) <=> j.op = "saveMessage" /\ j.id = i)
    BY <1>1, <1>2, <1>5 DEF Saves, Fitting
<1> QED
    BY <1>1, <1>3, <1>5, <1>6, <1>7, <1>8, <1>9 DEF ItemsOf

----------------------------------------------------------------------------
(* A goroutine that runs in its turn.                                      *)

\* What a job does to the cold tier: nothing new is in stock, what is out of stock
\* was older than the rest, and it has done for every item what it was to do.
RanOn(d, P, j, e, Q, n) ==
    /\ Queue(e, Q, n)
    /\ Stock(e, Q) \subseteq Stock(d, P)
    /\ \A k \in Stock(e, Q), m \in Stock(d, P) : m > k => m \in Stock(e, Q)
    /\ \A i \in Items : i \in ItemsOf(e) <=>
          \/ i \in ItemsOf(d) /\ ~ Deletes(j, i) /\ ~ Cuts(d, P, j, i)
          \/ Saves(j, i)

\* The jobs that touch what it touches are younger.
LEMMA Younger ==
    ASSUME NEW d, NEW P, NEW n, Queue(d, P, n), NEW j \in P, InTurn(P, j),
           NEW t \in Touches(j.op), NEW k \in P \ {j}, t \in Touches(k.op)
    PROVE  j.id < k.id /\ j.id \in Nat /\ k.id \in Nat
<1>1. j.id \in Nat /\ k.id \in Nat
    BY StockFinite
<1>2. ~ (k.id < j.id)
    BY DEF InTurn
<1>3. k.id # j.id
    BY DEF Queue
<1> QED
    BY <1>1, <1>2, <1>3

LEMMA RunMessage ==
    ASSUME NEW d, NEW P, NEW n, Queue(d, P, n), NEW j \in P, InTurn(P, j), j.op = "saveMessage"
    PROVE  RanOn(d, P, j, After(j.op, j.item, d), P \ {j}, n)
<1> DEFINE e == After(j.op, j.item, d)
           Q == P \ {j}
<1>1. j.item = j.id /\ j.id \in Nat /\ j.id <= n /\ d.msgs \in Seq(Nat)
    BY StockFinite DEF Queue, JobFits, Fitting, SessionRecords
<1>2. e = [d EXCEPT !.msgs = Append(d.msgs, j.id)]
    BY <1>1 DEF After, WithMessage
<1>3. \A m \in ToSet(d.msgs) : m < j.id
    BY DEF Queue, Touches
<1>4. Append(d.msgs, j.id) \in Seq(Nat) /\ Increasing(Append(d.msgs, j.id))
      /\ ToSet(Append(d.msgs, j.id)) = ToSet(d.msgs) \cup {j.id}
    BY <1>1, <1>3, IncreasingAppend DEF Queue
<1>5. e \in SessionRecords /\ e.msgs = Append(d.msgs, j.id) /\ e.metas = d.metas
    BY <1>2, <1>4 DEF SessionRecords, Queue
<1> HIDE DEF e
<1>6. \A k \in Q : k \in P /\ ("msgs" \in Touches(k.op) => j.id < k.id)
    BY Younger DEF Touches
<1>7. Queue(e, Q, n)
  <2>1. \A k \in Q : "msgs" \in Touches(k.op) => \A m \in ToSet(e.msgs) : m < k.id
      BY <1>4, <1>5, <1>6 DEF Queue
  <2> QED
      BY <1>1, <1>4, <1>5, <2>1 DEF Queue
<1>8. Stock(e, Q) = Stock(d, P)
    BY <1>4, <1>5 DEF Stock
<1>9. \A i \in Items : i \in ItemsOf(e) <=>
          \/ i \in ItemsOf(d) /\ ~ Deletes(j, i) /\ ~ Cuts(d, P, j, i)
          \/ Saves(j, i)
  <2>1. \A i : ~ Deletes(j, i) /\ ~ Cuts(d, P, j, i) /\ (Saves(j, i) <=> i = j.id)
      BY <1>1 DEF Deletes, Cuts, Saves
  <2> QED
      BY <1>4, <1>5, <2>1 DEF ItemsOf
<1>10. RanOn(d, P, j, e, Q, n)
    BY <1>7, <1>8, <1>9 DEF RanOn
<1> QED
    BY <1>10 DEF e

LEMMA RunDeleteMessages ==
    ASSUME NEW d, NEW P, NEW n, Queue(d, P, n), NEW j \in P, InTurn(P, j),
           j.op \in {"deleteMessages", "deleteSession"}
    PROVE  RanOn(d, P, j, After(j.op, j.item, d), P \ {j}, n)
<1> DEFINE e == After(j.op, j.item, d)
           Q == P \ {j}
<1>1. e \in SessionRecords /\ e.msgs = <<>>
      /\ e.metas = IF j.op = "deleteSession" THEN {} ELSE d.metas
    BY EmptyType DEF After, WithoutMessages, Queue, SessionRecords
<1> HIDE DEF e
<1>2. e.msgs \in Seq(Nat) /\ ToSet(e.msgs) = {} /\ Increasing(e.msgs)
    BY <1>1 DEF ToSet, Increasing
<1>3. Queue(e, Q, n)
    BY <1>1, <1>2 DEF Queue
<1>4. Stock(e, Q) \subseteq Stock(d, P)
    BY <1>2 DEF Stock
<1>5. \A k \in Stock(e, Q), m \in Stock(d, P) : m > k => m \in Stock(e, Q)
  <2> SUFFICES ASSUME NEW k \in Stock(e, Q), NEW m \in Stock(d, P), m > k PROVE m \in Stock(e, Q)
      OBVIOUS
  <2>1. PICK x \in Q : x.op = "saveMessage" /\ x.id = k
      BY <1>2 DEF Stock
  <2>2. j.id < k /\ j.id \in Nat /\ k \in Nat
      BY <2>1, Younger DEF Touches
  <2>3. m \notin ToSet(d.msgs)
    <3>1. ASSUME m \in ToSet(d.msgs) PROVE m < j.id /\ m \in Nat
        BY <3>1, StockFinite DEF Queue, Touches
    <3> QED
        BY <2>2, <3>1
  <2> QED
      BY <2>3 DEF Stock
<1>6. \A i \in Items : i \in ItemsOf(e) <=>
          \/ i \in ItemsOf(d) /\ ~ Deletes(j, i) /\ ~ Cuts(d, P, j, i)
          \/ Saves(j, i)
  <2> SUFFICES ASSUME NEW i \in Items
               PROVE  i \in ItemsOf(e) <=>
                         \/ i \in ItemsOf(d) /\ ~ Deletes(j, i) /\ ~ Cuts(d, P, j, i)
                         \/ Saves(j, i)
      OBVIOUS
  <2>1. ~ Cuts(d, P, j, i) /\ ~ Saves(j, i) /\ (Deletes(j, i) <=> j.op = "deleteSession" \/ i \in Nat)
      BY DEF Cuts, Saves, Deletes
  <2>2. i \in ItemsOf(e) <=> j.op # "deleteSession" /\ i \in d.metas
      BY <1>1, <1>2 DEF ItemsOf
  <2> QED
      BY <2>1, <2>2, Touching
<1>7. RanOn(d, P, j, e, Q, n)
    BY <1>3, <1>4, <1>5, <1>6 DEF RanOn
<1> QED
    BY <1>7 DEF e

LEMMA RunMetas ==
    ASSUME NEW d, NEW P, NEW n, Queue(d, P, n), NEW j \in P, InTurn(P, j),
           j.op \in {"saveMeta", "deleteMetas"}
    PROVE  RanOn(d, P, j, After(j.op, j.item, d), P \ {j}, n)
<1> DEFINE e == After(j.op, j.item, d)
           Q == P \ {j}
<1>1. Fitting(j.op, j.item, j.id) /\ j.id \in Nat
    BY StockFinite DEF Queue, JobFits
<1>2. /\ e \in SessionRecords
      /\ e = [d EXCEPT !.metas = IF j.op = "saveMeta" THEN d.metas \cup {j.item} ELSE {}]
    BY <1>1, AfterType DEF After, WithMeta, WithoutMetas, Queue
<1>3. e.msgs = d.msgs /\ e.metas = IF j.op = "saveMeta" THEN d.metas \cup {j.item} ELSE {}
    BY <1>2 DEF Queue, SessionRecords
<1> HIDE DEF e
<1>4. Queue(e, Q, n)
    BY <1>2, <1>3 DEF Queue
<1>5. Stock(e, Q) = Stock(d, P)
    BY <1>3 DEF Stock
<1>6. \A i \in Items : i \in ItemsOf(e) <=>
          \/ i \in ItemsOf(d) /\ ~ Deletes(j, i) /\ ~ Cuts(d, P, j, i)
          \/ Saves(j, i)
  <2> SUFFICES ASSUME NEW i \in Items
               PROVE  i \in ItemsOf(e) <=>
                         \/ i \in ItemsOf(d) /\ ~ Deletes(j, i) /\ ~ Cuts(d, P, j, i)
                         \/ Saves(j, i)
      OBVIOUS
  <2>1. ~ Cuts(d, P, j, i) /\ (Saves(j, i) <=> j.op = "saveMeta" /\ j.item = i)
        /\ (Deletes(j, i) <=> j.op = "deleteMetas" /\ i \in Metas)
      BY DEF Cuts, Saves, Deletes
  <2>2. i \in ItemsOf(e) <=>
           \/ i \in ToSet(d.msgs)
           \/ j.op = "saveMeta" /\ (i \in d.metas \/ j.item = i)
      BY <1>3 DEF ItemsOf
  <2> QED
      BY <2>1, <2>2, Touching
<1>7. RanOn(d, P, j, e, Q, n)
    BY <1>4, <1>5, <1>6 DEF RanOn
<1> QED
    BY <1>7 DEF e

LEMMA RunTruncate ==
    ASSUME NEW d, NEW P, NEW n, Queue(d, P, n), NEW j \in P, InTurn(P, j), j.op = "truncate"
    PROVE  RanOn(d, P, j, After(j.op, j.item, d), P \ {j}, n)
<1> DEFINE e == After(j.op, j.item, d)
           Q == P \ {j}
<1>1. e = Truncated(d)
    BY DEF After
<1>2. /\ e \in SessionRecords /\ e.metas = d.metas
      /\ Increasing(e.msgs)
      /\ \A k : k \in ToSet(e.msgs) <=>
            /\ k \in ToSet(d.msgs)
            /\ Cardinality({x \in ToSet(d.msgs) : x > k}) < MaxMessages
  <2>1. d \in SessionRecords /\ Increasing(d.msgs)
      BY DEF Queue
  <2>2. e \in SessionRecords /\ e.metas = d.metas
      BY <1>1, <2>1, TruncatedType
  <2> HIDE DEF e
  <2>3. /\ Increasing(e.msgs)
        /\ \A k : k \in ToSet(e.msgs) <=>
              /\ k \in ToSet(d.msgs)
              /\ Cardinality({x \in ToSet(d.msgs) : x > k}) < MaxMessages
      BY <1>1, <2>1, TruncatedKeeps
  <2> QED
      BY <2>2, <2>3
<1> HIDE DEF e
<1>3. \A k \in Q : k.op = "saveMessage" => j.id < k.id
    BY Younger DEF Touches
<1>4. ToSet(d.msgs) \subseteq Nat /\ \A m \in ToSet(d.msgs) : m < j.id
    BY StockFinite DEF Queue, Touches
<1>5. j.id \in Nat /\ \A k \in P : k.id \in Nat
    BY StockFinite
<1>6. Queue(e, Q, n)
    BY <1>2 DEF Queue
<1>7. Stock(e, Q) \subseteq Stock(d, P)
    BY <1>2 DEF Stock
<1>8. \A k \in ToSet(d.msgs), m \in ToSet(d.msgs) : m > k /\ k \in ToSet(e.msgs) => m \in ToSet(e.msgs)
  <2> SUFFICES ASSUME NEW k \in ToSet(d.msgs), NEW m \in ToSet(d.msgs), m > k, k \in ToSet(e.msgs)
               PROVE  m \in ToSet(e.msgs)
      OBVIOUS
  <2> DEFINE A(y) == {x \in ToSet(d.msgs) : x > y}
  <2>1. A(m) \subseteq A(k)
      BY <1>4
  <2>2. A(k) \subseteq 0 .. n
      BY StockFinite DEF Stock
  <2>3. Cardinality(A(m)) <= Cardinality(A(k)) /\ Cardinality(A(m)) \in Nat /\ Cardinality(A(k)) \in Nat
    <3>1. A(m) \in SUBSET (0 .. n)
        BY <2>1, <2>2
    <3> QED
        BY <2>1, <2>2, <3>1, StockFinite
  <2>4. Cardinality(A(k)) < MaxMessages
      BY <1>2
  <2>5. Cardinality(A(m)) < MaxMessages
      BY <2>3, <2>4, LayeredAssumption
  <2> QED
      BY <1>2, <2>5
<1>9. \A k \in Stock(e, Q), m \in Stock(d, P) : m > k => m \in Stock(e, Q)
  <2> SUFFICES ASSUME NEW k \in Stock(e, Q), NEW m \in Stock(d, P), m > k PROVE m \in Stock(e, Q)
      OBVIOUS
  <2>1. CASE \E x \in Q : x.op = "saveMessage" /\ x.id = m
      BY <2>1 DEF Stock
  <2>2. CASE m \in ToSet(d.msgs)
    <3>1. k \in ToSet(e.msgs) \/ \E x \in Q : x.op = "saveMessage" /\ x.id = k
        BY DEF Stock
    <3>2. k \in ToSet(e.msgs)
        BY <1>3, <1>4, <1>5, <2>2, <3>1
    <3> QED
        BY <1>2, <1>8, <2>2, <3>2 DEF Stock
  <2> QED
      BY <2>1, <2>2 DEF Stock
<1>10. \A i \in Items : i \in ItemsOf(e) <=>
          \/ i \in ItemsOf(d) /\ ~ Deletes(j, i) /\ ~ Cuts(d, P, j, i)
          \/ Saves(j, i)
  <2> SUFFICES ASSUME NEW i \in Items
               PROVE  i \in ItemsOf(e) <=>
                         \/ i \in ItemsOf(d) /\ ~ Deletes(j, i) /\ ~ Cuts(d, P, j, i)
                         \/ Saves(j, i)
      OBVIOUS
  <2>1. ~ Deletes(j, i) /\ ~ Saves(j, i)
      BY DEF Saves, Deletes
  <2>2. CASE i \in Metas
    <3>1. i \notin Nat
        BY <2>2, Touching
    <3>2. ~ Cuts(d, P, j, i) /\ i \notin ToSet(d.msgs)
        BY <1>4, <3>1 DEF Cuts
    <3> QED
        BY <1>2, <2>1, <3>2 DEF ItemsOf
  <2>3. CASE i \in Nat
    <3>1. i \notin d.metas
        BY <2>3, Touching
    <3>2. i \in ToSet(d.msgs) => Newer(d, P, i, j.id) = {x \in ToSet(d.msgs) : x > i}
      <4>1. \A x \in Stock(d, P) : x < j.id => x \in ToSet(d.msgs)
          BY <1>3, <1>5 DEF Stock
      <4> QED
          BY <1>4, <1>5, <2>3, <4>1 DEF Newer, Stock
    <3>3. i \in ToSet(d.msgs) => Cardinality(Newer(d, P, i, j.id)) \in Nat
        BY StockFinite DEF Newer
    <3>4. i \in ToSet(d.msgs) => (i \in ToSet(e.msgs) <=> ~ Cuts(d, P, j, i))
        BY <1>2, <1>4, <2>3, <3>2, <3>3, LayeredAssumption DEF Cuts
    <3> QED
        BY <1>2, <2>1, <3>1, <3>4 DEF ItemsOf
  <2> QED
      BY <2>2, <2>3 DEF Items
<1>11. RanOn(d, P, j, e, Q, n)
    BY <1>6, <1>7, <1>9, <1>10 DEF RanOn
<1> QED
    BY <1>11 DEF e

LEMMA JobRuns ==
    ASSUME NEW d, NEW P, NEW n, Queue(d, P, n), NEW j \in P, InTurn(P, j)
    PROVE  RanOn(d, P, j, After(j.op, j.item, d), P \ {j}, n)
<1>1. j.op \in SessionOps
    BY DEF Queue
<1> QED
    BY <1>1, RunMessage, RunDeleteMessages, RunMetas, RunTruncate DEF SessionOps

\* What is stored stays stored when a job runs in its turn, and what is gone stays gone.
LEMMA RunKeeps ==
    ASSUME NEW d, NEW P, NEW n, Queue(d, P, n), NEW j \in P, InTurn(P, j),
           NEW e, NEW Q, Q = P \ {j}, RanOn(d, P, j, e, Q, n), NEW i \in Items
    PROVE  /\ Stored(d, P, i) => Stored(e, Q, i)
           /\ Gone(d, P, i) => Gone(e, Q, i)
<1>1. \A y \in Q : Cuts(e, Q, y, i) => Cuts(d, P, y, i)
    BY CutsMonotone DEF RanOn, Newer
<1>2. \A y \in Q : Cuts(d, P, y, i) /\ i \in Stock(e, Q) => Cuts(e, Q, y, i)
  <2> SUFFICES ASSUME NEW y \in Q, Cuts(d, P, y, i), i \in Stock(e, Q) PROVE Cuts(e, Q, y, i)
      OBVIOUS
  <2>1. Newer(d, P, i, y.id) \subseteq Newer(e, Q, i, y.id)
    <3>1. \A m \in Stock(d, P) : i < m => m > i
        BY StockFinite DEF Cuts
    <3> QED
        BY <3>1 DEF RanOn, Newer
  <2> QED
      BY <2>1, CutsMonotone DEF RanOn
<1>3. \A k \in Q : (Saves(k, i) \/ Deletes(k, i) \/ Cuts(d, P, k, i))
                       /\ (Saves(j, i) \/ Deletes(j, i) \/ Cuts(d, P, j, i)) => j.id < k.id
  <2> SUFFICES ASSUME NEW k \in Q, Saves(k, i) \/ Deletes(k, i) \/ Cuts(d, P, k, i),
                      Saves(j, i) \/ Deletes(j, i) \/ Cuts(d, P, j, i)
               PROVE  j.id < k.id
      OBVIOUS
  <2>1. \E t : t \in Touches(j.op) /\ t \in Touches(k.op)
      BY Touching DEF Items
  <2> QED
      BY <2>1, Younger
<1>4. \A k \in P : k.id \in Nat
    BY StockFinite
<1>5. i \in ItemsOf(e) <=> \/ i \in ItemsOf(d) /\ ~ Deletes(j, i) /\ ~ Cuts(d, P, j, i)
                           \/ Saves(j, i)
    BY DEF RanOn
<1>6. ASSUME Stored(d, P, i) PROVE Stored(e, Q, i)
  <2>1. \A y \in Q : ~ Cuts(e, Q, y, i)
      BY <1>1, <1>6 DEF Stored
  <2>2. CASE i \in ItemsOf(d) /\ \A y \in P : ~ Deletes(y, i)
      BY <1>5, <1>6, <2>1, <2>2 DEF Stored
  <2>3. ASSUME NEW k \in P, Saves(k, i), \A y \in P : Deletes(y, i) => y.id < k.id
        PROVE  Stored(e, Q, i)
    <3>1. CASE k = j
      <4>1. \A y \in Q : ~ Deletes(y, i)
          BY <1>3, <1>4, <2>3, <3>1
      <4> QED
          BY <1>5, <2>1, <2>3, <3>1, <4>1 DEF Stored
    <3>2. CASE k # j
        BY <2>1, <2>3, <3>2 DEF Stored
    <3> QED
        BY <3>1, <3>2
  <2> QED
      BY <1>6, <2>2, <2>3 DEF Stored
<1>7. ASSUME Gone(d, P, i) PROVE Gone(e, Q, i)
  <2>1. CASE i \notin ItemsOf(d) /\ \A k \in P : ~ Saves(k, i)
      BY <1>5, <2>1 DEF Gone
  <2>2. ASSUME NEW y \in P, Deletes(y, i) \/ Cuts(d, P, y, i), \A k \in P : Saves(k, i) => k.id < y.id
        PROVE  Gone(e, Q, i)
    <3>1. CASE y = j
      <4>1. \A k \in Q : ~ Saves(k, i)
          BY <1>3, <1>4, <2>2, <3>1
      <4>2. ~ Saves(j, i)
          BY <2>2, <3>1, Touching
      <4>3. i \notin ItemsOf(e)
          BY <1>5, <2>2, <3>1, <4>2
      <4> QED
          BY <4>1, <4>3 DEF Gone
    <3>2. CASE y # j /\ (Deletes(y, i) \/ i \in Stock(e, Q))
        BY <1>2, <2>2, <3>2 DEF Gone
    <3>3. CASE y # j /\ ~ Deletes(y, i) /\ i \notin Stock(e, Q)
      <4>1. i \in Nat
          BY <2>2, <3>3 DEF Cuts
      <4>2. Queue(e, Q, n)
          BY DEF RanOn
      <4>3. \A k \in Q : ~ Saves(k, i)
          BY <3>3, <4>1, <4>2, Touching DEF Stock
      <4>4. i \notin ItemsOf(e)
        <5>1. i \notin e.metas
            BY <4>1, <4>2, LayeredAssumption DEF Queue, SessionRecords
        <5> QED
            BY <3>3, <5>1 DEF ItemsOf, Stock
      <4> QED
          BY <4>3, <4>4 DEF Gone
    <3> QED
        BY <2>2, <3>1, <3>2, <3>3
  <2> QED
      BY <1>7, <2>1, <2>2 DEF Gone
<1> QED
    BY <1>6, <1>7

----------------------------------------------------------------------------
(* An operation that changes the hot tier, h, and leaves its job x to the  *)
(* cold one.  For the hot tier it is a job that runs at once.              *)

\* The messages of the hot tier are the newest of those in stock.
HotAbove(h, d, P) == \A m \in ToSet(h.msgs), k \in Stock(d, P) : k > m => k \in ToSet(h.msgs)
StockAbove(h, d, P) == \A m \in Stock(d, P), k \in ToSet(h.msgs) : k > m => k \in Stock(d, P)

LEMMA QueueGrows ==
    ASSUME NEW d, NEW P, NEW n, Queue(d, P, n), NEW N \in Nat, n <= N
    PROVE  Queue(d, P, N)
<1>1. ToSet(d.msgs) \subseteq Nat /\ n \in Nat /\ \A j \in P : j.id \in Nat
    BY StockFinite DEF Queue
<1> QED
    BY <1>1 DEF Queue

LEMMA IssueQueue ==
    ASSUME NEW d, NEW P, NEW n, Queue(d, P, n), NEW x, JobFits(x), x.op \in SessionOps, x.id = n + 1
    PROVE  /\ Queue(d, P \cup {x}, n + 1)
           /\ Stock(d, P \cup {x}) = Stock(d, P) \cup IF x.op = "saveMessage" THEN {n + 1} ELSE {}
           /\ \A j \in P : j.id < n + 1
           /\ \A k \in Stock(d, P) : k \in Nat /\ k < n + 1
           /\ n \in Nat
<1>1. n \in Nat /\ \A j \in P : j.id \in Nat /\ j.id <= n
    BY StockFinite DEF Queue
<1>2. ToSet(d.msgs) \subseteq Nat /\ Stock(d, P) \subseteq 0 .. n
    BY StockFinite
<1>3. Queue(d, P \cup {x}, n + 1)
  <2>1. \A m \in ToSet(d.msgs) : m < x.id /\ m <= n + 1
      BY <1>1, <1>2 DEF Queue
  <2>2. \A j, k \in P \cup {x} : j.id = k.id => j = k
      BY <1>1 DEF Queue
  <2>3. \A j \in P \cup {x} : JobFits(j) /\ j.op \in SessionOps /\ j.id <= n + 1
      BY <1>1 DEF Queue
  <2>4. \A j \in P \cup {x} : "msgs" \in Touches(j.op) => \A m \in ToSet(d.msgs) : m < j.id
      BY <2>1 DEF Queue
  <2> QED
      BY <1>1, <2>1, <2>2, <2>3, <2>4 DEF Queue
<1>4. Stock(d, P \cup {x}) = Stock(d, P) \cup IF x.op = "saveMessage" THEN {n + 1} ELSE {}
    BY DEF Stock
<1>5. \A k \in 0 .. n : k \in Nat /\ k < n + 1
    BY <1>1
<1>6. \A j \in P : j.id < n + 1
    BY <1>1
<1> QED
    BY <1>1, <1>2, <1>3, <1>4, <1>5, <1>6

LEMMA IssueKeeps ==
    ASSUME NEW d, NEW P, NEW n, Queue(d, P, n), NEW x, JobFits(x), x.op \in SessionOps, x.id = n + 1,
           NEW Q, Q = P \cup {x}, NEW i \in Items
    PROVE  /\ Stored(d, P, i) /\ ~ Deletes(x, i) /\ ~ Cuts(d, Q, x, i) => Stored(d, Q, i)
           /\ Gone(d, P, i) /\ ~ Saves(x, i) => Gone(d, Q, i)
           /\ Saves(x, i) => Stored(d, Q, i)
           /\ Deletes(x, i) \/ Cuts(d, Q, x, i) => Gone(d, Q, i)
<1>1. /\ Queue(d, Q, n + 1)
      /\ Stock(d, Q) = Stock(d, P) \cup IF x.op = "saveMessage" THEN {n + 1} ELSE {}
      /\ \A j \in P : j.id < n + 1
      /\ n \in Nat
    BY IssueQueue
<1>2. \A j \in P : j.id \in Nat
    BY StockFinite
<1>3. \A y \in P : Cuts(d, Q, y, i) <=> Cuts(d, P, y, i)
  <2>1. \A y \in P : Newer(d, Q, i, y.id) = Newer(d, P, i, y.id)
    <3> SUFFICES ASSUME NEW y \in P PROVE Newer(d, Q, i, y.id) = Newer(d, P, i, y.id)
        OBVIOUS
    <3>1. ~ (n + 1 < y.id)
        BY <1>1, <1>2
    <3>2. \A k : k < y.id => (k \in Stock(d, Q) <=> k \in Stock(d, P))
        BY <1>1, <3>1
    <3> QED
        BY <3>2 DEF Newer
  <2> QED
      BY <2>1 DEF Cuts
<1>4. ASSUME Stored(d, P, i), ~ Deletes(x, i), ~ Cuts(d, Q, x, i) PROVE Stored(d, Q, i)
    BY <1>3, <1>4 DEF Stored
<1>5. ASSUME Gone(d, P, i), ~ Saves(x, i) PROVE Gone(d, Q, i)
    BY <1>3, <1>5 DEF Gone
<1>6. ASSUME Saves(x, i) PROVE Stored(d, Q, i)
  <2>1. x \in Q /\ ~ Deletes(x, i) /\ ~ Cuts(d, Q, x, i) /\ (x.id = i \/ i \in Metas)
      BY <1>1, <1>6, Touching
  <2>2. \A y \in Q : Deletes(y, i) => y.id < x.id
      BY <1>1, <2>1
  <2>3. \A y \in Q : ~ Cuts(d, Q, y, i)
    <3> SUFFICES ASSUME NEW y \in P, Cuts(d, Q, y, i) PROVE FALSE
        BY <2>1
    <3>1. i \in Nat /\ i < y.id
        BY DEF Cuts
    <3>2. i = n + 1
        BY <2>1, <3>1, LayeredAssumption
    <3> QED
        BY <1>1, <1>2, <3>1, <3>2
  <2> QED
      BY <1>6, <2>1, <2>2, <2>3 DEF Stored
<1>7. ASSUME Deletes(x, i) \/ Cuts(d, Q, x, i) PROVE Gone(d, Q, i)
  <2>1. x \in Q /\ ~ Saves(x, i)
      BY <1>1, <1>7, Touching
  <2>2. \A j \in Q : Saves(j, i) => j.id < x.id
      BY <1>1, <2>1
  <2> QED
      BY <1>7, <2>1, <2>2 DEF Gone
<1> QED
    BY <1>4, <1>5, <1>6, <1>7

\* What an operation changes in the hot tier is what its job would.
LEMMA HotChanges ==
    ASSUME NEW h, NEW n, Queue(h, {}, n), NEW x, JobFits(x), x.op \in SessionOps, x.id = n + 1
    PROVE  /\ Queue(h, {x}, n + 1)
           /\ RanOn(h, {x}, x, After(x.op, x.item, h), {}, n + 1)
<1>1. {} \cup {x} = {x} /\ {x} \ {x} = {}
    OBVIOUS
<1>2. Queue(h, {x}, n + 1)
  <2>1. Queue(h, {} \cup {x}, n + 1)
      BY IssueQueue
  <2> QED
      BY <1>1, <2>1
<1>3. InTurn({x}, x)
  <2>1. x.id \in Nat
      BY <1>2, StockFinite
  <2> QED
      BY <2>1 DEF InTurn
<1>4. RanOn(h, {x}, x, After(x.op, x.item, h), {x} \ {x}, n + 1)
    BY <1>2, <1>3, JobRuns
<1> QED
    BY <1>1, <1>2, <1>4

\* The operation of a request on a session whose tiers agree about the past.
LEMMA WriteIssues ==
    ASSUME NEW h, NEW d, NEW P, NEW n, Queue(d, P, n), Queue(h, {}, n),
           HotAbove(h, d, P), StockAbove(h, d, P),
           NEW x, JobFits(x), x.op \in SessionOps, x.id = n + 1,
           NEW g, g = After(x.op, x.item, h), NEW Q, Q = P \cup {x}
    PROVE  /\ Queue(d, Q, n + 1) /\ Queue(g, {}, n + 1)
           /\ HotAbove(g, d, Q) /\ StockAbove(g, d, Q)
           /\ \A i \in Items :
                 /\ i \in ItemsOf(g) /\ ~ Saves(x, i) => i \in ItemsOf(h) /\ ~ Deletes(x, i) /\ ~ Cuts(d, Q, x, i)
                 /\ i \in ItemsOf(h) /\ i \notin ItemsOf(g) => Gone(d, Q, i)
<1>1. /\ Queue(d, Q, n + 1)
      /\ Stock(d, Q) = Stock(d, P) \cup IF x.op = "saveMessage" THEN {n + 1} ELSE {}
      /\ \A k \in Stock(d, P) : k \in Nat /\ k < n + 1
      /\ n \in Nat
    BY IssueQueue
<1>2. Queue(h, {x}, n + 1) /\ RanOn(h, {x}, x, g, {}, n + 1)
    BY HotChanges
<1>3. ToSet(h.msgs) \subseteq Nat /\ ToSet(g.msgs) \subseteq Nat /\ \A m \in ToSet(h.msgs) : m < n + 1
  <2>1. ToSet(h.msgs) \subseteq Nat
      BY StockFinite
  <2>2. ToSet(g.msgs) \subseteq Nat
      BY <1>2, StockFinite DEF RanOn
  <2>3. \A m \in ToSet(h.msgs) : m <= n
      BY DEF Queue
  <2> QED
      BY <1>1, <2>1, <2>2, <2>3
<1>4. Queue(g, {}, n + 1)
    BY <1>2 DEF RanOn
<1>5. /\ Stock(g, {}) = ToSet(g.msgs)
      /\ Stock(h, {x}) = ToSet(h.msgs) \cup IF x.op = "saveMessage" THEN {n + 1} ELSE {}
    BY DEF Stock
<1>6. /\ ToSet(g.msgs) \subseteq ToSet(h.msgs) \cup IF x.op = "saveMessage" THEN {n + 1} ELSE {}
      /\ \A k \in ToSet(g.msgs), m \in ToSet(h.msgs) \cup IF x.op = "saveMessage" THEN {n + 1} ELSE {} :
             m > k => m \in ToSet(g.msgs)
    BY <1>2, <1>5 DEF RanOn
<1>7. HotAbove(g, d, Q)
  <2> SUFFICES ASSUME NEW m \in ToSet(g.msgs), NEW k \in Stock(d, Q), k > m PROVE k \in ToSet(g.msgs)
      BY DEF HotAbove
  <2>1. m \in ToSet(h.msgs) => k \in ToSet(h.msgs) \cup IF x.op = "saveMessage" THEN {n + 1} ELSE {}
      BY <1>1 DEF HotAbove
  <2>2. m \notin ToSet(h.msgs) => m = n + 1
      BY <1>6
  <2>3. k \in 0 .. n + 1
      BY <1>1, StockFinite
  <2>4. m \in ToSet(h.msgs)
      BY <1>1, <2>2, <2>3
  <2> QED
      BY <1>6, <2>1, <2>4
<1>8. StockAbove(g, d, Q)
  <2> SUFFICES ASSUME NEW m \in Stock(d, Q), NEW k \in ToSet(g.msgs), k > m PROVE k \in Stock(d, Q)
      BY DEF StockAbove
  <2>1. CASE k \in ToSet(h.msgs)
      BY <1>1, <1>3, <2>1, SMTT(30) DEF StockAbove
  <2>2. CASE k \notin ToSet(h.msgs)
      BY <1>1, <1>6, <2>2
  <2> QED
      BY <2>1, <2>2
<1>9. \A i \in Nat : i \in ToSet(h.msgs) => (Cuts(d, Q, x, i) => Cuts(h, {x}, x, i))
  <2> SUFFICES ASSUME NEW i \in Nat, i \in ToSet(h.msgs), Cuts(d, Q, x, i) PROVE Cuts(h, {x}, x, i)
      OBVIOUS
  <2>1. x.op = "truncate"
      BY DEF Cuts
  <2>2. Newer(d, Q, i, x.id) \subseteq Newer(h, {x}, i, x.id)
      BY <1>1, <1>5, <2>1 DEF Newer, HotAbove
  <2> QED
      BY <1>1, <1>2, <2>2, CutsMonotone
<1>10. \A i \in Nat : i \in Stock(d, Q) => (Cuts(h, {x}, x, i) => Cuts(d, Q, x, i))
  <2> SUFFICES ASSUME NEW i \in Nat, i \in Stock(d, Q), Cuts(h, {x}, x, i) PROVE Cuts(d, Q, x, i)
      OBVIOUS
  <2>1. x.op = "truncate"
      BY DEF Cuts
  <2>2. Newer(h, {x}, i, x.id) \subseteq Newer(d, Q, i, x.id)
      BY <1>1, <1>3, <1>5, <2>1 DEF Newer, StockAbove
  <2> QED
      BY <1>1, <1>2, <2>2, CutsMonotone
<1>11. ASSUME NEW i \in Items
       PROVE  /\ i \in ItemsOf(g) /\ ~ Saves(x, i) => i \in ItemsOf(h) /\ ~ Deletes(x, i) /\ ~ Cuts(d, Q, x, i)
              /\ i \in ItemsOf(h) /\ i \notin ItemsOf(g) => Gone(d, Q, i)
  <2>1. i \in ItemsOf(g) <=> \/ i \in ItemsOf(h) /\ ~ Deletes(x, i) /\ ~ Cuts(h, {x}, x, i)
                             \/ Saves(x, i)
      BY <1>2 DEF RanOn
  <2>2. i \in ItemsOf(h) /\ i \in Nat => i \in ToSet(h.msgs)
      BY <1>2, Touching
  <2>3. Cuts(d, Q, x, i) \/ Cuts(h, {x}, x, i) => i \in Nat
      BY DEF Cuts
  <2>4. i \in ItemsOf(g) /\ ~ Saves(x, i) => i \in ItemsOf(h) /\ ~ Deletes(x, i) /\ ~ Cuts(d, Q, x, i)
      BY <1>9, <2>1, <2>2, <2>3
  <2>5. ASSUME i \in ItemsOf(h), i \notin ItemsOf(g) PROVE Gone(d, Q, i)
    <3>1. CASE Deletes(x, i) \/ Cuts(d, Q, x, i)
        BY <3>1, IssueKeeps
    <3>2. CASE ~ Deletes(x, i) /\ ~ Cuts(d, Q, x, i)
      <4>1. i \in Nat /\ i \notin Stock(d, Q)
          BY <1>10, <2>1, <2>3, <2>5, <3>2
      <4>2. i \notin ItemsOf(d)
          BY <1>1, <4>1, Touching DEF Stock
      <4>3. \A j \in Q : ~ Saves(j, i)
          BY <1>1, <4>1, Touching DEF Stock
      <4> QED
          BY <4>2, <4>3 DEF Gone
    <3> QED
        BY <3>1, <3>2
  <2> QED
      BY <2>4, <2>5
<1> QED
    BY <1>1, <1>4, <1>7, <1>8, <1>11

----------------------------------------------------------------------------
(* The inductive invariant.                                                *)

\* What a read has still to copy into the hot session.
Todo(p, s) == IF p \in Refilling(s) THEN proc[p].todo ELSE Empty

FillsMessages(p, s) == Todo(p, s).msgs # <<>>
Fills(p, s) == FillsMessages(p, s) \/ Todo(p, s).metas # {}

\* A read fills the hot tier from a cold one that nothing is on its way to, and is the
\* only one to put messages there.
FillsRight(s) ==
    \A p \in Procs :
        /\ Fills(p, s) => PendingIn(s) = {} /\ Todo(p, s).metas \subseteq disk[s].metas
        /\ FillsMessages(p, s) => /\ hot[s].msgs \o Todo(p, s).msgs = disk[s].msgs
                                  /\ \A q \in Procs : FillsMessages(q, s) => q = p

\* The tiers agree about the past of a session, as far as the hot one reaches.
PastAgrees(s) ==
    /\ Queue(disk[s], PendingIn(s), clock)
    /\ Queue(hot[s], {}, clock)
    /\ StockAbove(hot[s], disk[s], PendingIn(s))
    /\ (\A p \in Procs : ~ FillsMessages(p, s)) => HotAbove(hot[s], disk[s], PendingIn(s))

KeptAndDropped(s) ==
    /\ \A i \in kept[s] : Stored(disk[s], PendingIn(s), i)
    /\ \A i \in dropped[s] :
          /\ Gone(disk[s], PendingIn(s), i)
          /\ i \notin ItemsOf(hot[s])
          /\ \A p \in Procs : i \notin ItemsOf(Todo(p, s))

HotIsStored(s) == \A i \in ItemsOf(hot[s]) : Stored(disk[s], PendingIn(s), i)

\* As long as the hot session lives, what it does not have is on its way out.
MissingIsGone(s) ==
    \A i \in Stock(disk[s], PendingIn(s)) \ ToSet(hot[s].msgs) : Gone(disk[s], PendingIn(s), i)

\* A request that has saved a message, and may have to truncate the history.
Trimming(p, s) ==
    /\ proc[p].s = s
    /\ proc[p].pc \in {"count", "trim"} \/ (proc[p].pc = "spawn" /\ proc[p].op = "saveMessage")

Bounded(s) ==
    MaxMessages > 0 => Len(hot[s].msgs) <= MaxMessages \/ \E p \in Procs : Trimming(p, s)

SessionInv(s) ==
    /\ Sound(s, Tiers) => PastAgrees(s) /\ FillsRight(s) /\ KeptAndDropped(s)
    /\ Sound(s, Tiers \cup {"swept"}) => HotIsStored(s)
    /\ flaws[s] = {} => MissingIsGone(s) /\ Bounded(s)

SessionsInv == \A s \in Sessions : SessionInv(s)

----------------------------------------------------------------------------
(* Steps that leave a session alone.                                       *)

\* A session that has more flaws promises less.
LEMMA MoreFlaws ==
    ASSUME NEW s, flaws[s] \subseteq flaws'[s]
    PROVE  /\ \A what : Sound(s, what)' => Sound(s, what)
           /\ flaws'[s] = {} => flaws[s] = {}
           /\ Sound(s, Tiers \cup {"swept"})' => Sound(s, Tiers)'
           /\ flaws'[s] = {} => Sound(s, Tiers \cup {"swept"})'
<1> QED
    BY DEF Sound

LEMMA NothingToDo ==
    ASSUME NEW p, NEW s
    PROVE  /\ ~ (proc[p].pc = "refill" /\ proc[p].s = s) => Todo(p, s) = Empty
           /\ ~ (proc'[p].pc = "refill" /\ proc'[p].s = s) => Todo(p, s)' = Empty
<1> QED
    BY DEF Todo, Refilling

LEMMA SameRequest ==
    ASSUME NEW p \in Procs, proc'[p] = proc[p], NEW s
    PROVE  Todo(p, s)' = Todo(p, s) /\ Trimming(p, s)' = Trimming(p, s)
<1> QED
    BY DEF Todo, Refilling, Trimming

\* A step that changes nothing of the session but its placeholders.
LEMMA SessionSame ==
    ASSUME NEW s, SessionInv(s), clock' \in Nat, clock <= clock',
           hot'[s] \in SessionRecords, hot'[s].msgs = hot[s].msgs, hot'[s].metas = hot[s].metas,
           disk'[s] = disk[s], PendingIn(s)' = PendingIn(s),
           kept'[s] = kept[s], dropped'[s] = dropped[s], flaws[s] \subseteq flaws'[s],
           \A p \in Procs : /\ Todo(p, s)'.msgs = Todo(p, s).msgs
                            /\ Todo(p, s)'.metas = Todo(p, s).metas,
           \A p \in Procs : MaxMessages > 0 /\ Trimming(p, s)
                              => Trimming(p, s)' \/ Len(hot[s].msgs) <= MaxMessages
    PROVE  SessionInv(s)'
<1>1. \A p \in Procs : FillsMessages(p, s)' = FillsMessages(p, s) /\ Fills(p, s)' = Fills(p, s)
    BY DEF FillsMessages, Fills
<1>2. ASSUME Sound(s, Tiers)' PROVE (PastAgrees(s) /\ FillsRight(s) /\ KeptAndDropped(s))'
  <2>1. PastAgrees(s) /\ FillsRight(s) /\ KeptAndDropped(s)
      BY <1>2, MoreFlaws DEF SessionInv
  <2>2. Queue(disk'[s], PendingIn(s)', clock')
      BY <2>1, QueueGrows DEF PastAgrees
  <2>3. Queue(hot'[s], {}, clock')
    <3>1. Queue(hot[s], {}, clock')
        BY <2>1, QueueGrows DEF PastAgrees
    <3> QED
        BY <3>1 DEF Queue
  <2>4. PastAgrees(s)'
      BY <1>1, <2>1, <2>2, <2>3 DEF PastAgrees, StockAbove, HotAbove
  <2>5. FillsRight(s)'
      BY <1>1, <2>1 DEF FillsRight
  <2>6. KeptAndDropped(s)'
      BY <2>1 DEF KeptAndDropped, ItemsOf
  <2> QED
      BY <2>4, <2>5, <2>6
<1>3. ASSUME Sound(s, Tiers \cup {"swept"})' PROVE HotIsStored(s)'
  <2>1. HotIsStored(s)
      BY <1>3, MoreFlaws DEF SessionInv
  <2> QED
      BY <2>1 DEF HotIsStored, ItemsOf
<1>4. ASSUME flaws'[s] = {} PROVE (MissingIsGone(s) /\ Bounded(s))'
  <2>1. MissingIsGone(s) /\ Bounded(s)
      BY <1>4, MoreFlaws DEF SessionInv
  <2>2. MissingIsGone(s)'
      BY <2>1 DEF MissingIsGone
  <2>3. Bounded(s)'
      BY <2>1 DEF Bounded
  <2> QED
      BY <2>2, <2>3
<1> QED
    BY <1>2, <1>3, <1>4 DEF SessionInv

\* The hot session is dropped, and nobody fills it.
LEMMA HotDropped ==
    ASSUME NEW s, SessionInv(s), clock' \in Nat, clock <= clock', hot'[s] = Empty,
           disk'[s] = disk[s], kept'[s] = kept[s], dropped'[s] = dropped[s],
           flaws[s] \subseteq flaws'[s], "reborn" \in flaws'[s],
           Sound(s, Tiers)' => PendingIn(s)' = PendingIn(s),
           Sound(s, Tiers)' => \A p \in Procs : Todo(p, s)' = Empty
    PROVE  SessionInv(s)'
<1>1. ToSet(hot'[s].msgs) = {} /\ ItemsOf(hot'[s]) = {} /\ Increasing(hot'[s].msgs)
      /\ hot'[s] \in SessionRecords /\ ItemsOf(Empty) = {}
    BY EmptyType DEF ToSet, ItemsOf, Increasing
<1>2. ASSUME Sound(s, Tiers)' PROVE (PastAgrees(s) /\ FillsRight(s) /\ KeptAndDropped(s))'
  <2>1. PastAgrees(s) /\ FillsRight(s) /\ KeptAndDropped(s) /\ PendingIn(s)' = PendingIn(s)
      BY <1>2, MoreFlaws DEF SessionInv
  <2>2. Queue(disk'[s], PendingIn(s)', clock')
      BY <2>1, QueueGrows DEF PastAgrees
  <2>3. Queue(hot'[s], {}, clock')
      BY <1>1 DEF Queue
  <2>4. PastAgrees(s)'
      BY <1>1, <2>2, <2>3 DEF PastAgrees, StockAbove, HotAbove
  <2>5. FillsRight(s)'
      BY <1>2, EmptyType DEF FillsRight, Fills, FillsMessages
  <2>6. KeptAndDropped(s)'
      BY <1>1, <1>2, <2>1 DEF KeptAndDropped
  <2> QED
      BY <2>4, <2>5, <2>6
<1>3. HotIsStored(s)'
    BY <1>1 DEF HotIsStored
<1> QED
    BY <1>2, <1>3 DEF SessionInv

\* A step of one request that neither starts a job nor fills the hot tier.
LEMMA RequestLeaves ==
    ASSUME LayeredInv, LayeredTypes, LayeredTypes', Requests', SessionsInv, NEW p \in Procs,
           proc[p].pc \notin {"spawn", "refill"}, proc'[p].pc \notin {"spawn", "refill"},
           \A x \in Procs \ {p} : proc'[x] = proc[x], jobs' = jobs, clock <= clock',
           \A s \in Sessions :
              /\ hot'[s].msgs = hot[s].msgs /\ hot'[s].metas = hot[s].metas /\ disk'[s] = disk[s]
              /\ kept'[s] = kept[s] /\ dropped'[s] = dropped[s] /\ flaws[s] \subseteq flaws'[s]
              /\ Trimming(p, s) => Trimming(p, s)' \/ Len(hot[s].msgs) <= MaxMessages
    PROVE  SessionsInv'
<1> SUFFICES ASSUME NEW s \in Sessions PROVE SessionInv(s)'
    BY DEF SessionsInv
<1>1. Unstarted' = Unstarted
    BY UnstartedSame
<1>2. PendingIn(s)' = PendingIn(s)
    BY <1>1, PendingIs DEF PendingIn
<1>3. \A x \in Procs : Todo(x, s)' = Todo(x, s)
    BY SameRequest, NothingToDo
<1>4. \A x \in Procs \ {p} : Trimming(x, s)' = Trimming(x, s)
    BY SameRequest
<1>5. hot'[s] \in SessionRecords /\ clock' \in Nat
    BY DEF LayeredTypes, TierTypes, Requests
<1> QED
    BY <1>2, <1>3, <1>4, <1>5, SessionSame DEF SessionsInv

LEMMA SessionsUnrequested ==
    ASSUME LayeredTypes, LayeredTypes', Requests, SessionsInv, proc' = proc, clock' = clock,
           \A s \in Sessions :
              /\ hot'[s].msgs = hot[s].msgs /\ hot'[s].metas = hot[s].metas /\ disk'[s] = disk[s]
              /\ kept'[s] = kept[s] /\ dropped'[s] = dropped[s] /\ flaws'[s] = flaws[s]
              /\ PendingIn(s)' = PendingIn(s)
    PROVE  SessionsInv'
<1> SUFFICES ASSUME NEW s \in Sessions PROVE SessionInv(s)'
    BY DEF SessionsInv
<1>1. \A x \in Procs : Todo(x, s)' = Todo(x, s) /\ Trimming(x, s)' = Trimming(x, s)
    BY SameRequest
<1>2. hot'[s] \in SessionRecords /\ clock' \in Nat /\ clock <= clock'
    BY DEF LayeredTypes, TierTypes, Requests
<1> QED
    BY <1>1, <1>2, SessionSame DEF SessionsInv

\* What changes no session: reads that begin, counts, clearings of the files.
LEMMA SessionsOfRequestSteps ==
    ASSUME LayeredInv, LayeredTypes, LayeredTypes', Requests', SessionsInv, NEW p \in Procs,
           \/ CountMessages(p) \/ LockAll(p) \/ RemoveDir(p) \/ Cleared(p)
           \/ \E s, op, i : Missing(p, s, op, i)
    PROVE  SessionsInv'
<1>1. Requests /\ clock \in Nat /\ IsRequest(proc[p]) /\ RequestFits(proc[p]) /\ DOMAIN proc = Procs
    BY DEF LayeredInv, Requests, LayeredTypes, RequestTypes
<1>2. /\ hot' = hot /\ disk' = disk /\ jobs' = jobs /\ UNCHANGED history /\ clock <= clock'
  <2>1. CASE CountMessages(p) \/ LockAll(p) \/ RemoveDir(p) \/ Cleared(p)
      BY <1>1, <2>1 DEF CountMessages, LockAll, RemoveDir, Cleared, tiers
  <2>2. CASE \E s, op, i : Missing(p, s, op, i)
    <3>1. PICK s, op, i : Missing(p, s, op, i)
        BY <2>2
    <3>2. clock' = clock + 1 /\ UNCHANGED <<tiers, jobs, history>>
        BY <3>1 DEF Missing
    <3> QED
        BY <1>1, <3>2 DEF tiers
  <2> QED
      BY <2>1, <2>2
<1>3. \E r : /\ IsRequest(r) /\ proc' = [proc EXCEPT ![p] = r]
             /\ proc[p].pc \notin {"spawn", "refill"} /\ r.pc \notin {"spawn", "refill"}
             /\ \A s \in Sessions : Trimming(p, s) =>
                    \/ r.s = s /\ r.pc = "trim"
                    \/ Len(hot[s].msgs) <= MaxMessages
  <2>1. CASE CountMessages(p)
    <3> DEFINE a == [proc[p] EXCEPT !.pc = "cold", !.op = "count"]
               b == [proc[p] EXCEPT !.pc = "trim"]
               h == hot[proc[p].s].msgs
    <3>1. IsRequest(a) /\ a.pc = "cold" /\ IsRequest(b) /\ b.pc = "trim" /\ b.s = proc[p].s
        BY <1>1 DEF IsRequest
    <3>2. /\ proc[p].pc = "count"
          /\ \/ proc' = [proc EXCEPT ![p] = a] /\ h = <<>>
             \/ proc' = [proc EXCEPT ![p] = b]
             \/ proc' = [proc EXCEPT ![p] = Idle] /\ ~ (Len(h) > MaxMessages)
        BY <1>1, <2>1 DEF CountMessages
    <3>3. h \in Seq(Nat) /\ MaxMessages \in Nat
        BY <1>1, <3>2, LayeredAssumption DEF RequestFits, LayeredTypes, TierTypes, SessionRecords
    <3> HIDE DEF a, b
    <3>4. \A s \in Sessions : Trimming(p, s) => s = proc[p].s
        BY DEF Trimming
    <3>5. h = <<>> \/ ~ (Len(h) > MaxMessages) => Len(h) <= MaxMessages
        BY <3>3
    <3> HIDE DEF h
    <3>6. \A s \in Sessions : Trimming(p, s) => Len(hot[s].msgs) = Len(h)
        BY <3>4 DEF h
    <3> QED
        BY <3>1, <3>2, <3>4, <3>5, <3>6, IdleFits
  <2>2. CASE LockAll(p) \/ RemoveDir(p) \/ Cleared(p)
    <3>1. PICK r : IsRequest(r) /\ r.pc \notin {"spawn", "refill"} /\ proc' = [proc EXCEPT ![p] = r]
      <4>1. CASE LockAll(p)
        <5> DEFINE dirs == {FileOf[q] : q \in files}
                   r == [proc[p] EXCEPT !.pc = "clear", !.dirs = dirs]
        <5>1. IsRequest(r) /\ r.pc = "clear"
            BY <1>1 DEF IsRequest
        <5>2. proc' = [proc EXCEPT ![p] = r] \/ proc' = [proc EXCEPT ![p] = Idle]
            BY <1>1, <4>1 DEF LockAll
        <5> HIDE DEF r
        <5> QED
            BY <5>1, <5>2, IdleFits
      <4>2. CASE RemoveDir(p)
        <5>1. PICK f : proc' = [proc EXCEPT ![p].dirs = @ \ {f}]
            BY <4>2 DEF RemoveDir
        <5> DEFINE r == [proc[p] EXCEPT !.dirs = @ \ {f}]
        <5>2. IsRequest(r) /\ r.pc = "clear" /\ proc' = [proc EXCEPT ![p] = r]
            BY <1>1, <4>2, <5>1 DEF IsRequest, RemoveDir
        <5> HIDE DEF r
        <5> QED
            BY <5>2
      <4>3. CASE Cleared(p)
          BY <4>3, IdleFits DEF Cleared
      <4> QED
          BY <2>2, <4>1, <4>2, <4>3
    <3>2. proc[p].pc \in {"lockAll", "clear"}
        BY <2>2 DEF LockAll, RemoveDir, Cleared
    <3> QED
        BY <3>1, <3>2 DEF Trimming
  <2>3. ASSUME NEW s, NEW op, NEW i, Missing(p, s, op, i)
        PROVE  \E r : /\ IsRequest(r) /\ proc' = [proc EXCEPT ![p] = r]
                      /\ proc[p].pc \notin {"spawn", "refill"} /\ r.pc \notin {"spawn", "refill"}
                      /\ \A t \in Sessions : Trimming(p, t) =>
                             \/ r.s = t /\ r.pc = "trim"
                             \/ Len(hot[t].msgs) <= MaxMessages
    <3> DEFINE r == [Idle EXCEPT !.pc = "cold", !.op = op, !.s = s, !.item = i]
    <3>1. IsRequest(r) /\ r.pc = "cold"
        BY DEF Idle, IsRequest
    <3>2. proc[p].pc = "idle" /\ proc' = [proc EXCEPT ![p] = r]
        BY <2>3 DEF Missing, Starting
    <3> HIDE DEF r
    <3> QED
        BY <3>1, <3>2 DEF Trimming
  <2> QED
      BY <2>1, <2>2, <2>3
<1>4. PICK r : /\ IsRequest(r) /\ proc' = [proc EXCEPT ![p] = r]
               /\ proc[p].pc \notin {"spawn", "refill"} /\ r.pc \notin {"spawn", "refill"}
               /\ \A s \in Sessions : Trimming(p, s) =>
                      \/ r.s = s /\ r.pc = "trim"
                      \/ Len(hot[s].msgs) <= MaxMessages
    BY <1>3
<1>5. proc'[p] = r /\ \A x \in Procs \ {p} : proc'[x] = proc[x]
    BY <1>1, <1>4, Replaced
<1>6. \A s \in Sessions : Trimming(p, s) => Trimming(p, s)' \/ Len(hot[s].msgs) <= MaxMessages
    BY <1>4, <1>5 DEF Trimming
<1> QED
    BY <1>2, <1>4, <1>5, <1>6, RequestLeaves DEF history

LEMMA SessionsOfSpawn ==
    ASSUME LayeredInv, LayeredTypes, LayeredTypes', SessionsInv, NEW p \in Procs, Spawn(p)
    PROVE  SessionsInv'
<1> SUFFICES ASSUME NEW s \in Sessions PROVE SessionInv(s)'
    BY DEF SessionsInv
<1>1. Requests
    BY DEF LayeredInv
<1>2. /\ Pending' = Pending
      /\ proc'[p].pc \in {"idle", "count"}
      /\ proc'[p].pc = "count" => proc'[p].s = proc[p].s
      /\ proc'[p].pc = "idle" => (proc[p].op = "saveMessage" => ~ (MaxMessages > 0))
      /\ \A x \in Procs \ {p} : proc'[x] = proc[x]
    BY <1>1, PendingSpawned
<1>3. proc[p].pc = "spawn" /\ clock' = clock /\ hot' = hot /\ disk' = disk /\ UNCHANGED history
    BY DEF Spawn, tiers
<1>4. PendingIn(s)' = PendingIn(s)
    BY <1>2 DEF PendingIn
<1>5. \A x \in Procs : Todo(x, s)' = Todo(x, s)
    BY <1>2, <1>3, SameRequest, NothingToDo
<1>6. \A x \in Procs : MaxMessages > 0 /\ Trimming(x, s) => Trimming(x, s)'
  <2>1. MaxMessages > 0 /\ Trimming(p, s) => Trimming(p, s)'
      BY <1>2, <1>3 DEF Trimming
  <2> QED
      BY <1>2, <2>1, SameRequest
<1>7. hot'[s] \in SessionRecords /\ clock' \in Nat /\ clock <= clock'
    BY <1>1, <1>3 DEF LayeredTypes, TierTypes, Requests
<1> QED
    BY <1>3, <1>4, <1>5, <1>6, <1>7, SessionSame DEF SessionsInv, history

----------------------------------------------------------------------------
(* Writes.                                                                 *)

\* A request has changed the hot tier, and its job is under way.
LEMMA WriteIs ==
    ASSUME LayeredInv, LayeredTypes, NEW p \in Procs, NEW s \in Sessions,
           NEW op \in SessionOps \cup {"savePair"}, NEW i, Fitting(op, i, clock + 1),
           proc[p].pc \in {"idle", "trim"}, WriteHot(p, s, op, i)
    PROVE  \E x : /\ x.op = op /\ x.s = s /\ x.item = i /\ x.id = clock + 1 /\ JobFits(x)
                  /\ Pending' = Pending \cup {x}
                  /\ proc'[p].pc = "spawn" /\ proc'[p].s = s /\ proc'[p].op = op
                  /\ \A q \in Procs \ {p} : proc'[q] = proc[q]
                  /\ \A t \in Sessions : Todo(p, t) = Empty /\ Todo(p, t)' = Empty
<1> DEFINE r == [Idle EXCEPT !.pc = "spawn", !.op = op, !.s = s, !.item = i, !.id = clock + 1]
           x == [op |-> op, s |-> s, item |-> i, id |-> clock + 1, pc |-> "start", data |-> {}]
<1>1. Requests /\ clock \in Nat
    BY DEF LayeredInv, Requests
<1>2. /\ IsRequest(r) /\ r.pc = "spawn" /\ r.op = op /\ r.s = s /\ r.item = i /\ r.id = clock + 1
    BY DEF IsRequest, Idle
<1>3. proc' = [proc EXCEPT ![p] = r] /\ jobs' = jobs
    BY DEF WriteHot
<1> HIDE DEF r
<1>4. proc'[p] = r /\ \A q \in Procs \ {p} : proc'[q] = proc[q]
    BY <1>1, <1>2, <1>3, Replaced
<1>5. JobOf(p)' = x
    BY <1>2, <1>4 DEF JobOf
<1>6. Unstarted' = Unstarted \cup {JobOf(p)'}
    BY JobPrepared DEF Fitting
<1>7. Pending' = Pending \cup {x}
    BY <1>3, <1>5, <1>6, PendingIs
<1>8. JobFits(x)
  <2>1. i \in Nat \cup Metas \cup Pairs \cup {None}
      BY <1>1 DEF Fitting
  <2>2. x \in JobRecords
      BY <1>1, <2>1 DEF JobRecords
  <2> QED
      BY <2>2 DEF JobFits
<1>9. x.op = op /\ x.s = s /\ x.item = i /\ x.id = clock + 1
    OBVIOUS
<1> HIDE DEF x
<1>10. \A t \in Sessions : Todo(p, t) = Empty /\ Todo(p, t)' = Empty
    BY <1>2, <1>4, NothingToDo
<1> QED
    BY <1>2, <1>4, <1>7, <1>8, <1>9, <1>10

\* Sessions other than the one that is written, and every session when a placeholder is.
LEMMA WriteElsewhere ==
    ASSUME LayeredInv, LayeredTypes, LayeredTypes', SessionsInv, NEW p \in Procs, NEW s \in Sessions,
           NEW op \in SessionOps \cup {"savePair"}, NEW i, Fitting(op, i, clock + 1),
           proc[p].pc \in {"idle", "trim"}, proc[p].pc = "trim" => s = proc[p].s,
           WriteHot(p, s, op, i), proc[p].pc = "trim" <=> op = "truncate",
           NEW t \in Sessions, t # s \/ op = "savePair"
    PROVE  SessionInv(t)'
<1>1. PICK x : /\ x.op = op /\ x.s = s
               /\ Pending' = Pending \cup {x}
               /\ \A q \in Procs \ {p} : proc'[q] = proc[q]
               /\ Todo(p, t) = Empty /\ Todo(p, t)' = Empty
    BY WriteIs
<1>2. PendingIn(t)' = PendingIn(t)
    BY <1>1 DEF PendingIn, SessionOps
<1>3. /\ hot'[t].msgs = hot[t].msgs /\ hot'[t].metas = hot[t].metas
      /\ disk'[t] = disk[t] /\ kept'[t] = kept[t] /\ dropped'[t] = dropped[t] /\ flaws'[t] = flaws[t]
  <2>1. hot' = [hot EXCEPT ![s] = After(op, i, @)] /\ disk' = disk
      BY DEF WriteHot
  <2>2. CASE op = "savePair"
    <3>1. UNCHANGED history
        BY <2>2 DEF WriteHot, SessionOps
    <3>2. After(op, i, hot[s]) = [hot[s] EXCEPT !.pairs = @ \cup {i}] /\ hot[s] \in SessionRecords
        BY <2>2 DEF After, WithPair, LayeredTypes, TierTypes
    <3>3. After(op, i, hot[s]).msgs = hot[s].msgs /\ After(op, i, hot[s]).metas = hot[s].metas
        BY <3>2 DEF SessionRecords
    <3> QED
        BY <2>1, <3>1, <3>3 DEF history, LayeredTypes, TierTypes
  <2>3. CASE op # "savePair"
    <3>1. op \in SessionOps /\ t # s
        BY <2>3
    <3>2. hot'[t] = hot[t]
        BY <2>1, <3>1 DEF LayeredTypes, TierTypes
    <3>3. kept'[t] = kept[t] /\ dropped'[t] = dropped[t] /\ flaws'[t] = flaws[t]
        BY <3>1 DEF WriteHot, Flawed, LayeredTypes, HistoryTypes
    <3> QED
        BY <2>1, <3>2, <3>3
  <2> QED
      BY <2>2, <2>3
<1>4. \A q \in Procs : Todo(q, t)' = Todo(q, t)
    BY <1>1, SameRequest
<1>5. \A q \in Procs : Trimming(q, t) => Trimming(q, t)'
  <2>1. ~ Trimming(p, t)
    <3>1. CASE proc[p].pc = "idle"
        BY <3>1 DEF Trimming
    <3>2. CASE proc[p].pc = "trim"
        BY <3>2 DEF Trimming
    <3> QED
        BY <3>1, <3>2
  <2> QED
      BY <1>1, <2>1, SameRequest
<1>6. hot'[t] \in SessionRecords /\ clock' \in Nat /\ clock <= clock'
    BY DEF WriteHot, LayeredInv, Requests, LayeredTypes, TierTypes
<1> QED
    BY <1>2, <1>3, <1>4, <1>5, <1>6, SessionSame DEF SessionsInv

\* What the history says of a write is what its job will do: K was kept so far.
LEMMA WriteHistory ==
    ASSUME NEW h, NEW d, NEW P, NEW n, Queue(d, P, n), Queue(h, {}, n),
           HotAbove(h, d, P), StockAbove(h, d, P),
           NEW x, JobFits(x), x.op \in SessionOps, x.id = n + 1,
           NEW g, g = After(x.op, x.item, h), NEW Q, Q = P \cup {x},
           NEW K \in SUBSET Items, NEW i \in Items
    PROVE  /\ i \in Saved(x.op, x.item) <=> Saves(x, i)
           /\ i \in K /\ i \notin Deleted(x.op, h, K) /\ i \notin Doubtful(x.op, h, K)
                 => ~ Deletes(x, i) /\ ~ Cuts(d, Q, x, i)
           /\ i \in Deleted(x.op, h, K) => Gone(d, Q, i) /\ i \notin ItemsOf(g) /\ ~ Saves(x, i)
<1>1. /\ i \in ItemsOf(g) /\ ~ Saves(x, i) => i \in ItemsOf(h) /\ ~ Deletes(x, i) /\ ~ Cuts(d, Q, x, i)
      /\ i \in ItemsOf(h) /\ i \notin ItemsOf(g) => Gone(d, Q, i)
      /\ Queue(d, Q, n + 1)
    BY WriteIssues
<1>2. i \in Nat <=> i \notin Metas
    BY LayeredAssumption DEF Items
<1>3. i \in Saved(x.op, x.item) <=> Saves(x, i)
    BY DEF Saved, Saves
<1>4. Deletes(x, i) => Gone(d, Q, i) /\ i \notin ItemsOf(g) /\ ~ Saves(x, i)
  <2>1. Deletes(x, i) => ~ Saves(x, i)
      BY DEF Deletes, Saves
  <2> QED
      BY <1>1, <2>1, IssueKeeps
<1>5. CASE x.op = "truncate"
  <2>1. ~ Saves(x, i) /\ ~ Deletes(x, i)
      BY <1>5 DEF Saves, Deletes
  <2>2. g = Truncated(h)
      BY <1>5 DEF After
  <2>3. Deleted(x.op, h, K) = ToSet(h.msgs) \ ToSet(g.msgs) /\ Doubtful(x.op, h, K) = (K \ Metas) \ ToSet(g.msgs)
      BY <1>5, <2>2 DEF Deleted, Doubtful
  <2>4. i \in K /\ i \notin Doubtful(x.op, h, K) => ~ Cuts(d, Q, x, i)
    <3>1. CASE i \in Metas
        BY <1>2, <3>1 DEF Cuts
    <3>2. CASE i \in ToSet(g.msgs)
        BY <1>1, <2>1, <3>2 DEF ItemsOf
    <3> QED
        BY <2>3, <3>1, <3>2
  <2>5. i \in Deleted(x.op, h, K) => i \in ItemsOf(h) /\ i \notin ItemsOf(g)
    <3>1. ToSet(h.msgs) \subseteq Nat
        BY StockFinite
    <3>2. g.metas \subseteq Metas
        BY <2>2, TruncatedType DEF Queue, SessionRecords
    <3> QED
        BY <1>2, <2>3, <3>1, <3>2 DEF ItemsOf
  <2> QED
      BY <1>1, <1>3, <2>1, <2>4, <2>5
<1>6. CASE x.op # "truncate"
  <2>1. ~ Cuts(d, Q, x, i)
      BY <1>6 DEF Cuts
  <2>2. i \in Deleted(x.op, h, K) => Deletes(x, i)
      BY <1>2, <1>6 DEF Deleted, Deletes
  <2>3. i \in K /\ i \notin Deleted(x.op, h, K) => ~ Deletes(x, i)
      BY <1>2, <1>6 DEF Deleted, Deletes
  <2> QED
      BY <1>3, <1>4, <2>1, <2>2, <2>3
<1> QED
    BY <1>5, <1>6

LEMMA WriteHere ==
    ASSUME LayeredInv, LayeredTypes, LayeredTypes', SessionsInv, NEW p \in Procs, NEW s \in Sessions,
           NEW op \in SessionOps, NEW i0, Fitting(op, i0, clock + 1),
           proc[p].pc \in {"idle", "trim"}, proc[p].pc = "trim" <=> op = "truncate",
           WriteHot(p, s, op, i0)
    PROVE  SessionInv(s)'
<1> DEFINE d == disk[s]
           h == hot[s]
           P == PendingIn(s)
           g == After(op, i0, h)
<1>1. PICK x : /\ x.op = op /\ x.s = s /\ x.item = i0 /\ x.id = clock + 1 /\ JobFits(x)
               /\ Pending' = Pending \cup {x}
               /\ proc'[p].pc = "spawn" /\ proc'[p].s = s /\ proc'[p].op = op
               /\ \A q \in Procs \ {p} : proc'[q] = proc[q]
               /\ Todo(p, s) = Empty /\ Todo(p, s)' = Empty
    BY WriteIs
<1> DEFINE Q == P \cup {x}
<1>2. PendingIn(s)' = Q
    BY <1>1 DEF PendingIn
<1>3. disk' = disk /\ hot'[s] = g /\ clock' = clock + 1
    BY DEF WriteHot, LayeredTypes, TierTypes
<1>4. /\ kept'[s] = ((kept[s] \ Deleted(op, h, kept[s])) \ Doubtful(op, h, kept[s])) \cup Saved(op, i0)
      /\ dropped'[s] = (dropped[s] \cup Deleted(op, h, kept[s])) \ Saved(op, i0)
      /\ flaws'[s] = flaws[s] \cup IF Refilling(s) = {} THEN {} ELSE {"mixed"}
    BY DEF WriteHot, Flawed, LayeredTypes, HistoryTypes
<1>5. flaws[s] \subseteq flaws'[s]
    BY <1>4
<1>6. kept[s] \subseteq Items /\ kept'[s] \subseteq Items /\ dropped'[s] \subseteq Items
    BY DEF LayeredTypes, HistoryTypes
<1> HIDE DEF d, h, P, g, Q
<1>7. ASSUME Sound(s, Tiers)'
      PROVE  /\ Queue(d, P, clock) /\ Queue(h, {}, clock) /\ HotAbove(h, d, P) /\ StockAbove(h, d, P)
             /\ Queue(d, Q, clock + 1) /\ Queue(g, {}, clock + 1)
             /\ HotAbove(g, d, Q) /\ StockAbove(g, d, Q)
             /\ KeptAndDropped(s)
             /\ \A q \in Procs : Todo(q, s)' = Empty
             /\ \A i \in Items :
                   /\ i \in ItemsOf(g) /\ ~ Saves(x, i) => i \in ItemsOf(h) /\ ~ Deletes(x, i) /\ ~ Cuts(d, Q, x, i)
                   /\ i \in ItemsOf(h) /\ i \notin ItemsOf(g) => Gone(d, Q, i)
             /\ \A i \in Items :
                   /\ Stored(d, P, i) /\ ~ Deletes(x, i) /\ ~ Cuts(d, Q, x, i) => Stored(d, Q, i)
                   /\ Gone(d, P, i) /\ ~ Saves(x, i) => Gone(d, Q, i)
                   /\ Saves(x, i) => Stored(d, Q, i) /\ i \in ItemsOf(g)
             /\ \A i \in Items :
                   /\ i \in Saved(op, i0) <=> Saves(x, i)
                   /\ i \in kept[s] /\ i \notin Deleted(op, h, kept[s]) /\ i \notin Doubtful(op, h, kept[s])
                        => ~ Deletes(x, i) /\ ~ Cuts(d, Q, x, i)
                   /\ i \in Deleted(op, h, kept[s]) => Gone(d, Q, i) /\ i \notin ItemsOf(g) /\ ~ Saves(x, i)
  <2>1. PastAgrees(s) /\ KeptAndDropped(s)
      BY <1>5, <1>7, MoreFlaws DEF SessionsInv, SessionInv
  <2>2. Refilling(s) = {}
      BY <1>4, <1>7 DEF Sound, Tiers
  <2>3. \A q \in Procs : Todo(q, s) = Empty
      BY <2>2 DEF Todo
  <2>4. \A q \in Procs : Todo(q, s)' = Empty
      BY <1>1, <2>3, SameRequest
  <2>5. \A q \in Procs : ~ FillsMessages(q, s)
      BY <2>3, EmptyType DEF FillsMessages
  <2>6. Queue(d, P, clock) /\ Queue(h, {}, clock) /\ HotAbove(h, d, P) /\ StockAbove(h, d, P)
      BY <2>1, <2>5 DEF PastAgrees, d, h, P
  <2>7. g = After(x.op, x.item, h) /\ x.op \in SessionOps /\ Q = P \cup {x}
        /\ JobFits(x) /\ x.id = clock + 1 /\ kept[s] \in SUBSET Items
      BY <1>1, <1>6 DEF g, Q
  <2>8. /\ Queue(d, Q, clock + 1) /\ Queue(g, {}, clock + 1)
        /\ HotAbove(g, d, Q) /\ StockAbove(g, d, Q)
        /\ \A i \in Items :
              /\ i \in ItemsOf(g) /\ ~ Saves(x, i) => i \in ItemsOf(h) /\ ~ Deletes(x, i) /\ ~ Cuts(d, Q, x, i)
              /\ i \in ItemsOf(h) /\ i \notin ItemsOf(g) => Gone(d, Q, i)
      BY <2>6, <2>7, WriteIssues
  <2>9. \A i \in Items :
              /\ Stored(d, P, i) /\ ~ Deletes(x, i) /\ ~ Cuts(d, Q, x, i) => Stored(d, Q, i)
              /\ Gone(d, P, i) /\ ~ Saves(x, i) => Gone(d, Q, i)
              /\ Saves(x, i) => Stored(d, Q, i)
      BY <1>1, <2>6, <2>7, IssueKeeps DEF Q
  <2>10. \A i \in Items : Saves(x, i) => i \in ItemsOf(g)
      BY <1>1, <2>6, <2>7, HotChanges DEF RanOn
  <2>11. \A i \in Items :
              /\ i \in Saved(op, i0) <=> Saves(x, i)
              /\ i \in kept[s] /\ i \notin Deleted(op, h, kept[s]) /\ i \notin Doubtful(op, h, kept[s])
                   => ~ Deletes(x, i) /\ ~ Cuts(d, Q, x, i)
              /\ i \in Deleted(op, h, kept[s]) => Gone(d, Q, i) /\ i \notin ItemsOf(g) /\ ~ Saves(x, i)
    <3> SUFFICES ASSUME NEW i \in Items
                 PROVE  /\ i \in Saved(x.op, x.item) <=> Saves(x, i)
                        /\ i \in kept[s] /\ i \notin Deleted(x.op, h, kept[s])
                                         /\ i \notin Doubtful(x.op, h, kept[s])
                             => ~ Deletes(x, i) /\ ~ Cuts(d, Q, x, i)
                        /\ i \in Deleted(x.op, h, kept[s])
                             => Gone(d, Q, i) /\ i \notin ItemsOf(g) /\ ~ Saves(x, i)
        BY <1>1
    <3> QED
        BY <2>6, <2>7, WriteHistory
  <2> QED
      BY <2>1, <2>4, <2>6, <2>8, <2>9, <2>10, <2>11
<1>8. ASSUME Sound(s, Tiers)' PROVE (PastAgrees(s) /\ FillsRight(s) /\ KeptAndDropped(s))'
  <2>1. PastAgrees(s)'
      BY <1>2, <1>3, <1>7, <1>8 DEF PastAgrees, d
  <2>2. FillsRight(s)'
      BY <1>7, <1>8, EmptyType DEF FillsRight, Fills, FillsMessages
  <2>3. KeptAndDropped(s)'
    <3>1. \A i \in kept'[s] : Stored(d, Q, i)
      <4> SUFFICES ASSUME NEW i \in kept'[s] PROVE Stored(d, Q, i)
          OBVIOUS
      <4>1. i \in Items
          BY <1>6
      <4>2. CASE Saves(x, i)
          BY <1>7, <1>8, <4>1, <4>2
      <4>3. CASE ~ Saves(x, i)
        <5>1. i \in kept[s] /\ i \notin Deleted(op, h, kept[s]) /\ i \notin Doubtful(op, h, kept[s])
            BY <1>4, <1>7, <1>8, <4>1, <4>3
        <5>2. Stored(d, P, i)
            BY <1>7, <1>8, <5>1 DEF KeptAndDropped, d, P
        <5> QED
            BY <1>7, <1>8, <4>1, <5>1, <5>2
      <4> QED
          BY <4>2, <4>3
    <3>2. \A i \in dropped'[s] : Gone(d, Q, i) /\ i \notin ItemsOf(g)
      <4> SUFFICES ASSUME NEW i \in dropped'[s] PROVE Gone(d, Q, i) /\ i \notin ItemsOf(g)
          OBVIOUS
      <4>1. i \in Items
          BY <1>6
      <4>2. ~ Saves(x, i)
          BY <1>4, <1>7, <1>8, <4>1
      <4>3. CASE i \in Deleted(op, h, kept[s])
          BY <1>7, <1>8, <4>1, <4>3
      <4>4. CASE i \in dropped[s]
        <5>1. Gone(d, P, i) /\ i \notin ItemsOf(h)
            BY <1>7, <1>8, <4>4 DEF KeptAndDropped, d, P, h
        <5> QED
            BY <1>7, <1>8, <4>1, <4>2, <5>1
      <4> QED
          BY <1>4, <4>3, <4>4
    <3>3. ItemsOf(Empty) = {}
        BY EmptyType DEF ItemsOf, ToSet
    <3> QED
        BY <1>2, <1>3, <1>7, <1>8, <3>1, <3>2, <3>3 DEF KeptAndDropped, d
  <2> QED
      BY <2>1, <2>2, <2>3
<1>9. ASSUME Sound(s, Tiers \cup {"swept"})' PROVE HotIsStored(s)'
  <2>1. Sound(s, Tiers)'
      BY <1>5, <1>9, MoreFlaws
  <2>2. HotIsStored(s)
      BY <1>5, <1>9, MoreFlaws DEF SessionsInv, SessionInv
  <2>3. \A i \in ItemsOf(g) : Stored(d, Q, i)
    <3> SUFFICES ASSUME NEW i \in ItemsOf(g) PROVE Stored(d, Q, i)
        OBVIOUS
    <3>1. i \in Items
      <4>1. g.metas \subseteq Metas
          BY <1>7, <2>1 DEF Queue, SessionRecords
      <4>2. ToSet(g.msgs) \subseteq Nat
          BY <1>7, <2>1, StockFinite
      <4> QED
          BY <4>1, <4>2 DEF ItemsOf, Items
    <3>2. CASE Saves(x, i)
        BY <1>7, <2>1, <3>1, <3>2
    <3>3. CASE ~ Saves(x, i)
      <4>1. i \in ItemsOf(h) /\ ~ Deletes(x, i) /\ ~ Cuts(d, Q, x, i)
          BY <1>7, <2>1, <3>1, <3>3
      <4>2. Stored(d, P, i)
          BY <2>2, <4>1 DEF HotIsStored, d, P, h
      <4> QED
          BY <1>7, <2>1, <3>1, <4>1, <4>2
    <3> QED
        BY <3>2, <3>3
  <2> QED
      BY <1>2, <1>3, <2>3 DEF HotIsStored, d
<1>10. ASSUME flaws'[s] = {} PROVE MissingIsGone(s)' /\ Bounded(s)'
  <2>1. Sound(s, Tiers)'
      BY <1>5, <1>10, MoreFlaws
  <2>2. MissingIsGone(s) /\ Bounded(s)
      BY <1>5, <1>10, MoreFlaws DEF SessionsInv, SessionInv
  <2>3. \A i \in Stock(d, Q) \ ToSet(g.msgs) : Gone(d, Q, i)
    <3> SUFFICES ASSUME NEW i \in Stock(d, Q), i \notin ToSet(g.msgs) PROVE Gone(d, Q, i)
        OBVIOUS
    <3>1. i \in Nat /\ i \in Items
        BY <1>7, <2>1, StockFinite DEF Items
    <3>2. i \notin ItemsOf(g)
        BY <1>7, <2>1, <3>1, LayeredAssumption DEF ItemsOf, Queue, SessionRecords
    <3>3. ~ Saves(x, i)
        BY <1>7, <2>1, <3>1, <3>2
    <3>4. i \in Stock(d, P)
      <4>1. ~ (x.op = "saveMessage" /\ x.id = i)
          BY <1>7, <2>1, <3>1, <3>3, Touching DEF Q
      <4> QED
          BY <4>1 DEF Stock, Q
    <3>5. CASE i \in ToSet(h.msgs)
        BY <1>7, <2>1, <3>1, <3>2, <3>5 DEF ItemsOf
    <3>6. CASE i \notin ToSet(h.msgs)
      <4>1. Gone(d, P, i)
          BY <2>2, <3>4, <3>6 DEF MissingIsGone, d, P, h
      <4> QED
          BY <1>7, <2>1, <3>1, <3>3, <4>1
    <3> QED
        BY <3>5, <3>6
  <2>4. Bounded(s)'
    <3>1. CASE op = "truncate"
      <4>1. h \in SessionRecords /\ Increasing(h.msgs)
          BY <1>7, <2>1 DEF Queue
      <4>2. g = Truncated(h)
          BY <3>1 DEF g, After
      <4>3. Len(g.msgs) <= MaxMessages
          BY <4>1, <4>2, TruncatedKeeps
      <4> QED
          BY <1>3, <4>3 DEF Bounded
    <3>2. CASE op = "saveMessage"
        BY <1>1, <3>2 DEF Bounded, Trimming
    <3>3. CASE op \in {"deleteMessages", "deleteSession"}
      <4>1. g.msgs = <<>>
          BY <1>7, <2>1, <3>3, EmptyType DEF g, After, WithoutMessages, Queue, SessionRecords
      <4> QED
          BY <1>3, <4>1, LayeredAssumption DEF Bounded
    <3>4. CASE op \in {"saveMeta", "deleteMetas"}
      <4>1. g.msgs = h.msgs
          BY <1>7, <2>1, <3>4 DEF g, After, WithMeta, WithoutMetas, Queue, SessionRecords
      <4>2. ~ Trimming(p, s)
          BY <3>4 DEF Trimming
      <4>3. \A q \in Procs : Trimming(q, s) => Trimming(q, s)'
          BY <1>1, <4>2, SameRequest
      <4> QED
          BY <1>3, <2>2, <4>1, <4>3 DEF Bounded, h
    <3> QED
        BY <3>1, <3>2, <3>3, <3>4 DEF SessionOps
  <2> QED
      BY <1>2, <1>3, <2>3, <2>4 DEF MissingIsGone, d
<1> QED
    BY <1>8, <1>9, <1>10 DEF SessionInv

----------------------------------------------------------------------------
(* The jobs.                                                               *)

\* A job that ends is no longer under way.
LEMMA JobEnded ==
    ASSUME LayeredTypes, NEW j \in jobs, jobs' = jobs \ {j}, proc' = proc
    PROVE  Pending' = Pending \ {j} /\ j \in Pending
<1>1. Unstarted' = Unstarted
    BY DEF Unstarted, JobOf
<1>2. j \notin Unstarted
  <2> SUFFICES ASSUME NEW p \in Procs, proc[p].pc = "spawn", j = JobOf(p) PROVE FALSE
      BY DEF Unstarted
  <2>1. JobOf(p).id = proc[p].id
      BY DEF JobOf
  <2> QED
      BY <2>1 DEF LayeredTypes, OwnNumbers
<1> QED
    BY <1>1, <1>2, PendingIs

LEMMA SessionsOfFileJob ==
    ASSUME LayeredInv, LayeredTypes, LayeredTypes', SessionsInv, NEW j \in jobs,
           LockFile(j) \/ LoadFile(j) \/ StoreFile(j) \/ PairFails(j)
    PROVE  SessionsInv'
<1>1. j.op = "savePair" /\ j \in Pending /\ IsJob(j)
    BY PendingIs DEF LockFile, LoadFile, StoreFile, PairFails, At, LayeredInv, JobsFit
<1>2. /\ proc' = proc /\ clock' = clock /\ hot' = hot /\ disk' = disk /\ UNCHANGED history
    BY DEF LockFile, LoadFile, StoreFile, PairFails, tiers
<1>3. \E k : k.op = "savePair" /\ jobs \ {j} \subseteq jobs' /\ jobs' \subseteq (jobs \ {j}) \cup {k}
  <2>1. CASE StoreFile(j) \/ PairFails(j)
    <3>1. jobs' = jobs \ {j}
        BY <2>1 DEF StoreFile, PairFails
    <3> QED
        BY <1>1, <3>1
  <2>2. CASE LockFile(j)
    <3> DEFINE k == [j EXCEPT !.pc = "load"]
    <3>1. jobs' = (jobs \ {j}) \cup {k}
        BY <2>2 DEF LockFile
    <3>2. k.op = "savePair"
        BY <1>1 DEF IsJob
    <3> HIDE DEF k
    <3> QED
        BY <3>1, <3>2
  <2>3. CASE LoadFile(j)
    <3> DEFINE k == [j EXCEPT !.pc = "store", !.data = files \cap PairsIn(FileOfJob(j))]
    <3>1. jobs' = (jobs \ {j}) \cup {k}
        BY <2>3 DEF LoadFile
    <3>2. k.op = "savePair"
        BY <1>1 DEF IsJob
    <3> HIDE DEF k
    <3> QED
        BY <3>1, <3>2
  <2> QED
      BY <2>1, <2>2, <2>3
<1>4. Unstarted' = Unstarted
    BY <1>2 DEF Unstarted, JobOf
<1>5. \A k : k.op \in SessionOps => (k \in Pending' <=> k \in Pending)
  <2>1. PICK c : c.op = "savePair" /\ jobs \ {j} \subseteq jobs' /\ jobs' \subseteq (jobs \ {j}) \cup {c}
      BY <1>3
  <2>2. \A k : k.op \in SessionOps => k # j /\ k # c
      BY <1>1, <2>1 DEF SessionOps
  <2> QED
      BY <1>4, <2>1, <2>2, PendingIs
<1>6. \A s \in Sessions : PendingIn(s)' = PendingIn(s)
    BY <1>5 DEF PendingIn
<1> QED
    BY <1>2, <1>6, SessionsUnrequested DEF LayeredInv, history

LEMMA SessionsOfSessionJob ==
    ASSUME LayeredInv, LayeredTypes, LayeredTypes', SessionsInv, NEW j \in jobs, WriteCold(j)
    PROVE  SessionsInv'
<1> DEFINE s == j.s
           d == disk[s]
           P == PendingIn(s)
           e == After(j.op, j.item, d)
           Q == P \ {j}
<1>1. jobs' = jobs \ {j} /\ proc' = proc /\ clock' = clock /\ hot' = hot
      /\ kept' = kept /\ dropped' = dropped /\ j.op \in SessionOps
    BY DEF WriteCold
<1>2. Pending' = Pending \ {j} /\ j \in Pending
    BY <1>1, JobEnded
<1>3. s \in Sessions
    BY <1>2 DEF LayeredTypes, PendingTypes, JobFits, JobRecords
<1>4. j \in P /\ PendingIn(s)' = Q /\ \A t \in Sessions \ {s} : PendingIn(t)' = PendingIn(t)
    BY <1>1, <1>2 DEF PendingIn
<1>5. \A x \in Procs : \A t : Todo(x, t)' = Todo(x, t) /\ Trimming(x, t)' = Trimming(x, t)
    BY <1>1, SameRequest
<1>6. /\ \A t \in Sessions \ {s} : disk'[t] = disk[t] /\ flaws'[t] = flaws[t]
      /\ flaws[s] \subseteq flaws'[s]
      /\ \/ "failed" \in flaws'[s]
         \/ Overtakes(j) /\ "overtaken" \in flaws'[s]
         \/ ~ Overtakes(j) /\ disk'[s] = e
  <2>1. DOMAIN disk = Sessions /\ DOMAIN flaws = Sessions
      BY DEF LayeredTypes, TierTypes, HistoryTypes
  <2>2. CASE disk' = [disk EXCEPT ![s] = e] /\ flaws' = Flawed(s, IF Overtakes(j) THEN {"overtaken"} ELSE {})
      BY <1>3, <2>1, <2>2 DEF Flawed
  <2>3. CASE flaws' = Flawed(s, {"failed"}) /\ disk' = disk
      BY <1>3, <2>1, <2>3 DEF Flawed
  <2> QED
      BY <2>2, <2>3 DEF WriteCold
<1>7. ASSUME NEW t \in Sessions \ {s} PROVE SessionInv(t)'
  <2>1. hot'[t] \in SessionRecords /\ clock' \in Nat /\ clock <= clock'
      BY <1>1 DEF LayeredInv, Requests, LayeredTypes, TierTypes
  <2> QED
      BY <1>1, <1>4, <1>5, <1>6, <2>1, SessionSame DEF SessionsInv
<1>8. SessionInv(s)'
  <2> HIDE DEF s, d, e, P, Q
  <2>1. ASSUME Sound(s, Tiers)'
        PROVE  /\ PastAgrees(s) /\ FillsRight(s) /\ KeptAndDropped(s)
               /\ Queue(d, P, clock) /\ RanOn(d, P, j, e, Q, clock)
               /\ disk'[s] = e
               /\ \A p \in Procs : ~ Fills(p, s) /\ ~ FillsMessages(p, s)
               /\ \A i \in Items : /\ Stored(d, P, i) => Stored(e, Q, i)
                                   /\ Gone(d, P, i) => Gone(e, Q, i)
    <3>1. PastAgrees(s) /\ FillsRight(s) /\ KeptAndDropped(s)
        BY <1>3, <1>6, <2>1, MoreFlaws DEF SessionsInv, SessionInv
    <3>2. ~ Overtakes(j) /\ disk'[s] = e
        BY <1>6, <2>1 DEF Sound, Tiers
    <3>3. InTurn(P, j)
        BY <3>2 DEF Overtakes, InTurn, P, s
    <3>4. Queue(d, P, clock)
        BY <3>1 DEF PastAgrees, d, P
    <3>5. RanOn(d, P, j, e, Q, clock)
        BY <1>4, <3>3, <3>4, JobRuns DEF e, Q
    <3>6. \A p \in Procs : ~ Fills(p, s) /\ ~ FillsMessages(p, s)
        BY <1>4, <3>1 DEF FillsRight, Fills, P
    <3>7. \A i \in Items : /\ Stored(d, P, i) => Stored(e, Q, i)
                           /\ Gone(d, P, i) => Gone(e, Q, i)
      <4>1. Q = P \ {j}
          BY DEF Q
      <4> QED
          BY <1>4, <3>3, <3>4, <3>5, <4>1, RunKeeps
    <3> QED
        BY <3>1, <3>2, <3>4, <3>5, <3>6, <3>7
  <2>2. kept[s] \subseteq Items /\ dropped[s] \subseteq Items
      BY <1>3 DEF LayeredTypes, HistoryTypes
  <2>3. ASSUME Sound(s, Tiers)' PROVE (PastAgrees(s) /\ FillsRight(s) /\ KeptAndDropped(s))'
    <3>1. \A p \in Procs : ~ Fills(p, s)' /\ ~ FillsMessages(p, s)'
        BY <1>5, <2>1, <2>3 DEF Fills, FillsMessages
    <3>2. HotAbove(hot[s], d, P) /\ StockAbove(hot[s], d, P) /\ Queue(hot[s], {}, clock)
        BY <2>1, <2>3 DEF PastAgrees, d, P
    <3>3. HotAbove(hot[s], e, Q) /\ StockAbove(hot[s], e, Q)
        BY <2>1, <2>3, <3>2 DEF RanOn, HotAbove, StockAbove
    <3>4. PastAgrees(s)'
        BY <1>1, <1>4, <2>1, <2>3, <3>2, <3>3 DEF PastAgrees, RanOn
    <3>5. FillsRight(s)'
        BY <3>1 DEF FillsRight
    <3>6. /\ \A i \in kept[s] : Stored(e, Q, i)
          /\ \A i \in dropped[s] : Gone(e, Q, i)
          /\ \A i \in dropped[s] : i \notin ItemsOf(hot[s]) /\ \A p \in Procs : i \notin ItemsOf(Todo(p, s))
      <4>1. /\ \A i \in kept[s] : Stored(d, P, i)
            /\ \A i \in dropped[s] : Gone(d, P, i)
            /\ \A i \in dropped[s] : i \notin ItemsOf(hot[s]) /\ \A p \in Procs : i \notin ItemsOf(Todo(p, s))
          BY <2>1, <2>3 DEF KeptAndDropped, d, P
      <4>2. \A i \in Items : Stored(d, P, i) => Stored(e, Q, i)
          BY <2>1, <2>3
      <4>3. \A i \in Items : Gone(d, P, i) => Gone(e, Q, i)
          BY <2>1, <2>3
      <4> QED
          BY <2>2, <4>1, <4>2, <4>3
    <3>7. KeptAndDropped(s)'
        BY <1>1, <1>4, <1>5, <2>1, <2>3, <3>6 DEF KeptAndDropped
    <3> QED
        BY <3>4, <3>5, <3>7
  <2>4. ASSUME Sound(s, Tiers \cup {"swept"})' PROVE HotIsStored(s)'
    <3>1. Sound(s, Tiers)' /\ HotIsStored(s)
        BY <1>3, <1>6, <2>4, MoreFlaws DEF SessionsInv, SessionInv
    <3>2. ItemsOf(hot[s]) \subseteq Items
        BY <1>3, SetOf DEF LayeredTypes, TierTypes, SessionRecords, ItemsOf, Items
    <3>3. \A i \in ItemsOf(hot[s]) : Stored(d, P, i)
        BY <3>1 DEF HotIsStored, d, P
    <3>4. \A i \in ItemsOf(hot[s]) : Stored(e, Q, i)
        BY <2>1, <3>1, <3>2, <3>3
    <3> QED
        BY <1>1, <1>4, <2>1, <3>1, <3>4 DEF HotIsStored
  <2>5. ASSUME flaws'[s] = {} PROVE MissingIsGone(s)' /\ Bounded(s)'
    <3>1. Sound(s, Tiers)' /\ MissingIsGone(s) /\ Bounded(s)
        BY <1>3, <1>6, <2>5, MoreFlaws DEF SessionsInv, SessionInv
    <3>2. Stock(e, Q) \subseteq Items /\ Stock(e, Q) \subseteq Stock(d, P)
        BY <2>1, <3>1, StockFinite DEF RanOn, Items
    <3>3. \A i \in Stock(d, P) \ ToSet(hot[s].msgs) : Gone(d, P, i)
        BY <3>1 DEF MissingIsGone, d, P
    <3>4. \A i \in Stock(e, Q) \ ToSet(hot[s].msgs) : Gone(e, Q, i)
        BY <2>1, <3>1, <3>2, <3>3
    <3>5. MissingIsGone(s)'
        BY <1>1, <1>4, <2>1, <3>1, <3>4 DEF MissingIsGone
    <3>6. Bounded(s)'
        BY <1>1, <1>5, <3>1 DEF Bounded
    <3> QED
        BY <3>5, <3>6
  <2> QED
      BY <2>3, <2>4, <2>5 DEF SessionInv
<1> QED
    BY <1>7, <1>8 DEF SessionsInv

----------------------------------------------------------------------------
(* The reads that fill the hot tier.                                       *)

\* The first of the messages t is put after the messages h.
LEMMA PrefixGrows ==
    ASSUME NEW h \in Seq(Nat), NEW t \in Seq(Nat), t # <<>>, NEW g, g = Append(h, Head(t))
    PROVE  /\ Tail(t) \in Seq(Nat) /\ g \o Tail(t) = h \o t
           /\ Tail(t) = <<>> => g = h \o t
           /\ Head(t) \in ToSet(h \o t) /\ ToSet(g) \subseteq ToSet(h \o t)
           /\ ToSet(g) = ToSet(h) \cup {Head(t)}
           /\ Increasing(h \o t) => Increasing(g) /\ Head(t) \notin ToSet(h)
<1>1. Head(t) \in Nat /\ Tail(t) \in Seq(Nat) /\ Len(t) \in Nat /\ Len(t) > 0 /\ Head(t) = t[1]
    OBVIOUS
<1>2. g \in Seq(Nat) /\ Len(g) = Len(h) + 1
    BY <1>1
<1>3. g \o Tail(t) = h \o t
    BY <1>1, SMTT(30)
<1>4. Tail(t) = <<>> => g = h \o t
  <2>1. g \o <<>> = g
      BY <1>2
  <2> QED
      BY <1>3, <2>1
<1> DEFINE c == h \o t
<1>5. c \in Seq(Nat) /\ Len(c) = Len(h) + Len(t)
    OBVIOUS
<1>6. \A k \in 1 .. Len(g) : k \in 1 .. Len(c) /\ g[k] = c[k]
    BY <1>1, <1>2
<1>7. g[Len(h) + 1] = Head(t) /\ \A k \in 1 .. Len(h) : g[k] = h[k]
    BY <1>1
<1> HIDE DEF c
<1>8. ToSet(g) \subseteq ToSet(c)
  <2>1. \A m : m \in ToSet(g) <=> \E k \in 1 .. Len(g) : g[k] = m
      BY <1>2, SetOf
  <2>2. \A m : m \in ToSet(c) <=> \E k \in 1 .. Len(c) : c[k] = m
      BY <1>5, SetOf
  <2> SUFFICES ASSUME NEW m \in ToSet(g) PROVE m \in ToSet(c)
      OBVIOUS
  <2>3. PICK k \in 1 .. Len(g) : g[k] = m
      BY <2>1
  <2>4. k \in 1 .. Len(c) /\ c[k] = m
      BY <1>6, <2>3
  <2> QED
      BY <2>2, <2>4
<1>9. ToSet(g) = ToSet(h) \cup {Head(t)}
  <2>1. \A k \in 1 .. Len(g) : k \in 1 .. Len(h) \/ k = Len(h) + 1
      BY <1>2
  <2>2. Len(h) + 1 \in 1 .. Len(g) /\ \A k \in 1 .. Len(h) : k \in 1 .. Len(g)
      BY <1>2
  <2>3. \A m : m \in ToSet(g) <=> \E k \in 1 .. Len(g) : g[k] = m
      BY <1>2, SetOf
  <2>4. \A m : m \in ToSet(h) <=> \E k \in 1 .. Len(h) : h[k] = m
      BY SetOf
  <2>5. \A m \in ToSet(h) \cup {Head(t)} : m \in ToSet(g)
      BY <1>7, <2>2, <2>3, <2>4
  <2>6. \A m \in ToSet(g) : m \in ToSet(h) \cup {Head(t)}
      BY <1>7, <2>1, <2>3, <2>4
  <2> QED
      BY <2>5, <2>6
<1>10. ASSUME Increasing(c) PROVE Increasing(g) /\ Head(t) \notin ToSet(h)
  <2>1. DOMAIN c = 1 .. Len(c) /\ DOMAIN g = 1 .. Len(g)
      BY <1>2, <1>5
  <2>2. Increasing(g)
      BY <1>6, <1>10, <2>1 DEF Increasing
  <2>3. \A k \in 1 .. Len(h) : g[k] < g[Len(h) + 1]
    <3>1. Len(h) \in Nat /\ \A k \in 1 .. Len(h) : k \in 1 .. Len(g) /\ Len(h) + 1 \in 1 .. Len(g) /\ k < Len(h) + 1
        BY <1>2
    <3> QED
        BY <2>1, <2>2, <3>1 DEF Increasing
  <2>4. \A k \in 1 .. Len(h) : h[k] # Head(t)
      BY <1>1, <1>7, <2>3
  <2> QED
      BY <2>2, <2>4, SetOf
<1> QED
    BY <1>1, <1>3, <1>4, <1>8, <1>9, <1>10 DEF c

\* What is left of messages is of them.
LEMMA TailSet ==
    ASSUME NEW t \in Seq(Nat), t # <<>>
    PROVE  ToSet(Tail(t)) \subseteq ToSet(t)
<1>1. Tail(t) \in Seq(Nat) /\ Len(Tail(t)) = Len(t) - 1 /\ Len(t) \in Nat
    OBVIOUS
<1> SUFFICES ASSUME NEW m \in ToSet(Tail(t)) PROVE m \in ToSet(t)
    OBVIOUS
<1>2. PICK k \in 1 .. Len(Tail(t)) : Tail(t)[k] = m
    BY <1>1, SetOf
<1>3. k + 1 \in 1 .. Len(t) /\ t[k + 1] = m
    BY <1>1, <1>2
<1> QED
    BY <1>3, SetOf

\* Nothing is under way.
LEMMA NothingPending ==
    ASSUME NEW d, NEW i
    PROVE  /\ Stock(d, {}) = ToSet(d.msgs)
           /\ Stored(d, {}, i) <=> i \in ItemsOf(d)
           /\ Gone(d, {}, i) <=> i \notin ItemsOf(d)
<1> QED
    BY DEF Stock, Stored, Gone

\* What a read has found in the cold tier.
LEMMA FoundIs ==
    ASSUME TierTypes, NEW r, r.s \in Sessions, r.op \in ReadOps, NEW todo, todo = Found(r)
    PROVE  /\ todo.msgs = <<>> \/ todo.msgs = disk[r.s].msgs
           /\ todo.metas \subseteq disk[r.s].metas
           /\ r.op \in {"getPair", "getPairs"} => todo.msgs = <<>> /\ todo.metas = {}
<1>1. /\ \A q : [Empty EXCEPT !.msgs = q].msgs = q /\ [Empty EXCEPT !.msgs = q].metas = {}
      /\ \A m : [Empty EXCEPT !.metas = m].msgs = <<>> /\ [Empty EXCEPT !.metas = m].metas = m
      /\ \A q : [Empty EXCEPT !.pairs = q].msgs = <<>> /\ [Empty EXCEPT !.pairs = q].metas = {}
    BY DEF Empty
<1> QED
    BY <1>1 DEF Found, ReadOps, ColdMessages, ColdMeta, ColdMetas, ColdPair, ColdPairs

\* A read of session s has found todo and begins to copy it.
LEMMA FillingBegins ==
    ASSUME NEW s, SessionInv(s), NEW p \in Procs, NEW todo,
           clock' = clock, hot'[s] = hot[s], disk'[s] = disk[s], PendingIn(s)' = PendingIn(s),
           kept'[s] = kept[s], dropped'[s] = dropped[s], flaws[s] \subseteq flaws'[s],
           \A x \in Procs \ {p} : Todo(x, s)' = Todo(x, s),
           Todo(p, s) = Empty, Todo(p, s)' = todo,
           \A x \in Procs : Trimming(x, s) => Trimming(x, s)',
           todo.msgs = <<>> \/ todo.msgs = disk[s].msgs, todo.metas \subseteq disk[s].metas,
           disk[s] \in SessionRecords,
           Sound(s, Tiers)' =>
              /\ todo.msgs # <<>> => hot[s].msgs = <<>> /\ Refilling(s) = {}
              /\ todo.msgs # <<>> \/ todo.metas # {} => PendingIn(s) = {}
    PROVE  SessionInv(s)'
<1>1. /\ \A x \in Procs \ {p} : FillsMessages(x, s)' = FillsMessages(x, s) /\ Fills(x, s)' = Fills(x, s)
      /\ ~ FillsMessages(p, s)
      /\ FillsMessages(p, s)' <=> todo.msgs # <<>>
      /\ Fills(p, s)' <=> todo.msgs # <<>> \/ todo.metas # {}
    BY EmptyType DEF FillsMessages, Fills
<1>2. ASSUME Sound(s, Tiers)' PROVE (PastAgrees(s) /\ FillsRight(s) /\ KeptAndDropped(s))'
  <2>1. PastAgrees(s) /\ FillsRight(s) /\ KeptAndDropped(s)
      BY <1>2, MoreFlaws DEF SessionInv
  <2>2. PastAgrees(s)'
    <3>1. (\A x \in Procs : ~ FillsMessages(x, s)') => \A x \in Procs : ~ FillsMessages(x, s)
        BY <1>1
    <3> QED
        BY <2>1, <3>1 DEF PastAgrees
  <2>3. FillsRight(s)'
    <3>1. ASSUME todo.msgs # <<>>
          PROVE  hot[s].msgs \o todo.msgs = disk[s].msgs /\ \A x \in Procs : ~ FillsMessages(x, s)
      <4>1. hot[s].msgs = <<>> /\ Refilling(s) = {} /\ todo.msgs = disk[s].msgs
          BY <1>2, <3>1
      <4>2. disk[s].msgs \in Seq(Nat)
          BY DEF SessionRecords
      <4>3. \A x \in Procs : ~ FillsMessages(x, s)
          BY <4>1, EmptyType DEF FillsMessages, Todo
      <4>4. <<>> \o disk[s].msgs = disk[s].msgs
          BY <4>2
      <4> QED
          BY <4>1, <4>3, <4>4
    <3>2. \A x \in Procs \ {p} :
            /\ Fills(x, s)' => PendingIn(s)' = {} /\ Todo(x, s)'.metas \subseteq disk'[s].metas
            /\ FillsMessages(x, s)' => /\ hot'[s].msgs \o Todo(x, s)'.msgs = disk'[s].msgs
                                       /\ \A q \in Procs : FillsMessages(q, s)' => q = x
        BY <1>1, <2>1, <3>1 DEF FillsRight
    <3>3. /\ Fills(p, s)' => PendingIn(s)' = {} /\ Todo(p, s)'.metas \subseteq disk'[s].metas
          /\ FillsMessages(p, s)' => /\ hot'[s].msgs \o Todo(p, s)'.msgs = disk'[s].msgs
                                     /\ \A q \in Procs : FillsMessages(q, s)' => q = p
        BY <1>1, <1>2, <3>1
    <3> QED
        BY <3>2, <3>3 DEF FillsRight
  <2>4. KeptAndDropped(s)'
    <3>1. \A i \in dropped[s] : i \notin ItemsOf(todo)
      <4> SUFFICES ASSUME NEW i \in dropped[s], i \in ItemsOf(todo) PROVE FALSE
          OBVIOUS
      <4>1. Gone(disk[s], PendingIn(s), i)
          BY <2>1 DEF KeptAndDropped
      <4>2. todo.msgs # <<>> \/ todo.metas # {}
          BY DEF ItemsOf, ToSet
      <4>3. i \in ItemsOf(disk[s])
        <5>1. todo.msgs = <<>> => ToSet(todo.msgs) = {}
            BY DEF ToSet
        <5> QED
            BY <5>1 DEF ItemsOf
      <4> QED
          BY <1>2, <4>1, <4>2, <4>3, NothingPending
    <3> QED
        BY <2>1, <3>1 DEF KeptAndDropped
  <2> QED
      BY <2>2, <2>3, <2>4
<1>3. ASSUME Sound(s, Tiers \cup {"swept"})' PROVE HotIsStored(s)'
  <2>1. HotIsStored(s)
      BY <1>3, MoreFlaws DEF SessionInv
  <2> QED
      BY <2>1 DEF HotIsStored
<1>4. ASSUME flaws'[s] = {} PROVE (MissingIsGone(s) /\ Bounded(s))'
  <2>1. MissingIsGone(s) /\ Bounded(s)
      BY <1>4, MoreFlaws DEF SessionInv
  <2>2. MissingIsGone(s)'
      BY <2>1 DEF MissingIsGone
  <2>3. Bounded(s)'
      BY <2>1 DEF Bounded
  <2> QED
      BY <2>2, <2>3
<1> QED
    BY <1>2, <1>3, <1>4 DEF SessionInv

LEMMA SessionsOfReadCold ==
    ASSUME LayeredInv, LayeredTypes, LayeredTypes', Requests', SessionsInv, NEW p \in Procs,
           ReadCold(p)
    PROVE  SessionsInv'
<1>0. PICK s \in Sessions : s = proc[p].s
    BY DEF LayeredTypes, RequestTypes, RequestFits, ReadCold
<1> DEFINE todo == Found(proc[p])
           over == proc[p].op = "count" /\ Len(todo.msgs) > MaxMessages
           r == [proc[p] EXCEPT !.over = over]
           stale == \/ todo.msgs # <<>> /\ hot[s].msgs # <<>>
                    \/ todo.msgs # <<>> /\ Refilling(s) # {}
                    \/ proc[p].op \notin {"getPair", "getPairs"} /\ PendingIn(s) # {}
<1>1. /\ Requests /\ IsRequest(proc[p]) /\ proc[p].pc = "cold" /\ clock \in Nat
      /\ s = proc[p].s /\ proc[p].op \in ReadOps
    BY <1>0 DEF LayeredInv, Requests, ReadCold, LayeredTypes, RequestTypes, RequestFits
<1>2. hot' = hot /\ disk' = disk /\ jobs' = jobs /\ clock' = clock /\ kept' = kept /\ dropped' = dropped
    BY DEF ReadCold, tiers
<1>3. todo \in SessionRecords
    BY <1>0, FoundType, <1>1 DEF LayeredTypes
<1>4. IsRequest(r) /\ r.s = s
    BY <1>1 DEF IsRequest
<1>5. \/ proc' = [proc EXCEPT ![p] = Copied(r, todo)] /\ flaws' = Flawed(s, IF stale THEN {"mixed"} ELSE {})
      \/ proc' = [proc EXCEPT ![p] = Idle] /\ flaws' = flaws
    BY <1>0 DEF ReadCold
<1>6. \A t \in Sessions : flaws[t] \subseteq flaws'[t] /\ ~ Trimming(p, t)
    BY <1>1, <1>5 DEF Flawed, LayeredTypes, HistoryTypes, Trimming
<1>7. CASE proc' = [proc EXCEPT ![p] = Idle]
  <2>1. proc'[p] = Idle /\ \A x \in Procs \ {p} : proc'[x] = proc[x]
      BY <1>1, <1>7, IdleFits, Replaced
  <2> QED
      BY <1>1, <1>2, <1>6, <2>1, IdleFits, RequestLeaves
<1>8. CASE proc' = [proc EXCEPT ![p] = Copied(r, todo)]
          /\ flaws' = Flawed(s, IF stale THEN {"mixed"} ELSE {})
  <2> DEFINE c == Copied(r, todo)
  <2> HIDE DEF r
  <2>1. IsRequest(c) /\ c.pc \in {"refill", "trim", "idle"} /\ (c.pc # "idle" => c.s = s)
        /\ (c.pc = "refill" => c.todo = todo) /\ (c.pc = "refill" <=> todo # Empty)
      BY <1>1, <1>3, <1>4, CopiedType
  <2>2. stale => "mixed" \in flaws'[s]
      BY <1>1, <1>8 DEF Flawed, LayeredTypes, HistoryTypes
  <2> HIDE DEF stale
  <2>3. Sound(s, Tiers)' => ~ stale
      BY <2>2 DEF Sound, Tiers
  <2> HIDE DEF c
  <2>4. proc'[p] = c /\ \A x \in Procs \ {p} : proc'[x] = proc[x]
      BY <1>1, <1>8, <2>1, Replaced DEF c
  <2> SUFFICES ASSUME NEW t \in Sessions PROVE SessionInv(t)'
      BY DEF SessionsInv
  <2>5. Unstarted' = Unstarted
      BY <1>1, <2>1, <2>4, UnstartedSame
  <2>6. PendingIn(t)' = PendingIn(t)
      BY <1>2, <2>5, PendingIs DEF PendingIn
  <2>7. \A x \in Procs \ {p} : Todo(x, t)' = Todo(x, t) /\ Trimming(x, t)' = Trimming(x, t)
      BY <2>4, SameRequest
  <2>8. Todo(p, t) = Empty
      BY <1>1, NothingToDo
  <2>9. CASE t # s
    <3>1. Todo(p, t)' = Empty
        BY <2>1, <2>4, <2>9, NothingToDo
    <3>2. hot'[t] \in SessionRecords
        BY <1>2 DEF LayeredTypes, TierTypes
    <3>3. \A x \in Procs : Todo(x, t)' = Todo(x, t)
        BY <2>7, <2>8, <3>1
    <3>4. \A x \in Procs : Trimming(x, t) => Trimming(x, t)'
        BY <1>6, <2>7
    <3> QED
        BY <1>1, <1>2, <1>6, <2>6, <3>2, <3>3, <3>4, SessionSame DEF SessionsInv
  <2>10. CASE t = s
    <3>1. Todo(p, s)' = todo
      <4>1. CASE todo = Empty
          BY <2>1, <2>4, <4>1, NothingToDo
      <4>2. CASE todo # Empty
          BY <2>1, <2>4, <4>2 DEF Todo, Refilling
      <4> QED
          BY <4>1, <4>2
    <3>2. /\ todo.msgs = <<>> \/ todo.msgs = disk[s].msgs
          /\ todo.metas \subseteq disk[s].metas
          /\ proc[p].op \in {"getPair", "getPairs"} => todo.msgs = <<>> /\ todo.metas = {}
      <4>1. TierTypes
          BY DEF LayeredTypes
      <4> QED
          BY <1>1, <4>1, FoundIs
    <3>3. Sound(s, Tiers)' =>
              /\ todo.msgs # <<>> => hot[s].msgs = <<>> /\ Refilling(s) = {}
              /\ todo.msgs # <<>> \/ todo.metas # {} => PendingIn(s) = {}
        BY <2>3, <3>2 DEF stale
    <3>4. hot[s] \in SessionRecords /\ disk[s] \in SessionRecords
        BY <1>1 DEF LayeredTypes, TierTypes
    <3>5. \A x \in Procs : Trimming(x, s) => Trimming(x, s)'
        BY <1>1, <1>6, <2>7, <2>10
    <3>6. SessionInv(s) /\ flaws[s] \subseteq flaws'[s]
        BY <1>1, <1>6 DEF SessionsInv
    <3> HIDE DEF todo
    <3>7. SessionInv(s)'
        BY <1>2, <2>6, <2>7, <2>8, <2>10, <3>1, <3>2, <3>3, <3>4, <3>5, <3>6, FillingBegins
    <3> QED
        BY <2>10, <3>7
  <2> QED
      BY <2>9, <2>10
<1> QED
    BY <1>5, <1>7, <1>8

\* The next message of a read is put after those of the hot tier.
LEMMA MessageFilled ==
    ASSUME NEW s, SessionInv(s), NEW p \in Procs, Todo(p, s) \in SessionRecords, Todo(p, s).msgs # <<>>,
           clock' = clock, disk'[s] = disk[s], PendingIn(s)' = PendingIn(s),
           hot[s] \in SessionRecords, hot'[s] \in SessionRecords,
           hot'[s].msgs = Append(hot[s].msgs, Head(Todo(p, s).msgs)), hot'[s].metas = hot[s].metas,
           kept'[s] = kept[s], dropped'[s] = dropped[s], flaws'[s] = flaws[s],
           \A x \in Procs \ {p} : Todo(x, s)' = Todo(x, s),
           Todo(p, s)'.msgs = Tail(Todo(p, s).msgs), Todo(p, s)'.metas = Todo(p, s).metas
    PROVE  SessionInv(s)'
<1> DEFINE h == hot[s].msgs
           t == Todo(p, s).msgs
           g == Append(h, Head(t))
           d == disk[s]
<1>1. h \in Seq(Nat) /\ t \in Seq(Nat) /\ t # <<>>
    BY DEF SessionRecords
<1> HIDE DEF h, t, g, d
<1>2. /\ Tail(t) \in Seq(Nat) /\ g \o Tail(t) = h \o t
      /\ Tail(t) = <<>> => g = h \o t
      /\ Head(t) \in ToSet(h \o t) /\ ToSet(g) \subseteq ToSet(h \o t)
      /\ ToSet(g) = ToSet(h) \cup {Head(t)}
      /\ Increasing(h \o t) => Increasing(g) /\ Head(t) \notin ToSet(h)
    BY <1>1, PrefixGrows DEF g
<1>3. /\ \A x \in Procs \ {p} : FillsMessages(x, s)' = FillsMessages(x, s) /\ Fills(x, s)' = Fills(x, s)
      /\ FillsMessages(p, s) /\ Fills(p, s)
      /\ FillsMessages(p, s)' <=> Tail(t) # <<>>
    BY DEF FillsMessages, Fills, t
<1>4. hot'[s].msgs = g
    BY DEF g, h, t
<1>5. ASSUME Sound(s, Tiers)'
      PROVE  /\ PastAgrees(s) /\ FillsRight(s) /\ KeptAndDropped(s)
             /\ PendingIn(s) = {} /\ h \o t = d.msgs /\ Todo(p, s).metas \subseteq d.metas
             /\ \A x \in Procs \ {p} : ~ FillsMessages(x, s)
             /\ Queue(d, {}, clock) /\ Queue(hot[s], {}, clock)
  <2>1. PastAgrees(s) /\ FillsRight(s) /\ KeptAndDropped(s)
      BY <1>5, MoreFlaws DEF SessionInv
  <2>2. /\ PendingIn(s) = {} /\ h \o t = d.msgs /\ Todo(p, s).metas \subseteq d.metas
        /\ \A x \in Procs \ {p} : ~ FillsMessages(x, s)
      BY <1>3, <2>1 DEF FillsRight, h, t, d
  <2> QED
      BY <2>1, <2>2 DEF PastAgrees, d
<1>6. ASSUME Sound(s, Tiers)' PROVE (PastAgrees(s) /\ FillsRight(s) /\ KeptAndDropped(s))'
  <2>1. Increasing(g) /\ ToSet(g) \subseteq ToSet(d.msgs)
      BY <1>2, <1>5, <1>6 DEF Queue
  <2>2. PastAgrees(s)'
    <3>1. Queue(hot'[s], {}, clock)
        BY <1>4, <1>5, <1>6, <2>1 DEF Queue
    <3>2. StockAbove(hot'[s], d, {})
        BY <1>4, <2>1, NothingPending DEF StockAbove
    <3>3. Tail(t) = <<>> => HotAbove(hot'[s], d, {})
        BY <1>2, <1>4, <1>5, <1>6, NothingPending DEF HotAbove
    <3>4. (\A x \in Procs : ~ FillsMessages(x, s)') => Tail(t) = <<>>
        BY <1>3
    <3> QED
        BY <1>5, <1>6, <3>1, <3>2, <3>3, <3>4 DEF PastAgrees, d
  <2>3. FillsRight(s)'
    <3>1. \A x \in Procs \ {p} : ~ FillsMessages(x, s)'
        BY <1>3, <1>5, <1>6
    <3>2. \A x \in Procs \ {p} : Fills(x, s)' => Todo(x, s)'.metas \subseteq disk'[s].metas
        BY <1>3, <1>5, <1>6 DEF FillsRight
    <3>3. Todo(p, s)'.metas \subseteq disk'[s].metas
        BY <1>5, <1>6 DEF d
    <3>4. hot'[s].msgs \o Todo(p, s)'.msgs = disk'[s].msgs
        BY <1>2, <1>4, <1>5, <1>6 DEF d, t
    <3>5. PendingIn(s)' = {}
        BY <1>5, <1>6
    <3> QED
        BY <3>1, <3>2, <3>3, <3>4, <3>5 DEF FillsRight
  <2>4. KeptAndDropped(s)'
    <3>1. \A i \in dropped[s] : i \notin ItemsOf(d)
      <4>1. \A i \in dropped[s] : Gone(d, {}, i)
          BY <1>5, <1>6 DEF KeptAndDropped, d
      <4> QED
          BY <4>1, NothingPending
    <3>2. \A i \in dropped[s] : i \notin ItemsOf(hot'[s])
        BY <1>4, <1>5, <1>6, <2>1, <3>1 DEF ItemsOf, KeptAndDropped
    <3>3. \A i \in dropped[s], x \in Procs : i \notin ItemsOf(Todo(x, s)')
      <4> SUFFICES ASSUME NEW i \in dropped[s], NEW x \in Procs PROVE i \notin ItemsOf(Todo(x, s)')
          OBVIOUS
      <4>1. i \notin ItemsOf(Todo(x, s))
          BY <1>5, <1>6 DEF KeptAndDropped
      <4>2. CASE x # p
          BY <4>1, <4>2
      <4>3. CASE x = p
        <5>1. ToSet(Tail(t)) \subseteq ToSet(t)
            BY <1>1, TailSet
        <5> QED
            BY <4>1, <4>3, <5>1 DEF ItemsOf, t
      <4> QED
          BY <4>2, <4>3
    <3> QED
        BY <1>5, <1>6, <3>2, <3>3 DEF KeptAndDropped
  <2> QED
      BY <2>2, <2>3, <2>4
<1>7. ASSUME Sound(s, Tiers \cup {"swept"})' PROVE HotIsStored(s)'
  <2>1. HotIsStored(s) /\ Sound(s, Tiers)'
      BY <1>7, MoreFlaws DEF SessionInv, Sound
  <2>2. \A i \in ItemsOf(hot'[s]) : i = Head(t) \/ i \in ItemsOf(hot[s])
      BY <1>2, <1>4 DEF ItemsOf, h
  <2>3. Stored(d, {}, Head(t))
      BY <1>2, <1>5, <2>1, NothingPending DEF ItemsOf
  <2> QED
      BY <1>5, <2>1, <2>2, <2>3 DEF HotIsStored, d
<1>8. flaws'[s] # {}
  <2> SUFFICES ASSUME flaws'[s] = {} PROVE FALSE
      OBVIOUS
  <2>1. MissingIsGone(s) /\ Sound(s, Tiers)'
      BY DEF SessionInv, Sound
  <2>2. Head(t) \in Stock(d, {}) /\ Head(t) \in ItemsOf(d) /\ Head(t) \notin ToSet(h)
      BY <1>2, <1>5, <2>1, NothingPending DEF ItemsOf, Queue
  <2> QED
      BY <1>5, <2>1, <2>2, NothingPending DEF MissingIsGone, d, h
<1> QED
    BY <1>6, <1>7, <1>8 DEF SessionInv

\* A maskMeta of a read is put into the hot tier.
LEMMA MetaFilled ==
    ASSUME NEW s, SessionInv(s), NEW p \in Procs, NEW i \in Todo(p, s).metas,
           clock' = clock, disk'[s] = disk[s], PendingIn(s)' = PendingIn(s),
           hot'[s] \in SessionRecords, hot'[s].msgs = hot[s].msgs, hot'[s].metas = hot[s].metas \cup {i},
           kept'[s] = kept[s], dropped'[s] = dropped[s], flaws'[s] = flaws[s],
           \A x \in Procs : /\ Todo(x, s)'.msgs = Todo(x, s).msgs
                            /\ Todo(x, s)'.metas \subseteq Todo(x, s).metas,
           \A x \in Procs : Trimming(x, s) => Trimming(x, s)'
    PROVE  SessionInv(s)'
<1>1. /\ \A x \in Procs : FillsMessages(x, s)' = FillsMessages(x, s) /\ (Fills(x, s)' => Fills(x, s))
      /\ Fills(p, s)
    BY DEF FillsMessages, Fills
<1>2. ItemsOf(hot'[s]) = ItemsOf(hot[s]) \cup {i}
    BY DEF ItemsOf
<1>3. ASSUME Sound(s, Tiers)'
      PROVE  /\ PastAgrees(s) /\ FillsRight(s) /\ KeptAndDropped(s)
             /\ PendingIn(s) = {} /\ i \in ItemsOf(disk[s])
  <2>1. PastAgrees(s) /\ FillsRight(s) /\ KeptAndDropped(s)
      BY <1>3, MoreFlaws DEF SessionInv
  <2> QED
      BY <1>1, <2>1 DEF FillsRight, ItemsOf
<1>4. ASSUME Sound(s, Tiers)' PROVE (PastAgrees(s) /\ FillsRight(s) /\ KeptAndDropped(s))'
  <2>1. PastAgrees(s)'
    <3>1. Queue(hot'[s], {}, clock)
        BY <1>3, <1>4 DEF PastAgrees, Queue
    <3>2. StockAbove(hot'[s], disk[s], PendingIn(s))
        BY <1>3, <1>4 DEF PastAgrees, StockAbove
    <3>3. (\A x \in Procs : ~ FillsMessages(x, s)) => HotAbove(hot'[s], disk[s], PendingIn(s))
        BY <1>3, <1>4 DEF PastAgrees, HotAbove
    <3> QED
        BY <1>1, <1>3, <1>4, <3>1, <3>2, <3>3 DEF PastAgrees
  <2>2. FillsRight(s)'
    <3>1. \A x \in Procs : Fills(x, s)' => Todo(x, s)'.metas \subseteq disk[s].metas
        BY <1>1, <1>3, <1>4 DEF FillsRight
    <3>2. \A x \in Procs : FillsMessages(x, s)' =>
              /\ hot'[s].msgs \o Todo(x, s)'.msgs = disk'[s].msgs
              /\ \A q \in Procs : FillsMessages(q, s)' => q = x
        BY <1>1, <1>3, <1>4 DEF FillsRight
    <3> QED
        BY <1>3, <1>4, <3>1, <3>2 DEF FillsRight
  <2>3. KeptAndDropped(s)'
    <3>1. i \notin dropped[s]
        BY <1>3, <1>4 DEF KeptAndDropped, ItemsOf
    <3>2. \A k \in dropped[s], x \in Procs : k \notin ItemsOf(Todo(x, s)')
        BY <1>3, <1>4 DEF KeptAndDropped, ItemsOf
    <3> QED
        BY <1>2, <1>3, <1>4, <3>1, <3>2 DEF KeptAndDropped
  <2> QED
      BY <2>1, <2>2, <2>3
<1>5. ASSUME Sound(s, Tiers \cup {"swept"})' PROVE HotIsStored(s)'
  <2>1. HotIsStored(s) /\ Sound(s, Tiers)'
      BY <1>5, MoreFlaws DEF SessionInv, Sound
  <2>2. Stored(disk[s], PendingIn(s), i)
      BY <1>3, <2>1, NothingPending
  <2> QED
      BY <1>2, <2>1, <2>2 DEF HotIsStored
<1>6. ASSUME flaws'[s] = {} PROVE (MissingIsGone(s) /\ Bounded(s))'
  <2>1. MissingIsGone(s) /\ Bounded(s)
      BY <1>6, MoreFlaws DEF SessionInv
  <2>2. MissingIsGone(s)'
      BY <2>1 DEF MissingIsGone
  <2>3. Bounded(s)'
      BY <2>1 DEF Bounded
  <2> QED
      BY <2>2, <2>3
<1> QED
    BY <1>4, <1>5, <1>6 DEF SessionInv

LEMMA SessionsOfRefill ==
    ASSUME LayeredInv, LayeredTypes, LayeredTypes', Requests', SessionsInv, NEW p \in Procs,
           Refill(p)
    PROVE  SessionsInv'
<1>fills. PICK s \in Sessions : \E todo : s = proc[p].s /\ todo = proc[p].todo
    BY DEF LayeredTypes, RequestTypes, RequestFits, Refill
<1>0. PICK todo : s = proc[p].s /\ todo = proc[p].todo
    BY <1>fills
<1> DEFINE Left(d) == proc' = [proc EXCEPT ![p] = Copied(proc[p], d)]
<1>1. /\ Requests /\ IsRequest(proc[p]) /\ proc[p].pc = "refill" /\ clock \in Nat
      /\ todo \in SessionRecords /\ Todo(p, s) = todo
      /\ hot[s] \in SessionRecords /\ hot'[s] \in SessionRecords /\ DOMAIN hot = Sessions
    BY <1>0 DEF LayeredInv, Requests, Refill, LayeredTypes, TierTypes, RequestTypes, RequestFits,
                Todo, Refilling
<1>2. disk' = disk /\ jobs' = jobs /\ clock' = clock /\ kept' = kept /\ dropped' = dropped /\ flaws' = flaws
    BY DEF Refill, history
<1>3. ASSUME NEW d \in SessionRecords, Left(d)
      PROVE  /\ Todo(p, s)' = d
             /\ \A t \in Sessions : PendingIn(t)' = PendingIn(t)
             /\ \A x \in Procs \ {p}, t \in Sessions :
                   Todo(x, t)' = Todo(x, t) /\ Trimming(x, t)' = Trimming(x, t)
             /\ \A x \in Procs, t \in Sessions : Trimming(x, t) => Trimming(x, t)'
             /\ \A t \in Sessions \ {s} : Todo(p, t)' = Todo(p, t)
  <2> DEFINE c == Copied(proc[p], d)
  <2>1. IsRequest(c) /\ c.pc \in {"refill", "trim", "idle"} /\ (c.pc # "idle" => c.s = s)
        /\ (c.pc = "refill" => c.todo = d) /\ (c.pc = "refill" <=> d # Empty)
      BY <1>0, <1>1, CopiedType
  <2> HIDE DEF c
  <2>2. proc'[p] = c /\ \A x \in Procs \ {p} : proc'[x] = proc[x]
      BY <1>1, <1>3, <2>1, Replaced DEF c
  <2>3. Unstarted' = Unstarted
      BY <1>1, <2>1, <2>2, UnstartedSame
  <2>4. \A t \in Sessions : PendingIn(t)' = PendingIn(t)
      BY <1>2, <2>3, PendingIs DEF PendingIn
  <2>5. Todo(p, s)' = d
    <3>1. CASE d = Empty
        BY <2>1, <2>2, <3>1, NothingToDo
    <3>2. CASE d # Empty
        BY <2>1, <2>2, <3>2 DEF Todo, Refilling
    <3> QED
        BY <3>1, <3>2
  <2>6. \A x \in Procs \ {p}, t \in Sessions : Todo(x, t)' = Todo(x, t) /\ Trimming(x, t)' = Trimming(x, t)
      BY <2>2, SameRequest
  <2>7. \A t \in Sessions : ~ Trimming(p, t)
      BY <1>1 DEF Trimming
  <2>8. \A t \in Sessions \ {s} : Todo(p, t)' = Empty /\ Todo(p, t) = Empty
      BY <1>0, <2>1, <2>2, NothingToDo
  <2> QED
      BY <2>4, <2>5, <2>6, <2>7, <2>8
<1>4. ASSUME NEW d \in SessionRecords, Left(d), NEW t \in Sessions \ {s}, hot'[t] = hot[t]
      PROVE  SessionInv(t)'
  <2> HIDE DEF Left
  <2>1. hot'[t] \in SessionRecords
      BY <1>4 DEF LayeredTypes, TierTypes
  <2>2. /\ PendingIn(t)' = PendingIn(t)
        /\ \A x \in Procs : Todo(x, t)' = Todo(x, t)
        /\ \A x \in Procs : Trimming(x, t) => Trimming(x, t)'
      BY <1>3, <1>4
  <2> QED
      BY <1>1, <1>2, <1>4, <2>1, <2>2, SessionSame DEF SessionsInv
<1>5. CASE todo.msgs # <<>> /\ PutMessage(p, Head(todo.msgs)) /\ Left([todo EXCEPT !.msgs = Tail(@)])
  <2> DEFINE d == [todo EXCEPT !.msgs = Tail(@)]
  <2>1. d \in SessionRecords /\ d.msgs = Tail(todo.msgs) /\ d.metas = todo.metas
    <3>1. Tail(todo.msgs) \in Seq(Nat)
        BY <1>1, <1>5 DEF SessionRecords
    <3> QED
        BY <1>1, <3>1 DEF SessionRecords
  <2>2. /\ hot'[s].msgs = Append(hot[s].msgs, Head(todo.msgs)) /\ hot'[s].metas = hot[s].metas
        /\ \A t \in Sessions \ {s} : hot'[t] = hot[t]
    <3>1. hot' = [hot EXCEPT ![s] = WithMessage(@, Head(todo.msgs))]
        BY <1>0, <1>5 DEF PutMessage
    <3>2. hot'[s] = [hot[s] EXCEPT !.msgs = Append(@, Head(todo.msgs))]
        BY <1>1, <3>1 DEF WithMessage
    <3> QED
        BY <1>1, <3>1, <3>2 DEF SessionRecords
  <2> HIDE DEF d
  <2>3. Left(d)
      BY <1>5 DEF d
  <2> HIDE DEF Left
  <2>4. SessionInv(s)'
      BY <1>1, <1>2, <1>3, <1>5, <2>1, <2>2, <2>3, MessageFilled DEF SessionsInv
  <2> QED
      BY <1>4, <2>1, <2>2, <2>3, <2>4 DEF SessionsInv
<1>6. ASSUME todo.msgs = <<>>, NEW i \in todo.metas, PutMeta(p, i), Left([todo EXCEPT !.metas = @ \ {i}])
      PROVE  SessionsInv'
  <2> DEFINE d == [todo EXCEPT !.metas = @ \ {i}]
  <2>1. d \in SessionRecords /\ d.msgs = todo.msgs /\ d.metas \subseteq todo.metas
      BY <1>1 DEF SessionRecords
  <2>2. /\ hot'[s].msgs = hot[s].msgs /\ hot'[s].metas = hot[s].metas \cup {i}
        /\ \A t \in Sessions \ {s} : hot'[t] = hot[t]
    <3>1. hot' = [hot EXCEPT ![s] = WithMeta(@, i)]
        BY <1>0, <1>6 DEF PutMeta
    <3>2. hot'[s] = [hot[s] EXCEPT !.metas = @ \cup {i}]
        BY <1>1, <3>1 DEF WithMeta
    <3> QED
        BY <1>1, <3>1, <3>2 DEF SessionRecords
  <2> HIDE DEF d
  <2>3. Left(d)
      BY <1>6 DEF d
  <2> HIDE DEF Left
  <2>4. \A x \in Procs : /\ Todo(x, s)'.msgs = Todo(x, s).msgs
                         /\ Todo(x, s)'.metas \subseteq Todo(x, s).metas
      BY <1>1, <1>3, <2>1, <2>3
  <2>5. \A x \in Procs : Trimming(x, s) => Trimming(x, s)'
      BY <1>3, <2>1, <2>3
  <2>6. SessionInv(s)'
      BY <1>1, <1>2, <1>3, <1>6, <2>1, <2>2, <2>3, <2>4, <2>5, MetaFilled DEF SessionsInv
  <2> QED
      BY <1>4, <2>1, <2>2, <2>3, <2>6 DEF SessionsInv
<1>7. ASSUME NEW q \in todo.pairs, PutPair(p, q), Left([todo EXCEPT !.pairs = @ \ {q}])
      PROVE  SessionsInv'
  <2> DEFINE d == [todo EXCEPT !.pairs = @ \ {q}]
  <2>1. d \in SessionRecords /\ d.msgs = todo.msgs /\ d.metas = todo.metas
      BY <1>1 DEF SessionRecords
  <2>2. /\ hot'[s].msgs = hot[s].msgs /\ hot'[s].metas = hot[s].metas
        /\ \A t \in Sessions \ {s} : hot'[t] = hot[t]
    <3>1. hot' = [hot EXCEPT ![s] = WithPair(@, q)]
        BY <1>0, <1>7 DEF PutPair
    <3>2. hot'[s] = [hot[s] EXCEPT !.pairs = @ \cup {q}]
        BY <1>1, <3>1 DEF WithPair
    <3> QED
        BY <1>1, <3>1, <3>2 DEF SessionRecords
  <2> HIDE DEF d
  <2>3. Left(d)
      BY <1>7 DEF d
  <2> HIDE DEF Left
  <2>4. \A x \in Procs : /\ Todo(x, s)'.msgs = Todo(x, s).msgs
                         /\ Todo(x, s)'.metas = Todo(x, s).metas
      BY <1>1, <1>3, <2>1, <2>3
  <2>5. \A x \in Procs : Trimming(x, s) => Trimming(x, s)'
      BY <1>3, <2>1, <2>3
  <2>6. PendingIn(s)' = PendingIn(s)
      BY <1>3, <2>1, <2>3
  <2>7. SessionInv(s)'
      BY <1>1, <1>2, <2>2, <2>4, <2>5, <2>6, SessionSame DEF SessionsInv
  <2> QED
      BY <1>4, <2>1, <2>2, <2>3, <2>7 DEF SessionsInv
<1> QED
  <2>1. \/ todo.msgs # <<>> /\ PutMessage(p, Head(todo.msgs)) /\ Left([todo EXCEPT !.msgs = Tail(@)])
        \/ /\ todo.msgs = <<>>
           /\ \E i \in todo.metas : PutMeta(p, i) /\ Left([todo EXCEPT !.metas = @ \ {i}])
        \/ \E q \in todo.pairs : PutPair(p, q) /\ Left([todo EXCEPT !.pairs = @ \ {q}])
      BY <1>0, <1>1 DEF Refill, Requests
  <2> HIDE DEF Left
  <2> QED
      BY <1>5, <1>6, <1>7, <2>1

----------------------------------------------------------------------------
(* Clearing, expiry, closing and restarts.                                 *)

LEMMA SessionsOfClearAll ==
    ASSUME LayeredInv, LayeredTypes, LayeredTypes', Requests', SessionsInv, NEW p \in Procs,
           DeleteAllPlaceholders(p)
    PROVE  SessionsInv'
<1> DEFINE r == [Idle EXCEPT !.pc = "lockAll"]
<1>1. Requests /\ clock \in Nat /\ clock' \in Nat /\ clock <= clock' /\ proc[p].pc = "idle"
    BY DEF LayeredInv, Requests, DeleteAllPlaceholders, Starting
<1>2. hot' = [s \in Sessions |-> Empty] /\ disk' = disk /\ jobs' = jobs /\ kept' = kept /\ dropped' = dropped
    BY DEF DeleteAllPlaceholders
<1>3. IsRequest(r) /\ r.pc = "lockAll"
    BY DEF Idle, IsRequest
<1>4. proc' = [proc EXCEPT ![p] = r]
    BY DEF DeleteAllPlaceholders
<1> HIDE DEF r
<1>5. proc'[p] = r /\ \A x \in Procs \ {p} : proc'[x] = proc[x]
    BY <1>1, <1>3, <1>4, Replaced
<1>6. Unstarted' = Unstarted
    BY <1>1, <1>3, <1>5, UnstartedSame
<1> SUFFICES ASSUME NEW s \in Sessions PROVE SessionInv(s)'
    BY DEF SessionsInv
<1>7. PendingIn(s)' = PendingIn(s)
    BY <1>2, <1>6, PendingIs DEF PendingIn
<1>8. flaws'[s] = flaws[s] \cup {"reborn"} \cup IF Refilling(s) = {} THEN {} ELSE {"mixed"}
    BY DEF DeleteAllPlaceholders
<1>9. Sound(s, Tiers)' => \A x \in Procs : Todo(x, s)' = Empty
  <2>1. Sound(s, Tiers)' => Refilling(s) = {}
      BY <1>8 DEF Sound, Tiers
  <2>2. Todo(p, s)' = Empty
      BY <1>3, <1>5, NothingToDo
  <2>3. \A x \in Procs \ {p} : Todo(x, s)' = Todo(x, s)
      BY <1>5, SameRequest
  <2>4. Refilling(s) = {} => \A x \in Procs : Todo(x, s) = Empty
      BY DEF Todo
  <2> QED
      BY <2>1, <2>2, <2>3, <2>4
<1>10. hot'[s] = Empty /\ flaws[s] \subseteq flaws'[s] /\ "reborn" \in flaws'[s]
    BY <1>2, <1>8
<1> QED
    BY <1>1, <1>2, <1>7, <1>9, <1>10, HotDropped DEF SessionsInv

\* Nobody is at a session that expires.
LEMMA QuietSession ==
    ASSUME NEW s \in Sessions, Quiet(s), proc' = proc, jobs' = jobs
    PROVE  /\ \A t : PendingIn(t)' = PendingIn(t)
           /\ PendingIn(s) = {}
           /\ \A x \in Procs : Todo(x, s) = Empty /\ ~ Trimming(x, s)
           /\ \A x \in Procs : \A t : Todo(x, t)' = Todo(x, t) /\ Trimming(x, t)' = Trimming(x, t)
<1>1. Unstarted' = Unstarted
    BY DEF Unstarted, JobOf
<1>2. \A t : PendingIn(t)' = PendingIn(t)
    BY <1>1, PendingIs DEF PendingIn
<1>3. \A x \in Procs : \A t : Todo(x, t)' = Todo(x, t) /\ Trimming(x, t)' = Trimming(x, t)
    BY SameRequest
<1>4. \A x \in Procs : Todo(x, s) = Empty /\ ~ Trimming(x, s)
    BY NothingToDo DEF Quiet, Trimming
<1> QED
    BY <1>2, <1>3, <1>4 DEF Quiet

LEMMA SessionsOfCleanHot ==
    ASSUME LayeredInv, LayeredTypes, LayeredTypes', SessionsInv, NEW s \in Sessions, CleanHot(s)
    PROVE  SessionsInv'
<1>1. /\ Quiet(s) /\ proc' = proc /\ jobs' = jobs /\ clock' = clock /\ clock \in Nat
      /\ disk' = disk /\ kept' = kept /\ dropped' = dropped
    BY DEF CleanHot, LayeredInv, Requests
<1>2. /\ hot'[s] = Empty /\ flaws'[s] = flaws[s] \cup {"reborn"}
      /\ \A t \in Sessions \ {s} : hot'[t] = hot[t] /\ flaws'[t] = flaws[t]
    BY DEF CleanHot, Flawed, LayeredTypes, TierTypes, HistoryTypes
<1>3. /\ \A t : PendingIn(t)' = PendingIn(t)
      /\ \A x \in Procs : Todo(x, s) = Empty
      /\ \A x \in Procs : \A t : Todo(x, t)' = Todo(x, t) /\ Trimming(x, t)' = Trimming(x, t)
    BY <1>1, QuietSession
<1>4. SessionInv(s)'
    BY <1>1, <1>2, <1>3, HotDropped DEF SessionsInv
<1>5. ASSUME NEW t \in Sessions \ {s} PROVE SessionInv(t)'
  <2>1. hot'[t] \in SessionRecords
      BY DEF LayeredTypes, TierTypes
  <2> QED
      BY <1>1, <1>2, <1>3, <2>1, SessionSame DEF SessionsInv
<1> QED
    BY <1>4, <1>5 DEF SessionsInv

LEMMA SessionsOfCleanCold ==
    ASSUME LayeredInv, LayeredTypes, LayeredTypes', SessionsInv, NEW s \in Sessions, CleanCold(s)
    PROVE  SessionsInv'
<1>1. /\ Quiet(s) /\ proc' = proc /\ jobs' = jobs /\ clock' = clock /\ clock \in Nat
      /\ hot' = hot /\ dropped' = dropped
    BY DEF CleanCold, LayeredInv, Requests
<1>2. /\ disk'[s] = Empty /\ kept'[s] = {}
      /\ flaws'[s] = flaws[s] \cup IF hot[s] = Empty THEN {} ELSE {"swept"}
      /\ \A t \in Sessions \ {s} : disk'[t] = disk[t] /\ kept'[t] = kept[t] /\ flaws'[t] = flaws[t]
    BY DEF CleanCold, Flawed, LayeredTypes, TierTypes, HistoryTypes
<1>3. /\ \A t : PendingIn(t)' = PendingIn(t)
      /\ PendingIn(s) = {}
      /\ \A x \in Procs : Todo(x, s) = Empty /\ ~ Trimming(x, s)
      /\ \A x \in Procs : \A t : Todo(x, t)' = Todo(x, t) /\ Trimming(x, t)' = Trimming(x, t)
    BY <1>1, QuietSession
<1>4. ToSet(Empty.msgs) = {} /\ ItemsOf(Empty) = {} /\ Increasing(Empty.msgs) /\ Empty \in SessionRecords
    BY EmptyType DEF ToSet, ItemsOf, Increasing
<1>5. SessionInv(s)'
  <2>1. flaws[s] \subseteq flaws'[s]
      BY <1>2
  <2>2. ASSUME Sound(s, Tiers)' PROVE (PastAgrees(s) /\ FillsRight(s) /\ KeptAndDropped(s))'
    <3>1. PastAgrees(s) /\ FillsRight(s) /\ KeptAndDropped(s)
        BY <2>1, <2>2, MoreFlaws DEF SessionsInv, SessionInv
    <3>2. Queue(Empty, {}, clock) /\ Stock(Empty, {}) = {}
        BY <1>1, <1>4, NothingPending DEF Queue
    <3>3. PastAgrees(s)'
        BY <1>1, <1>2, <1>3, <3>1, <3>2 DEF PastAgrees, StockAbove, HotAbove
    <3>4. FillsRight(s)'
        BY <1>3, EmptyType DEF FillsRight, Fills, FillsMessages
    <3>5. KeptAndDropped(s)'
      <4>1. \A i : Gone(Empty, {}, i)
          BY <1>4, NothingPending
      <4> QED
          BY <1>1, <1>2, <1>3, <3>1, <4>1 DEF KeptAndDropped
    <3> QED
        BY <3>3, <3>4, <3>5
  <2>3. ASSUME Sound(s, Tiers \cup {"swept"})' PROVE HotIsStored(s)'
    <3>1. hot'[s] = Empty
        BY <1>1, <1>2, <2>3 DEF Sound
    <3> QED
        BY <1>4, <3>1 DEF HotIsStored
  <2>4. ASSUME flaws'[s] = {} PROVE (MissingIsGone(s) /\ Bounded(s))'
    <3>1. Bounded(s)
        BY <2>1, <2>4, MoreFlaws DEF SessionsInv, SessionInv
    <3>2. Bounded(s)'
        BY <1>1, <1>3, <3>1 DEF Bounded
    <3>3. Stock(disk'[s], PendingIn(s)') = {}
        BY <1>2, <1>3, <1>4, NothingPending
    <3>4. MissingIsGone(s)'
        BY <3>3 DEF MissingIsGone
    <3> QED
        BY <3>2, <3>4
  <2> QED
      BY <2>2, <2>3, <2>4 DEF SessionInv
<1>6. ASSUME NEW t \in Sessions \ {s} PROVE SessionInv(t)'
  <2>1. hot'[t] \in SessionRecords
      BY DEF LayeredTypes, TierTypes
  <2> QED
      BY <1>1, <1>2, <1>3, <2>1, SessionSame DEF SessionsInv
<1> QED
    BY <1>5, <1>6 DEF SessionsInv

LEMMA SessionsOfRestart ==
    ASSUME LayeredInv, LayeredTypes, LayeredTypes', SessionsInv, Restart
    PROVE  SessionsInv'
<1> SUFFICES ASSUME NEW s \in Sessions PROVE SessionInv(s)'
    BY DEF SessionsInv
<1>1. /\ hot'[s] = Empty /\ jobs' = {} /\ disk' = disk /\ clock' = clock /\ clock \in Nat
      /\ kept' = kept /\ dropped' = dropped
      /\ flaws'[s] = flaws[s] \cup {"reborn"} \cup IF PendingIn(s) = {} THEN {} ELSE {"failed"}
    BY DEF Restart, LayeredInv, Requests
<1>2. \A p \in Procs : proc'[p] = Idle
    BY DEF Restart
<1>3. Unstarted' = {}
    BY <1>2, IdleFits DEF Unstarted
<1>4. PendingIn(s)' = {}
    BY <1>1, <1>3, PendingIs DEF PendingIn
<1>5. \A p \in Procs : Todo(p, s)' = Empty
    BY <1>2, IdleFits, NothingToDo
<1>6. Sound(s, Tiers)' => PendingIn(s) = {}
    BY <1>1 DEF Sound, Tiers
<1> QED
    BY <1>1, <1>4, <1>5, <1>6, HotDropped DEF SessionsInv

\* What changes no message and no maskMeta, and is not part of a request.
LEMMA SessionsOfNoRequest ==
    ASSUME LayeredInv, LayeredTypes, LayeredTypes', SessionsInv,
           \/ \E p \in Procs, s \in Sessions : DeletePlaceholders(p, s)
           \/ Close \/ Closed \/ UNCHANGED layeredVars
    PROVE  SessionsInv'
<1>1. proc' = proc /\ jobs' = jobs /\ clock' = clock /\ disk' = disk /\ UNCHANGED history
    BY DEF DeletePlaceholders, Close, Closed, layeredVars, tiers, history
<1>2. \A t \in Sessions : hot'[t].msgs = hot[t].msgs /\ hot'[t].metas = hot[t].metas
  <2>1. ASSUME NEW p, NEW s \in Sessions, DeletePlaceholders(p, s), NEW t \in Sessions
        PROVE  hot'[t].msgs = hot[t].msgs /\ hot'[t].metas = hot[t].metas
    <3>1. hot[s] \in SessionRecords /\ DOMAIN hot = Sessions
        BY DEF LayeredTypes, TierTypes
    <3>2. WithoutPairs(hot[s]).msgs = hot[s].msgs /\ WithoutPairs(hot[s]).metas = hot[s].metas
        BY <3>1 DEF WithoutPairs, SessionRecords
    <3> QED
        BY <2>1, <3>1, <3>2 DEF DeletePlaceholders
  <2>2. CASE Close \/ Closed \/ UNCHANGED layeredVars
      BY <2>2 DEF Close, Closed, layeredVars, tiers
  <2> QED
      BY <2>1, <2>2
<1>3. Unstarted' = Unstarted
    BY <1>1 DEF Unstarted, JobOf
<1>4. \A t \in Sessions : PendingIn(t)' = PendingIn(t)
    BY <1>1, <1>3, PendingIs DEF PendingIn
<1> QED
    BY <1>1, <1>2, <1>4, SessionsUnrequested DEF LayeredInv, history

----------------------------------------------------------------------------
(* The invariant.                                                          *)

LEMMA LayeredInitSessions == LayeredInit => SessionsInv
<1> SUFFICES ASSUME LayeredInit, NEW s \in Sessions PROVE SessionInv(s)
    BY DEF SessionsInv
<1>1. /\ hot[s] = Empty /\ disk[s] = Empty /\ clock = 0 /\ kept[s] = {} /\ dropped[s] = {}
      /\ \A p \in Procs : proc[p] = Idle
    BY DEF LayeredInit
<1>2. PendingIn(s) = {}
    BY <1>1, IdleFits DEF LayeredInit, PendingIn, Pending
<1>3. \A p \in Procs : Todo(p, s) = Empty
    BY <1>1, IdleFits, NothingToDo
<1>4. ToSet(Empty.msgs) = {} /\ ItemsOf(Empty) = {} /\ Increasing(Empty.msgs) /\ Empty \in SessionRecords
    BY EmptyType DEF ToSet, ItemsOf, Increasing
<1>5. Queue(Empty, {}, clock) /\ Stock(Empty, {}) = {}
    BY <1>1, <1>4, NothingPending DEF Queue
<1>6. PastAgrees(s)
    BY <1>1, <1>2, <1>5 DEF PastAgrees, StockAbove, HotAbove
<1>7. FillsRight(s)
    BY <1>3, EmptyType DEF FillsRight, Fills, FillsMessages
<1>8. KeptAndDropped(s) /\ HotIsStored(s)
    BY <1>1, <1>4 DEF KeptAndDropped, HotIsStored
<1>9. MissingIsGone(s)
    BY <1>1, <1>2, <1>5 DEF MissingIsGone
<1>10. Bounded(s)
    BY <1>1, EmptyType, LayeredAssumption DEF Bounded
<1> QED
    BY <1>6, <1>7, <1>8, <1>9, <1>10 DEF SessionInv

LEMMA SessionsOfWrite ==
    ASSUME LayeredInv, LayeredTypes, LayeredTypes', SessionsInv, NEW p \in Procs, NEW s \in Sessions,
           Write(p, s) \/ (TruncateMessages(p) /\ s = proc[p].s)
    PROVE  SessionsInv'
<1>1. Requests
    BY DEF LayeredInv
<1>2. CASE DeletePlaceholders(p, s)
    BY <1>2, SessionsOfNoRequest
<1>3. CASE ~ DeletePlaceholders(p, s)
  <2> DEFINE Writes(op, i) == /\ WriteHot(p, s, op, i)
                              /\ Fitting(op, i, clock + 1)
                              /\ proc[p].pc \in {"idle", "trim"}
                              /\ proc[p].pc = "trim" <=> op = "truncate"
  <2>0. PICK op \in SessionOps \cup {"savePair"} : \E i : Writes(op, i)
      BY <1>1, <1>3, WriteCases
  <2>1. PICK i : Writes(op, i)
      BY <2>0
  <2>2. proc[p].pc = "trim" => s = proc[p].s
      BY DEF Write, SaveMessage, DeleteMessages, DeleteMaskMeta, DeleteSession, SaveMaskMeta,
             SavePlaceholder, DeletePlaceholders, Starting
  <2>3. ASSUME NEW t \in Sessions, t # s \/ op = "savePair" PROVE SessionInv(t)'
      BY <2>1, <2>2, <2>3, WriteElsewhere
  <2>4. op \in SessionOps => SessionInv(s)'
      BY <2>1, WriteHere
  <2> QED
      BY <2>3, <2>4 DEF SessionsInv
<1> QED
    BY <1>2, <1>3

LEMMA LayeredNextSessions ==
    LayeredInv /\ LayeredTypes /\ SessionsInv /\ [LayeredNext]_layeredVars => SessionsInv'
<1> SUFFICES ASSUME LayeredInv, LayeredTypes, SessionsInv, [LayeredNext]_layeredVars
             PROVE  SessionsInv'
    OBVIOUS
<1>1. LayeredTypes' /\ Requests'
    BY LayeredNextInv, LayeredNextTypes DEF LayeredInv
<1>2. ASSUME NEW p \in Procs, NEW s \in Sessions,
             Write(p, s) \/ (TruncateMessages(p) /\ s = proc[p].s)
      PROVE  SessionsInv'
    BY <1>1, <1>2, SessionsOfWrite
<1>3. ASSUME NEW p \in Procs, NEW s \in Sessions, Read(p, s) PROVE SessionsInv'
  <2>1. \E t, op, i : Missing(p, t, op, i)
      BY <1>3 DEF Read, GetMessages, GetAllMaskMeta, GetAllPlaceholders, GetMaskMeta, GetPlaceholder,
                  LoadSessionFromDisk
  <2> QED
      BY <1>1, <2>1, SessionsOfRequestSteps
<1>4. ASSUME NEW p \in Procs, DeleteAllPlaceholders(p) \/ Proceed(p) PROVE SessionsInv'
  <2>1. CASE TruncateMessages(p)
    <3>1. proc[p].s \in Sessions
        BY <2>1 DEF TruncateMessages, LayeredTypes, RequestTypes, RequestFits
    <3> QED
        BY <1>2, <2>1, <3>1
  <2>2. CASE CountMessages(p) \/ LockAll(p) \/ RemoveDir(p) \/ Cleared(p)
      BY <1>1, <2>2, SessionsOfRequestSteps
  <2>3. CASE DeleteAllPlaceholders(p) \/ Spawn(p) \/ ReadCold(p) \/ Refill(p)
      BY <1>1, <2>3, SessionsOfClearAll, SessionsOfSpawn, SessionsOfReadCold, SessionsOfRefill
  <2> QED
      BY <1>4, <2>1, <2>2, <2>3 DEF Proceed
<1>5. ASSUME NEW j \in jobs, Job(j) PROVE SessionsInv'
    BY <1>1, <1>5, SessionsOfSessionJob, SessionsOfFileJob DEF Job
<1>6. ASSUME NEW s \in Sessions, CleanHot(s) \/ CleanCold(s) PROVE SessionsInv'
    BY <1>1, <1>6, SessionsOfCleanHot, SessionsOfCleanCold
<1>7. CASE Close \/ Closed \/ UNCHANGED layeredVars
    BY <1>1, <1>7, SessionsOfNoRequest
<1>8. CASE Restart
    BY <1>1, <1>8, SessionsOfRestart
<1> QED
    BY <1>2, <1>3, <1>4, <1>5, <1>6, <1>7, <1>8 DEF LayeredNext

LEMMA SessionsKept == LayeredSpec => [](LayeredInv /\ LayeredTypes /\ SessionsInv)
<1>1. LayeredInit => LayeredInv /\ LayeredTypes /\ SessionsInv
    BY LayeredInitInv, LayeredInitTypes, LayeredInitSessions
<1>2. (LayeredInv /\ LayeredTypes /\ SessionsInv) /\ [LayeredNext]_layeredVars
         => (LayeredInv /\ LayeredTypes /\ SessionsInv)'
    BY LayeredNextInv, LayeredNextTypes, LayeredNextSessions
<1> QED
    BY <1>1, <1>2, PTL DEF LayeredSpec

\* Messages that are the newest of others, and all of them from there on, are the last of them.
LEMMA NewestAreSuffix ==
    ASSUME NEW p \in Seq(Nat), NEW q \in Seq(Nat), Increasing(p), Increasing(q),
           ToSet(p) \subseteq ToSet(q),
           \A m \in ToSet(p), k \in ToSet(q) : k > m => k \in ToSet(p)
    PROVE  IsSuffix(p, q)
<1>1. Len(p) \in Nat /\ Len(q) \in Nat
    OBVIOUS
<1>2. ASSUME NEW i \in 1 .. Len(p)
      PROVE  Len(q) - Len(p) + i \in 1 .. Len(q) /\ p[i] = q[Len(q) - Len(p) + i]
  <2>1. p[i] \in ToSet(p) /\ p[i] \in Nat
      BY SetOf
  <2>2. PICK j \in 1 .. Len(q) : q[j] = p[i]
      BY <2>1, SetOf
  <2>3. {k \in ToSet(p) : k > p[i]} = {k \in ToSet(q) : k > q[j]}
      BY <2>1, <2>2
  <2>4. Len(p) - i = Len(q) - j
    <3>1. Cardinality({k \in ToSet(p) : k > p[i]}) = Len(p) - i
        BY CountAbove
    <3>2. Cardinality({k \in ToSet(q) : k > q[j]}) = Len(q) - j
        BY CountAbove
    <3> QED
        BY <2>3, <3>1, <3>2
  <2>5. j = Len(q) - Len(p) + i
      BY <1>1, <2>4
  <2> QED
      BY <2>2, <2>5
<1>3. Len(p) <= Len(q)
  <2>1. CASE Len(p) = 0
      BY <1>1, <2>1
  <2>2. CASE Len(p) # 0
    <3>1. 1 \in 1 .. Len(p)
        BY <1>1, <2>2
    <3>2. Len(q) - Len(p) + 1 \in 1 .. Len(q)
        BY <1>2, <3>1
    <3> QED
        BY <1>1, <3>2
  <2> QED
      BY <2>1, <2>2
<1> DEFINE a == Reverse(p)
           b == Reverse(q)
<1>4. /\ a \in Seq(Nat) /\ Len(a) = Len(p) /\ \A x \in 1 .. Len(p) : a[x] = p[Len(p) - x + 1]
      /\ b \in Seq(Nat) /\ Len(b) = Len(q) /\ \A x \in 1 .. Len(q) : b[x] = q[Len(q) - x + 1]
  <2>1. a = [x \in 1 .. Len(p) |-> p[Len(p) - x + 1]] /\ b = [x \in 1 .. Len(q) |-> q[Len(q) - x + 1]]
      BY DEF Reverse
  <2>2. /\ \A x \in 1 .. Len(p) : p[Len(p) - x + 1] \in Nat
        /\ \A x \in 1 .. Len(q) : q[Len(q) - x + 1] \in Nat
      BY <1>1
  <2> HIDE DEF a, b
  <2> QED
      BY <1>1, <2>1, <2>2
<1> HIDE DEF a, b
<1>5. \A x \in 1 .. Len(a) : a[x] = b[x]
  <2> SUFFICES ASSUME NEW x \in 1 .. Len(p) PROVE a[x] = b[x]
      BY <1>4
  <2>1. Len(p) - x + 1 \in 1 .. Len(p) /\ x \in 1 .. Len(q)
      BY <1>1, <1>3
  <2>2. p[Len(p) - x + 1] = q[Len(q) - Len(p) + (Len(p) - x + 1)]
      BY <1>2, <2>1
  <2>3. Len(q) - Len(p) + (Len(p) - x + 1) = Len(q) - x + 1
      BY <1>1
  <2> QED
      BY <1>4, <2>1, <2>2, <2>3
<1>6. SubSeq(a, 1, Len(a)) = SubSeq(b, 1, Len(a))
  <2> DEFINE c == SubSeq(a, 1, Len(a))
             e == SubSeq(b, 1, Len(a))
  <2>1. /\ c \in Seq(Nat) /\ Len(c) = Len(a) /\ \A x \in 1 .. Len(a) : c[x] = a[x]
        /\ e \in Seq(Nat) /\ Len(e) = Len(a) /\ \A x \in 1 .. Len(a) : e[x] = b[x]
    <3>1. Len(a) \in Nat /\ Len(a) <= Len(b)
        BY <1>1, <1>3, <1>4
    <3>2. /\ \A x \in 1 .. Len(a) : a[x] \in Nat
          /\ \A x \in 1 .. Len(a) : b[x] \in Nat
      <4>1. \A x \in 1 .. Len(a) : x \in 1 .. Len(b)
          BY <3>1, <1>4
      <4> QED
          BY <1>4, <4>1, SetOf
    <3>3. c \in Seq(Nat) /\ Len(c) = Len(a) /\ \A x \in 1 .. Len(a) : c[x] = a[x]
        BY <1>4, <3>1, <3>2
    <3>4. e \in Seq(Nat) /\ Len(e) = Len(a) /\ \A x \in 1 .. Len(a) : e[x] = b[x]
        BY <1>4, <3>1, <3>2
    <3> QED
        BY <3>3, <3>4
  <2> HIDE DEF c, e
  <2>2. c = [x \in 1 .. Len(a) |-> c[x]] /\ e = [x \in 1 .. Len(a) |-> e[x]]
      BY <2>1
  <2>3. \A x \in 1 .. Len(a) : c[x] = e[x]
      BY <1>5, <2>1
  <2>4. c = e
      BY <2>2, <2>3
  <2> QED
      BY <2>4 DEF c, e
<1> QED
    BY <1>3, <1>4, <1>6 DEF IsSuffix, IsPrefix, a, b

----------------------------------------------------------------------------
(* The theorems.                                                           *)

\* What was saved and not deleted is in the cold tier or on its way there, in whatever
\* order the jobs run, as long as none failed, overtook another or was mixed up with a
\* read that fills the hot tier: SaveMessage, SaveMaskMeta and the deletions of layered.go.
THEOREM KeptStored == LayeredSpec => []KeptIsStored
<1>1. SessionsInv => KeptIsStored
  <2> SUFFICES ASSUME SessionsInv, NEW s \in Sessions, Sound(s, Tiers), NEW i \in kept[s]
               PROVE  i \in ItemsOf(disk[s]) \/ \E j \in PendingIn(s) : j.item = i
      BY DEF KeptIsStored
  <2>1. Stored(disk[s], PendingIn(s), i)
      BY DEF SessionsInv, SessionInv, KeptAndDropped
  <2> QED
      BY <2>1 DEF Stored, Saves
<1> QED
    BY <1>1, SessionsKept, PTL

\* What was deleted is in neither tier once its deletion has reached the cold one: no read
\* that was under way, and no older job, brings it back.
THEOREM DroppedGone == LayeredSpec => []DroppedIsGone
<1>1. SessionsInv => DroppedIsGone
  <2> SUFFICES ASSUME SessionsInv, NEW s \in Sessions, PendingIn(s) = {}, Sound(s, Tiers)
               PROVE  dropped[s] \cap (ItemsOf(hot[s]) \cup ItemsOf(disk[s])) = {}
      BY DEF DroppedIsGone
  <2>1. \A i \in dropped[s] : Gone(disk[s], {}, i) /\ i \notin ItemsOf(hot[s])
      BY DEF SessionsInv, SessionInv, KeptAndDropped
  <2>2. \A i \in dropped[s] : i \notin ItemsOf(disk[s])
      BY <2>1, NothingPending
  <2> QED
      BY <2>1, <2>2
<1> QED
    BY <1>1, SessionsKept, PTL

\* When nothing of a session is under way, the hot tier has the last messages of the cold
\* one in their order, and none of the maskMetas that the cold one does not have, whatever
\* jobs ran in which order before.
THEOREM TiersAgreeCorrect == LayeredSpec => []TiersAgree
<1>1. LayeredTypes /\ SessionsInv => TiersAgree
  <2> SUFFICES ASSUME LayeredTypes, SessionsInv, NEW s \in Sessions, PendingIn(s) = {},
                      Sound(s, Tiers \cup {"swept"})
               PROVE  /\ Refilling(s) = {} => IsSuffix(hot[s].msgs, disk[s].msgs)
                      /\ hot[s].metas \subseteq disk[s].metas
      BY DEF TiersAgree
  <2>1. /\ hot[s].msgs \in Seq(Nat) /\ disk[s].msgs \in Seq(Nat)
        /\ hot[s].metas \subseteq Metas /\ disk[s].metas \subseteq Metas
      BY DEF LayeredTypes, TierTypes, SessionRecords
  <2>2. PastAgrees(s) /\ HotIsStored(s)
      BY DEF SessionsInv, SessionInv, Sound
  <2>3. \A i \in ItemsOf(hot[s]) : i \in ItemsOf(disk[s])
      BY <2>2, NothingPending DEF HotIsStored
  <2>4. ToSet(hot[s].msgs) \subseteq Nat /\ ToSet(disk[s].msgs) \subseteq Nat
      BY <2>1, SetOf
  <2>5. ToSet(hot[s].msgs) \subseteq ToSet(disk[s].msgs) /\ hot[s].metas \subseteq disk[s].metas
      BY <2>1, <2>3, <2>4, LayeredAssumption DEF ItemsOf
  <2>6. ASSUME Refilling(s) = {} PROVE IsSuffix(hot[s].msgs, disk[s].msgs)
    <3>1. \A p \in Procs : ~ FillsMessages(p, s)
        BY <2>6, EmptyType DEF FillsMessages, Todo
    <3>2. HotAbove(hot[s], disk[s], {}) /\ Increasing(hot[s].msgs) /\ Increasing(disk[s].msgs)
        BY <2>2, <3>1 DEF PastAgrees, Queue
    <3>3. \A m \in ToSet(hot[s].msgs), k \in ToSet(disk[s].msgs) : k > m => k \in ToSet(hot[s].msgs)
        BY <3>2, NothingPending DEF HotAbove
    <3> QED
        BY <2>1, <2>5, <3>2, <3>3, NewestAreSuffix
  <2> QED
      BY <2>5, <2>6
<1> QED
    BY <1>1, SessionsKept, PTL

\* As long as the hot session lives, it has no more than max_messages_per_session messages
\* when no request is at it, however requests of one session saved and truncated at the
\* same time: Proxy.saveMessage counts after it saved.
THEOREM HistoryBounded == LayeredSpec => []HistoryIsBounded
<1>1. SessionsInv => HistoryIsBounded
  <2> SUFFICES ASSUME SessionsInv, NEW s \in Sessions, MaxMessages > 0, flaws[s] = {},
                      \A p \in Procs : proc[p].s # s
               PROVE  Len(hot[s].msgs) <= MaxMessages
      BY DEF HistoryIsBounded
  <2>1. Bounded(s)
      BY DEF SessionsInv, SessionInv
  <2> QED
      BY <2>1 DEF Bounded, Trimming
<1> QED
    BY <1>1, SessionsKept, PTL

=============================================================================
