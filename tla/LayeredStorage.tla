--------------------------- MODULE LayeredStorage ---------------------------
(***************************************************************************)
(* The layered storage: src/internal/storage/layered.go over memory.go     *)
(* (hot), disk.go (cold) and placeholder_storage.go (placeholders), and    *)
(* the message history that src/internal/proxy/messages.go keeps in it.    *)
(*                                                                         *)
(* An operation changes the hot tier, starts a goroutine (a job) that does *)
(* the same to the cold one, and returns.  Jobs run in any order, fail, or *)
(* are lost when the process ends.  A read that misses in the hot tier     *)
(* reads the cold one and copies what it found into the hot one.           *)
(*                                                                         *)
(* An operation on a session of one tier is one step.  In the hot tier it  *)
(* holds the session's lock, and a write to a session that was removed     *)
(* since it was found is as good as one before the removal.  In the cold   *)
(* tier this is an abstraction: only updates hold the mutex of the file;   *)
(* readers, DeleteSession and the cleanup (disk.go:129, 203, 339) do not,  *)
(* and what comes of that is the subject of DiskStorage.  A message is the *)
(* number of the operation that saved it; a placeholder stands for its     *)
(* pair with the original.                                                 *)
(***************************************************************************)
EXTENDS Integers, FiniteSets, SequencesExt

CONSTANTS
    Procs,        \* the request goroutines
    Sessions,
    Metas,        \* the maskMetas of a session, by message
    Pairs,        \* the placeholders
    FileOf,       \* the file that a placeholder is kept in: its type and hash prefix
    MaxMessages,  \* max_messages_per_session; 0 is no limit
    MaxOps,       \* a bound of the model: how many operations are begun
    None

ASSUME LayeredAssumption ==
    /\ DOMAIN FileOf = Pairs
    /\ MaxMessages \in Nat
    /\ MaxOps \in Nat
    /\ None \notin Sessions \cup Metas \cup Pairs
    /\ \A i \in Metas : i \notin Nat     \* a message is a number, a maskMeta is not

VARIABLES
    hot,        \* MemoryStorage.sessions; one that does not exist is an empty one
    disk,       \* the sessions of the cold tier
    files,      \* the placeholders in the placeholder files
    fileMu,     \* per placeholder file: the job that holds its mutex, or 0
    jobs,       \* the goroutines that asyncWg counts
    proc,       \* per request goroutine: where it is in which operation
    phase,      \* "up", "closing" while Close waits, "closed"
    clock,      \* the operations begun so far
    kept,       \* history: what was saved in a session and not deleted since
    dropped,    \* history: what was deleted in a session and not saved since
    flaws,      \* history: what happened to a session that the storage does not promise
                \* to survive (below)
    keptPairs,  \* history: the placeholders that a save answered for, and no clearing,
                \* failure or restart since took that back
    wiped       \* history: the placeholders cleared while nobody was saving them

\* The flaws: "failed", a job failed or was lost in a restart; "overtaken", a job
\* ran before an older one that it does not commute with; "mixed", the hot tier was
\* filled from a cold one that was behind, or together with another change; "swept",
\* the cold session expired under a hot one; "reborn", the hot session was dropped
\* and the cold one was not.
Flaws == {"failed", "overtaken", "mixed", "swept", "reborn"}

tiers == <<hot, disk, files>>
history == <<kept, dropped, flaws>>
pairHistory == <<keptPairs, wiped>>
layeredVars == <<tiers, fileMu, jobs, proc, phase, clock, history, pairHistory>>

----------------------------------------------------------------------------
(* What an operation does to a session of a tier.                          *)

Empty == [msgs |-> <<>>, metas |-> {}, pairs |-> {}]

\* Mutant of Truncated: keeps one message too many.
TruncatedLate(d) ==
    IF Len(d.msgs) <= MaxMessages THEN d
    ELSE [d EXCEPT !.msgs = SubSeq(@, Len(@) - MaxMessages, Len(@))]

WithMessage(d, m) == [d EXCEPT !.msgs = Append(@, m)]
WithoutMessages(d) == [d EXCEPT !.msgs = <<>>]
Truncated(d) ==
    IF Len(d.msgs) <= MaxMessages THEN d
    ELSE [d EXCEPT !.msgs = SubSeq(@, Len(@) - MaxMessages + 1, Len(@))]
WithMeta(d, i) == [d EXCEPT !.metas = @ \cup {i}]
WithoutMetas(d) == [d EXCEPT !.metas = {}]
WithPair(d, q) == [d EXCEPT !.pairs = @ \cup {q}]
WithoutPairs(d) == [d EXCEPT !.pairs = {}]

After(op, i, d) ==
    CASE op = "saveMessage" -> WithMessage(d, i)
      [] op = "deleteMessages" -> WithoutMessages(d)
      [] op = "truncate" -> Truncated(d)
      [] op = "saveMeta" -> WithMeta(d, i)
      [] op = "deleteMetas" -> WithoutMetas(d)
      [] op = "savePair" -> WithPair(d, i)
      [] op = "deleteSession" -> Empty

SessionOps == {"saveMessage", "deleteMessages", "truncate", "saveMeta", "deleteMetas",
               "deleteSession"}

ItemsOf(d) == ToSet(d.msgs) \cup d.metas

PairsIn(f) == {q \in Pairs : FileOf[q] = f}
Files == {FileOf[q] : q \in Pairs}

----------------------------------------------------------------------------
Idle == [pc |-> "idle", op |-> None, s |-> None, item |-> None, id |-> 0,
         todo |-> Empty, over |-> FALSE, dirs |-> {}]

LayeredInit ==
    /\ hot = [s \in Sessions |-> Empty]
    /\ disk = [s \in Sessions |-> Empty]
    /\ files = {}
    /\ fileMu = [f \in Files |-> 0]
    /\ jobs = {}
    /\ proc = [p \in Procs |-> Idle]
    /\ phase = "up"
    /\ clock = 0
    /\ kept = [s \in Sessions |-> {}]
    /\ dropped = [s \in Sessions |-> {}]
    /\ flaws = [s \in Sessions |-> {}]
    /\ keptPairs = {}
    /\ wiped = {}

JobOf(p) == [op |-> proc[p].op, s |-> proc[p].s, item |-> proc[p].item, id |-> proc[p].id,
             pc |-> "start", data |-> {}]

\* The changes that the hot tier has and the cold one does not: of jobs, and of
\* operations that have not started theirs.
Pending == jobs \cup {JobOf(p) : p \in {r \in Procs : proc[r].pc = "spawn"}}
PendingIn(s) == {j \in Pending : j.s = s /\ j.op \in SessionOps}
PendingPairs == {j.item : j \in {k \in Pending : k.op = "savePair"}}

Touches(op) ==
    CASE op \in {"saveMessage", "deleteMessages", "truncate"} -> {"msgs"}
      [] op \in {"saveMeta", "deleteMetas"} -> {"metas"}
      [] op = "deleteSession" -> {"msgs", "metas"}
      [] OTHER -> {}

Overtakes(j) ==
    \E k \in PendingIn(j.s) : k.id < j.id /\ Touches(k.op) \cap Touches(j.op) # {}

Refilling(s) == {p \in Procs : proc[p].pc = "refill" /\ proc[p].s = s}

Flawed(s, what) == [flaws EXCEPT ![s] = @ \cup what]

----------------------------------------------------------------------------
(* Writes: the change of the hot tier, then asyncWg.Add and go.            *)

Starting(p) == proc[p].pc = "idle" /\ phase = "up" /\ clock < MaxOps

\* What op takes from the items K of a session that is d in the hot tier. A
\* truncation drops what the hot tier drops, and may drop in the cold one what
\* the hot tier does not have.
Deleted(op, d, K) ==
    CASE op = "deleteMessages" -> K \ Metas
      [] op = "deleteMetas" -> K \cap Metas
      [] op = "deleteSession" -> K
      [] op = "truncate" -> ToSet(d.msgs) \ ToSet(Truncated(d).msgs)
      [] OTHER -> {}

Doubtful(op, d, K) ==
    IF op = "truncate" THEN (K \ Metas) \ ToSet(Truncated(d).msgs) ELSE {}

Saved(op, i) == IF op \in {"saveMessage", "saveMeta"} THEN {i} ELSE {}

WriteHot(p, s, op, i) ==
    /\ clock' = clock + 1
    /\ hot' = [hot EXCEPT ![s] = After(op, i, @)]
    /\ proc' = [proc EXCEPT ![p] = [Idle EXCEPT !.pc = "spawn", !.op = op, !.s = s,
                                                !.item = i, !.id = clock + 1]]
    /\ IF op \in SessionOps
       THEN /\ kept' = [kept EXCEPT ![s] = ((@ \ Deleted(op, hot[s], @)) \ Doubtful(op, hot[s], @))
                                             \cup Saved(op, i)]
            /\ dropped' = [dropped EXCEPT ![s] = (@ \cup Deleted(op, hot[s], kept[s])) \ Saved(op, i)]
            /\ flaws' = Flawed(s, IF Refilling(s) = {} THEN {} ELSE {"mixed"})
       ELSE UNCHANGED history
    /\ UNCHANGED <<disk, files, fileMu, jobs, phase>>

SaveMessage(p, s) == Starting(p) /\ WriteHot(p, s, "saveMessage", clock + 1) /\ UNCHANGED pairHistory

DeleteMessages(p, s) == Starting(p) /\ WriteHot(p, s, "deleteMessages", None) /\ UNCHANGED pairHistory

SaveMaskMeta(p, s, i) == Starting(p) /\ WriteHot(p, s, "saveMeta", i) /\ UNCHANGED pairHistory

DeleteMaskMeta(p, s) == Starting(p) /\ WriteHot(p, s, "deleteMetas", None) /\ UNCHANGED pairHistory

DeleteSession(p, s) == Starting(p) /\ WriteHot(p, s, "deleteSession", None) /\ UNCHANGED pairHistory

SavePlaceholder(p, s, q) ==
    /\ Starting(p)
    /\ WriteHot(p, s, "savePair", q)
    /\ keptPairs' = keptPairs \cup {q}
    /\ wiped' = wiped \ {q}

\* A message was saved by Proxy.saveMessage, which goes on to count the messages of
\* the session if there is a limit.
Returned(r) ==
    IF r.op = "saveMessage" /\ MaxMessages > 0
    THEN [Idle EXCEPT !.pc = "count", !.s = r.s]
    ELSE Idle

\* Mutant of Spawn: the deletions of a session are not passed on.
SpawnSaves(p) ==
    /\ proc[p].pc = "spawn"
    /\ jobs' = IF proc[p].op = "deleteMessages" THEN jobs ELSE jobs \cup {JobOf(p)}
    /\ proc' = [proc EXCEPT ![p] = Returned(@)]
    /\ UNCHANGED <<tiers, fileMu, phase, clock, history, pairHistory>>

\* The goroutine is started and the operation returns.
Spawn(p) ==
    /\ proc[p].pc = "spawn"
    /\ jobs' = jobs \cup {JobOf(p)}
    /\ proc' = [proc EXCEPT ![p] = Returned(@)]
    /\ UNCHANGED <<tiers, fileMu, phase, clock, history, pairHistory>>

----------------------------------------------------------------------------
(* Proxy.saveMessage, after SaveMessage: GetMessages, and TruncateMessages *)
(* when there are more than the limit.                                     *)

CountMessages(p) ==
    /\ proc[p].pc = "count"
    /\ proc' = [proc EXCEPT ![p] =
                  IF hot[@.s].msgs = <<>> THEN [@ EXCEPT !.pc = "cold", !.op = "count"]
                  ELSE IF Len(hot[@.s].msgs) > MaxMessages THEN [@ EXCEPT !.pc = "trim"]
                  ELSE Idle]
    /\ UNCHANGED <<tiers, fileMu, jobs, phase, clock, history, pairHistory>>

TruncateMessages(p) ==
    /\ proc[p].pc = "trim"
    /\ WriteHot(p, proc[p].s, "truncate", None)
    /\ UNCHANGED pairHistory

----------------------------------------------------------------------------
(* Reads that miss in the hot tier; one that finds something returns it.   *)

Missing(p, s, op, i) ==
    /\ Starting(p)
    /\ clock' = clock + 1
    /\ proc' = [proc EXCEPT ![p] = [Idle EXCEPT !.pc = "cold", !.op = op, !.s = s, !.item = i]]
    /\ UNCHANGED <<tiers, fileMu, jobs, phase, history, pairHistory>>

\* Whether the hot tier has what is asked for.
HasMessages(s) == hot[s].msgs # <<>>
HasMeta(s, i) == i \in hot[s].metas
HasMetas(s) == hot[s].metas # {}
HasPair(s, q) == q \in hot[s].pairs
HasPairs(s) == hot[s].pairs # {}

GetMessages(p, s) == ~ HasMessages(s) /\ Missing(p, s, "getMessages", None)
GetMaskMeta(p, s, i) == ~ HasMeta(s, i) /\ Missing(p, s, "getMeta", i)
GetAllMaskMeta(p, s) == ~ HasMetas(s) /\ Missing(p, s, "getMetas", None)
GetPlaceholder(p, s, q) == ~ HasPair(s, q) /\ Missing(p, s, "getPair", q)
GetAllPlaceholders(p, s) == ~ HasPairs(s) /\ Missing(p, s, "getPairs", None)
LoadSessionFromDisk(p, s) == Missing(p, s, "load", None)

\* What the cold tier has for a read.
ColdMessages(s) == [Empty EXCEPT !.msgs = disk[s].msgs]
ColdMeta(s, i) == [Empty EXCEPT !.metas = disk[s].metas \cap {i}]
ColdMetas(s) == [Empty EXCEPT !.metas = disk[s].metas]
ColdPair(q) == [Empty EXCEPT !.pairs = files \cap {q}]
ColdPairs == [Empty EXCEPT !.pairs = files]

Found(r) ==
    CASE r.op \in {"getMessages", "count"} -> ColdMessages(r.s)
      [] r.op = "getMeta" -> ColdMeta(r.s, r.item)
      [] r.op = "getMetas" -> ColdMetas(r.s)
      [] r.op = "getPair" -> ColdPair(r.item)
      [] r.op = "getPairs" -> ColdPairs
      [] r.op = "load" -> disk[r.s]

\* Where a read goes when it has copied todo.
Copied(r, todo) ==
    IF todo # Empty THEN [r EXCEPT !.pc = "refill", !.todo = todo]
    ELSE IF r.over THEN [Idle EXCEPT !.pc = "trim", !.s = r.s]
    ELSE Idle

\* A read of all placeholders waits for a ClearAll in progress. A failing read
\* ends the operation.
ReadCold(p) ==
    LET r == proc[p]
        todo == Found(r)
        stale == \/ todo.msgs # <<>> /\ hot[r.s].msgs # <<>>
                 \/ todo.msgs # <<>> /\ Refilling(r.s) # {}
                 \/ r.op \notin {"getPair", "getPairs"} /\ PendingIn(r.s) # {}
    IN  /\ r.pc = "cold"
        /\ r.op = "getPairs" => \A x \in Procs : proc[x].pc # "clear"
        /\ \/ /\ proc' = [proc EXCEPT ![p] =
                            Copied([r EXCEPT !.over = r.op = "count" /\ Len(todo.msgs) > MaxMessages],
                                   todo)]
              /\ flaws' = Flawed(r.s, IF stale THEN {"mixed"} ELSE {})
           \/ /\ proc' = [proc EXCEPT ![p] = Idle]
              /\ UNCHANGED flaws
        /\ UNCHANGED <<tiers, fileMu, jobs, phase, clock, kept, dropped, pairHistory>>

\* Mutant of PutMessage: a message is put before the ones copied earlier.
PutFirst(p, m) == hot' = [hot EXCEPT ![proc[p].s].msgs = <<m>> \o @]

\* Mutant of PutPair: copied with SavePlaceholder of the layered storage, which
\* persists the pair again.
PutAndPersist(p, q) ==
    /\ hot' = [hot EXCEPT ![proc[p].s] = WithPair(@, q)]
    /\ files' = files \cup {q}

\* One item of a read goes into the hot tier.
PutMessage(p, m) == hot' = [hot EXCEPT ![proc[p].s] = WithMessage(@, m)]
PutMeta(p, i) == hot' = [hot EXCEPT ![proc[p].s] = WithMeta(@, i)]
PutPair(p, q) == hot' = [hot EXCEPT ![proc[p].s] = WithPair(@, q)] /\ UNCHANGED files

\* The messages in order, then the maskMetas.
Refill(p) ==
    LET todo == proc[p].todo
        Left(d) == proc' = [proc EXCEPT ![p] = Copied(@, d)]
    IN  /\ proc[p].pc = "refill"
        /\ \/ /\ todo.msgs # <<>>
              /\ PutMessage(p, Head(todo.msgs))
              /\ Left([todo EXCEPT !.msgs = Tail(@)])
              /\ UNCHANGED files
           \/ /\ todo.msgs = <<>>
              /\ \E i \in todo.metas : PutMeta(p, i) /\ Left([todo EXCEPT !.metas = @ \ {i}])
              /\ UNCHANGED files
           \/ \E q \in todo.pairs : PutPair(p, q) /\ Left([todo EXCEPT !.pairs = @ \ {q}])
        /\ UNCHANGED <<disk, fileMu, jobs, phase, clock, history, pairHistory>>

----------------------------------------------------------------------------
(* The goroutines.                                                         *)

\* One that changes a session of the cold tier.
WriteCold(j) ==
    /\ j.op \in SessionOps
    /\ jobs' = jobs \ {j}
    /\ \/ /\ disk' = [disk EXCEPT ![j.s] = After(j.op, j.item, @)]
          /\ flaws' = Flawed(j.s, IF Overtakes(j) THEN {"overtaken"} ELSE {})
       \/ /\ flaws' = Flawed(j.s, {"failed"})
          /\ UNCHANGED disk
    /\ UNCHANGED <<hot, files, fileMu, proc, phase, clock, kept, dropped, pairHistory>>

FileOfJob(j) == FileOf[j.item]

At(j, pc) == j.op = "savePair" /\ j.pc = pc

\* Mutant of LockFile: the saves of a file do not exclude each other.
LockNothing(j) ==
    /\ At(j, "start")
    /\ fileMu' = [fileMu EXCEPT ![FileOfJob(j)] = j.id]
    /\ jobs' = (jobs \ {j}) \cup {[j EXCEPT !.pc = "load"]}
    /\ UNCHANGED <<tiers, proc, phase, clock, history, pairHistory>>

\* One that saves a placeholder: PlaceholderStorage.SavePlaceholder under the
\* mutex of the file, which it reads and replaces as a whole.
LockFile(j) ==
    /\ At(j, "start")
    /\ fileMu[FileOfJob(j)] = 0
    /\ fileMu' = [fileMu EXCEPT ![FileOfJob(j)] = j.id]
    /\ jobs' = (jobs \ {j}) \cup {[j EXCEPT !.pc = "load"]}
    /\ UNCHANGED <<tiers, proc, phase, clock, history, pairHistory>>

LoadFile(j) ==
    /\ At(j, "load")
    /\ jobs' = (jobs \ {j}) \cup {[j EXCEPT !.pc = "store",
                                          !.data = files \cap PairsIn(FileOfJob(j))]}
    /\ UNCHANGED <<tiers, fileMu, proc, phase, clock, history, pairHistory>>

\* The temporary file is written and renamed.
StoreFile(j) ==
    /\ At(j, "store")
    /\ files' = (files \ PairsIn(FileOfJob(j))) \cup j.data \cup {j.item}
    /\ fileMu' = [fileMu EXCEPT ![FileOfJob(j)] = 0]
    /\ jobs' = jobs \ {j}
    /\ UNCHANGED <<hot, disk, proc, phase, clock, history, pairHistory>>

\* Mutant of PairFails: the mutex is not unlocked.
PairFailsLocked(j) ==
    /\ At(j, "load") \/ At(j, "store")
    /\ jobs' = jobs \ {j}
    /\ keptPairs' = keptPairs \ {j.item}
    /\ UNCHANGED <<tiers, fileMu, proc, phase, clock, history, wiped>>

\* Reading, parsing, writing or renaming fails: a warning is logged.
PairFails(j) ==
    /\ At(j, "load") \/ At(j, "store")
    /\ fileMu' = [fileMu EXCEPT ![FileOfJob(j)] = 0]
    /\ jobs' = jobs \ {j}
    /\ keptPairs' = keptPairs \ {j.item}
    /\ UNCHANGED <<tiers, proc, phase, clock, history, wiped>>

Job(j) == WriteCold(j) \/ LockFile(j) \/ LoadFile(j) \/ StoreFile(j) \/ PairFails(j)

----------------------------------------------------------------------------
(* Placeholders are deleted from one session's hot tier, or from all of    *)
(* it and the files.                                                       *)

DeletePlaceholders(p, s) ==
    /\ proc[p].pc = "idle"
    /\ phase = "up"
    /\ hot' = [hot EXCEPT ![s] = WithoutPairs(@)]
    /\ UNCHANGED <<disk, files, fileMu, jobs, proc, phase, clock, history, pairHistory>>

\* DeleteAllPlaceholders drops the sessions of the hot tier, messages and all.
DeleteAllPlaceholders(p) ==
    /\ Starting(p)
    /\ clock' = clock + 1
    /\ hot' = [s \in Sessions |-> Empty]
    /\ proc' = [proc EXCEPT ![p] = [Idle EXCEPT !.pc = "lockAll"]]
    /\ flaws' = [s \in Sessions |-> flaws[s] \cup {"reborn"}
                                     \cup IF Refilling(s) = {} THEN {} ELSE {"mixed"}]
    /\ UNCHANGED <<disk, files, fileMu, jobs, phase, kept, dropped, pairHistory>>

\* ClearAll: the directory is read under the lock of the storage. A failure to
\* read it ends the operation. The model has one file in a type's directory, so that
\* what RemoveAll leaves when it fails is either all of it or nothing.
LockAll(p) ==
    /\ proc[p].pc = "lockAll"
    /\ \A x \in Procs : proc[x].pc # "clear"
    /\ \/ proc' = [proc EXCEPT ![p].pc = "clear", ![p].dirs = {FileOf[q] : q \in files}]
       \/ proc' = [proc EXCEPT ![p] = Idle]
    /\ UNCHANGED <<tiers, fileMu, jobs, phase, clock, history, pairHistory>>

\* ... removes one directory after the other; what cannot be removed is logged and
\* stays. Who holds the mutex of a file is not asked.
RemoveDir(p) ==
    /\ proc[p].pc = "clear"
    /\ \E f \in proc[p].dirs :
          /\ proc' = [proc EXCEPT ![p].dirs = @ \ {f}]
          /\ \/ /\ files' = files \ PairsIn(f)
                /\ keptPairs' = keptPairs \ PairsIn(f)
                /\ wiped' = wiped \cup {q \in PairsIn(f) :
                                /\ q \notin PendingPairs
                                /\ \A j \in jobs : At(j, "store") => q \notin j.data}
             \/ UNCHANGED <<files, pairHistory>>
    /\ UNCHANGED <<hot, disk, fileMu, jobs, phase, clock, history>>

Cleared(p) ==
    /\ proc[p].pc = "clear"
    /\ proc[p].dirs = {}
    /\ proc' = [proc EXCEPT ![p] = Idle]
    /\ UNCHANGED <<tiers, fileMu, jobs, phase, clock, history, pairHistory>>

----------------------------------------------------------------------------
(* Expiry, closing and restarts.                                           *)

\* A session expires after hours in which nothing happened to it. The cleanups do not
\* look for operations under way: that none is, is the assumption that an operation
\* takes less than the TTL; the steps of a slow one are those of DiskStorage.
Quiet(s) == PendingIn(s) = {} /\ \A p \in Procs : proc[p].s # s

\* Mutant of CleanHot: the expired session is deleted in both tiers.
CleanBoth(s) ==
    /\ Quiet(s)
    /\ hot[s] # Empty
    /\ hot' = [hot EXCEPT ![s] = Empty]
    /\ disk' = [disk EXCEPT ![s] = Empty]
    /\ flaws' = Flawed(s, {"reborn"})
    /\ UNCHANGED <<files, fileMu, jobs, proc, phase, clock, kept, dropped, pairHistory>>

CleanHot(s) ==
    /\ Quiet(s)
    /\ hot[s] # Empty
    /\ hot' = [hot EXCEPT ![s] = Empty]
    /\ flaws' = Flawed(s, {"reborn"})
    /\ UNCHANGED <<disk, files, fileMu, jobs, proc, phase, clock, kept, dropped, pairHistory>>

\* Touching a session, as every request does, keeps the hot one only.
CleanCold(s) ==
    /\ Quiet(s)
    /\ disk[s] # Empty
    /\ disk' = [disk EXCEPT ![s] = Empty]
    /\ kept' = [kept EXCEPT ![s] = {}]
    /\ flaws' = Flawed(s, IF hot[s] = Empty THEN {} ELSE {"swept"})
    /\ UNCHANGED <<hot, files, fileMu, jobs, proc, phase, clock, dropped, pairHistory>>

\* Close waits for the goroutines. No operation is begun once it was called, the
\* ones that were begun go on.
Close ==
    /\ phase = "up"
    /\ phase' = "closing"
    /\ UNCHANGED <<tiers, fileMu, jobs, proc, clock, history, pairHistory>>

Closed ==
    /\ phase = "closing"
    /\ jobs = {}
    /\ phase' = "closed"
    /\ UNCHANGED <<tiers, fileMu, jobs, proc, clock, history, pairHistory>>

\* The process ends at any time and starts again; nothing is loaded at start-up.
Restart ==
    /\ hot' = [s \in Sessions |-> Empty]
    /\ jobs' = {}
    /\ fileMu' = [f \in Files |-> 0]
    /\ proc' = [p \in Procs |-> Idle]
    /\ phase' = "up"
    /\ flaws' = [s \in Sessions |-> flaws[s] \cup {"reborn"}
                                     \cup IF PendingIn(s) = {} THEN {} ELSE {"failed"}]
    /\ keptPairs' = keptPairs \ PendingPairs
    /\ UNCHANGED <<disk, files, clock, kept, dropped, wiped>>

----------------------------------------------------------------------------
Write(p, s) ==
    \/ SaveMessage(p, s) \/ DeleteMessages(p, s) \/ DeleteMaskMeta(p, s) \/ DeleteSession(p, s)
    \/ \E i \in Metas : SaveMaskMeta(p, s, i)
    \/ \E q \in Pairs : SavePlaceholder(p, s, q)
    \/ DeletePlaceholders(p, s)

Read(p, s) ==
    \/ GetMessages(p, s) \/ GetAllMaskMeta(p, s) \/ GetAllPlaceholders(p, s)
    \/ \E i \in Metas : GetMaskMeta(p, s, i)
    \/ \E q \in Pairs : GetPlaceholder(p, s, q)
    \/ LoadSessionFromDisk(p, s)

Proceed(p) ==
    \/ Spawn(p) \/ CountMessages(p) \/ TruncateMessages(p) \/ ReadCold(p) \/ Refill(p)
    \/ LockAll(p) \/ RemoveDir(p) \/ Cleared(p)

LayeredNext ==
    \/ \E p \in Procs : DeleteAllPlaceholders(p) \/ Proceed(p)
    \/ \E p \in Procs, s \in Sessions : Write(p, s) \/ Read(p, s)
    \/ \E j \in jobs : Job(j)
    \/ \E s \in Sessions : CleanHot(s) \/ CleanCold(s)
    \/ Close \/ Closed \/ Restart

LayeredSpec == LayeredInit /\ [][LayeredNext]_layeredVars

\* A goroutine that can run does run, and Close sees that none is left.
FairLayeredSpec ==
    LayeredSpec /\ WF_layeredVars(\E j \in jobs : Job(j)) /\ WF_layeredVars(Closed)

----------------------------------------------------------------------------
(* Properties.                                                             *)

Sound(s, what) == flaws[s] \cap what = {}
Tiers == {"failed", "overtaken", "mixed"}

SessionRecords == [msgs : Seq(Nat), metas : SUBSET Metas, pairs : SUBSET Pairs]
JobRecords == [op : SessionOps \cup {"savePair"}, s : Sessions, item : Nat \cup Metas \cup Pairs \cup {None},
               id : Nat \ {0}, pc : {"start", "load", "store"}, data : SUBSET Pairs]
ProcPcs == {"idle", "spawn", "count", "trim", "cold", "refill", "lockAll", "clear"}

\* Every variable keeps its type; the mutex of a file is held by the one job that is
\* past it, and by no other.
LayeredTypeOK ==
    /\ hot \in [Sessions -> SessionRecords]
    /\ disk \in [Sessions -> SessionRecords]
    /\ files \subseteq Pairs
    /\ jobs \subseteq JobRecords
    /\ DOMAIN proc = Procs
    /\ \A p \in Procs : proc[p].pc \in ProcPcs
    /\ phase \in {"up", "closing", "closed"}
    /\ clock \in Nat
    /\ flaws \in [Sessions -> SUBSET Flaws]
    /\ \A f \in Files :
          {j.id : j \in {k \in jobs : (At(k, "load") \/ At(k, "store")) /\ FileOfJob(k) = f}}
             = {fileMu[f]} \ {0}

\* What the goroutines in any order, and the reads that fill the hot tier, make of
\* a session: when none of its changes is under way, the hot tier shows the last of
\* the messages of the cold one, in the same order, and no maskMeta that the cold
\* one does not have.
TiersAgree ==
    \A s \in Sessions :
        PendingIn(s) = {} /\ Sound(s, Tiers \cup {"swept"})
            => /\ Refilling(s) = {} => IsSuffix(hot[s].msgs, disk[s].msgs)
               /\ hot[s].metas \subseteq disk[s].metas

\* A message or a maskMeta that was saved and not deleted is in the cold tier or on
\* its way there, whatever deletions, restarts and clean-ups there were.
KeptIsStored ==
    \A s \in Sessions :
        Sound(s, Tiers) => \A i \in kept[s] : i \in ItemsOf(disk[s]) \/ \E j \in PendingIn(s) : j.item = i

\* What was deleted does not come back from the cold tier, once the deletion has
\* reached it.
DroppedIsGone ==
    \A s \in Sessions :
        PendingIn(s) = {} /\ Sound(s, Tiers)
            => dropped[s] \cap (ItemsOf(hot[s]) \cup ItemsOf(disk[s])) = {}

\* The history that is sent to the model keeps to max_messages_per_session when
\* requests of one session save at the same time, as long as the hot session lives.
HistoryIsBounded ==
    \A s \in Sessions :
        /\ MaxMessages > 0
        /\ flaws[s] = {}
        /\ \A p \in Procs : proc[p].s # s
        => Len(hot[s].msgs) <= MaxMessages

\* A placeholder whose save has answered is in its file or on its way there: saves
\* of others into the same file do not undo it.
PairsAreKept == keptPairs \subseteq files \cup PendingPairs

\* A placeholder that was cleared while nobody saved it or rewrote its file stays
\* out of the files until it is saved again.
ClearedIsGone == wiped \cap files = {}

\* Close returns: no goroutine is left waiting for the mutex of a file.
CloseReturns == (phase = "closing") ~> (phase # "closing")
=============================================================================
