---------------------------- MODULE DiskStorage ----------------------------
(***************************************************************************)
(* One session of the disk storage: src/internal/storage/disk.go.          *)
(*                                                                         *)
(* The session lives in a file and, for some minutes, in a cache of        *)
(* pointers.  Updates hold the session's file mutex from the lookup to the *)
(* rename; readers, DeleteSession and the cleanup do not.  An update       *)
(* changes the cached struct in place and then writes it out.              *)
(*                                                                         *)
(* A session is the set of the items (messages, maskMetas, placeholders)   *)
(* saved in it.  A goroutine's struct is its own or the cached one.        *)
(***************************************************************************)
EXTENDS Integers, FiniteSets

CONSTANTS
    Procs,        \* the goroutines that use the storage
    Items,
    ExpireFiles,  \* whether a session_ttl is configured
    None          \* no operation, no process

ASSUME DiskAssumption ==
    /\ ExpireFiles \in BOOLEAN
    /\ None \notin Procs \cup Items
    /\ Items \cap {"clear", "touch", "read", "delete"} = {}

VARIABLES
    file,     \* what the session's file holds, and whether it is older than sessionTTL
    cache,    \* the struct in ds.cache, and whether its LastAccess is within cacheTTL
    fileMu,   \* the holder of the session's file mutex
    proc,     \* per goroutine: where it is, its operation and the struct it works on
    sweeper,  \* cleanupExpiredFiles: "idle", or "remove" after it found the file expired
    acked,    \* history: items whose save returned nil, and no deletion was begun since
    raced     \* history: a reader cached a struct during an update or after a later
              \* save, or a file that was just saved was removed as expired

diskVars == <<file, cache, fileMu, proc, sweeper, acked, raced>>

----------------------------------------------------------------------------
NoFile == [exists |-> FALSE, data |-> {}, old |-> FALSE]

NotCached == [exists |-> FALSE, data |-> {}, fresh |-> FALSE]

Idle == [pc |-> "idle", op |-> None, shared |-> FALSE, data |-> {}]

\* What the callers pass to updateSession: an item to save, or one of these.
\* "clear" is DeleteMessages and its kin, with items of one kind that they drop, and
\* TouchSession changes no item.
Ops == Items \cup {"clear", "touch"}

UpdatedBy(op, data) ==
    CASE op = "clear" -> {} [] op = "touch" -> data [] OTHER -> data \cup {op}

DiskInit ==
    /\ file = NoFile
    /\ cache = NotCached
    /\ fileMu = None
    /\ proc = [p \in Procs |-> Idle]
    /\ sweeper = "idle"
    /\ acked = {}
    /\ raced = FALSE

\* The contents of the struct that p has a pointer to.
Struct(p) == IF proc[p].shared THEN cache.data ELSE proc[p].data

\* The goroutines after the cache dropped its struct: who has a pointer to it keeps it.
KeptBy(q) ==
    [p \in Procs |-> IF q[p].shared THEN [q[p] EXCEPT !.shared = FALSE, !.data = cache.data]
                      ELSE q[p]]

----------------------------------------------------------------------------
(* The operations.                                                          *)

BeginRead(p) ==
    /\ proc[p].pc = "idle"
    /\ proc' = [proc EXCEPT ![p] = [Idle EXCEPT !.pc = "lookup", !.op = "read"]]
    /\ UNCHANGED <<file, cache, fileMu, sweeper, acked, raced>>

BeginUpdate(p, op) ==
    /\ proc[p].pc = "idle"
    /\ proc' = [proc EXCEPT ![p] = [Idle EXCEPT !.pc = "lock", !.op = op]]
    /\ UNCHANGED <<file, cache, fileMu, sweeper, acked, raced>>

\* Mutant of Lock: updates do not exclude each other.
LockNothing(p) ==
    /\ proc[p].pc = "lock"
    /\ fileMu' = p
    /\ proc' = [proc EXCEPT ![p].pc = "lookup"]
    /\ UNCHANGED <<file, cache, sweeper, acked, raced>>

Lock(p) ==
    /\ proc[p].pc = "lock"
    /\ fileMu = None
    /\ fileMu' = p
    /\ proc' = [proc EXCEPT ![p].pc = "lookup"]
    /\ UNCHANGED <<file, cache, sweeper, acked, raced>>

\* An operation that has the cached struct: an update goes on, a read ends. What
\* the reader then copies out of it is in no property here; Go may stop the
\* program when an update changes the same map meanwhile, which is a Restart.
WithCached(p) ==
    IF proc[p].op = "read" THEN Idle
    ELSE [pc |-> "apply", op |-> proc[p].op, shared |-> TRUE, data |-> {}]

\* getOrLoadSession under the cache's read lock.
LookUp(p) ==
    /\ proc[p].pc = "lookup"
    /\ proc' = [proc EXCEPT ![p] = IF cache.fresh THEN WithCached(p) ELSE [@ EXCEPT !.pc = "load"]]
    /\ UNCHANGED <<file, cache, fileMu, sweeper, acked, raced>>

\* ... without a lock: loadSession reads the file into a new struct. Without a
\* file a read ends with errSessionNotFound, an update goes on with a new
\* session, which it does not cache. Any other error ends both.
Load(p) ==
    /\ proc[p].pc = "load"
    /\ \/ /\ proc' = [proc EXCEPT ![p] =
                         IF file.exists THEN [@ EXCEPT !.pc = "fill", !.data = file.data]
                         ELSE IF @.op = "read" THEN Idle
                         ELSE [@ EXCEPT !.pc = "apply"]]
          /\ UNCHANGED fileMu
       \/ /\ proc' = [proc EXCEPT ![p] = Idle]
          /\ fileMu' = IF fileMu = p THEN None ELSE fileMu
    /\ UNCHANGED <<file, cache, sweeper, acked, raced>>

\* ... under the cache's lock: the new struct replaces the cached one.
Fill(p) ==
    /\ proc[p].pc = "fill"
    /\ cache' = [exists |-> TRUE, data |-> proc[p].data, fresh |-> TRUE]
    /\ proc' = [KeptBy(proc) EXCEPT ![p] = WithCached(p)]
    /\ raced' = \/ raced
                \/ /\ proc[p].op = "read"
                   /\ fileMu # None \/ proc[p].data # file.data
    /\ UNCHANGED <<file, fileMu, sweeper, acked>>

\* Mutant of Apply: works on a copy that is not put into the cache.
ApplyToCopy(p) ==
    /\ proc[p].pc = "apply"
    /\ proc' = [proc EXCEPT ![p] = [pc |-> "save", op |-> @.op, shared |-> FALSE,
                                    data |-> UpdatedBy(@.op, Struct(p))]]
    /\ acked' = IF proc[p].op = "clear" THEN {} ELSE acked
    /\ UNCHANGED <<file, cache, fileMu, sweeper, raced>>

\* updateFn changes the struct, the cached one in place, and its LastAccess.
Apply(p) ==
    LET data == UpdatedBy(proc[p].op, Struct(p)) IN
    /\ proc[p].pc = "apply"
    /\ IF proc[p].shared
       THEN /\ cache' = [exists |-> TRUE, data |-> data, fresh |-> TRUE]
            /\ proc' = [proc EXCEPT ![p].pc = "save"]
       ELSE /\ proc' = [proc EXCEPT ![p].pc = "save", ![p].data = data]
            /\ UNCHANGED cache
    /\ acked' = IF proc[p].op = "clear" THEN {} ELSE acked
    /\ UNCHANGED <<file, fileMu, sweeper, raced>>

\* Mutant of Save: the mutex stays locked when the file cannot be written.
SaveOrHang(p) ==
    /\ proc[p].pc = "save"
    /\ \/ /\ file' = [exists |-> TRUE, data |-> Struct(p), old |-> FALSE]
          /\ acked' = acked \cup ({proc[p].op} \cap Items)
          /\ fileMu' = None
       \/ UNCHANGED <<file, acked, fileMu>>
    /\ proc' = [proc EXCEPT ![p] = Idle]
    /\ UNCHANGED <<cache, sweeper, raced>>

\* saveSession writes the struct to a temporary file and renames it, or fails: the
\* struct keeps the change. Either way the mutex is unlocked.
Save(p) ==
    /\ proc[p].pc = "save"
    /\ \/ /\ file' = [exists |-> TRUE, data |-> Struct(p), old |-> FALSE]
          /\ acked' = acked \cup ({proc[p].op} \cap Items)
       \/ UNCHANGED <<file, acked>>
    /\ fileMu' = None
    /\ proc' = [proc EXCEPT ![p] = Idle]
    /\ UNCHANGED <<cache, sweeper, raced>>

\* DeleteSession: the file first, without its mutex ...
BeginDelete(p) ==
    /\ proc[p].pc = "idle"
    /\ file' = NoFile
    /\ acked' = {}
    /\ proc' = [proc EXCEPT ![p] = [Idle EXCEPT !.pc = "uncache", !.op = "delete"]]
    /\ UNCHANGED <<cache, fileMu, sweeper, raced>>

\* ... then the entry in the cache.
Uncache(p) ==
    /\ proc[p].pc = "uncache"
    /\ cache' = NotCached
    /\ proc' = [KeptBy(proc) EXCEPT ![p] = Idle]
    /\ UNCHANGED <<file, fileMu, sweeper, acked, raced>>

----------------------------------------------------------------------------
(* The background and time.                                                 *)

\* cacheTTL after its last use a cached struct is not used any more.
CacheExpires ==
    /\ cache.fresh
    /\ cache' = [cache EXCEPT !.fresh = FALSE]
    /\ UNCHANGED <<file, fileMu, proc, sweeper, acked, raced>>

CleanCache ==
    /\ cache.exists /\ ~ cache.fresh
    /\ cache' = NotCached
    /\ proc' = KeptBy(proc)
    /\ UNCHANGED <<file, fileMu, sweeper, acked, raced>>

FileExpires ==
    /\ ExpireFiles
    /\ file.exists /\ ~ file.old
    /\ file' = [file EXCEPT !.old = TRUE]
    /\ UNCHANGED <<cache, fileMu, proc, sweeper, acked, raced>>

\* cleanupExpiredFiles reads the time of the last change ...
SweepCheck ==
    /\ sweeper = "idle"
    /\ file.old
    /\ sweeper' = "remove"
    /\ UNCHANGED <<file, cache, fileMu, proc, acked, raced>>

\* ... and removes the file.
SweepRemove ==
    /\ sweeper = "remove"
    /\ sweeper' = "idle"
    /\ file' = NoFile
    /\ raced' = (raced \/ (file.exists /\ ~ file.old))
    /\ acked' = IF file.old THEN {} ELSE acked
    /\ UNCHANGED <<cache, fileMu, proc>>

\* The process ends at any point and starts again; the rename is atomic. At its
\* start it removes the file if that is expired, before anyone uses it.
Restart ==
    /\ file' = IF file.old THEN NoFile ELSE file
    /\ acked' = IF file.old THEN {} ELSE acked
    /\ cache' = NotCached
    /\ fileMu' = None
    /\ proc' = [p \in Procs |-> Idle]
    /\ sweeper' = "idle"
    /\ UNCHANGED raced

Step(p) == Lock(p) \/ LookUp(p) \/ Load(p) \/ Fill(p) \/ Apply(p) \/ Save(p) \/ Uncache(p)

DiskNext ==
    \/ \E p \in Procs :
          Step(p) \/ BeginRead(p) \/ BeginDelete(p) \/ \E op \in Ops : BeginUpdate(p, op)
    \/ CacheExpires \/ CleanCache \/ FileExpires \/ SweepCheck \/ SweepRemove \/ Restart

DiskSpec == DiskInit /\ [][DiskNext]_diskVars

\* Go runs every goroutine that can go on, and a sync.Mutex passes to those who
\* wait for it.
FairDiskSpec ==
    DiskSpec /\ \A p \in Procs : WF_diskVars(Step(p)) /\ SF_diskVars(Lock(p))

----------------------------------------------------------------------------
\* Every variable has its type, and only the holder of the mutex is between Lock
\* and the end of its update.
DiskTypeOK ==
    /\ file \in [exists : BOOLEAN, data : SUBSET Items, old : BOOLEAN]
    /\ cache \in [exists : BOOLEAN, data : SUBSET Items, fresh : BOOLEAN]
    /\ fileMu \in Procs \cup {None}
    /\ proc \in [Procs -> [pc     : {"idle", "lock", "lookup", "load", "fill", "apply", "save",
                                     "uncache"},
                           op     : Ops \cup {"read", "delete", None},
                           shared : BOOLEAN,
                           data   : SUBSET Items]]
    /\ sweeper \in {"idle", "remove"}
    /\ acked \subseteq Items
    /\ raced \in BOOLEAN
    /\ \A p \in Procs : proc[p].pc \in {"apply", "save"} => fileMu = p

\* What was saved stays saved: whatever is saved, read, deleted, evicted from the
\* cache or interrupted by a restart, an item whose save returned without an error
\* is in the file until a deletion is begun or the file expires. Only two races of
\* those who do not take the mutex lose it: a reader puts its struct into the cache
\* during an update or after a later save, or the cleanup removes a file that was
\* saved after its check.
LostOnlyByRaces == acked \subseteq file.data \/ raced

\* Readers are not behind: a cached struct that is still used has every item whose
\* save returned, with the same exception.
CacheHasAcked ==
    cache.fresh => acked \subseteq cache.data \/ raced

\* An operation ends, also when others wait for the same mutex and when the file
\* cannot be written.
OperationsEnd == \A p \in Procs : (proc[p].pc # "idle") ~> (proc[p].pc = "idle")

\* docs-en/DESIGN.md: the disk storage is for those who need persistence. What was
\* saved and not deleted is in the file.
Persists == acked \subseteq file.data

=============================================================================
