-------------------------- MODULE DiskStorageProofs --------------------------
(***************************************************************************)
(* Proofs about DiskStorage, for any number of goroutines and items: its   *)
(* type invariant, and that saved items are lost, and missing in the       *)
(* cache, only after one of the two races.                                 *)
(***************************************************************************)
EXTENDS DiskStorage, TLAPS

USE DiskAssumption

----------------------------------------------------------------------------
(* The inductive invariant.                                                *)

Pcs == {"idle", "lock", "lookup", "load", "fill", "apply", "save", "uncache"}

Goroutine == [pc : Pcs, op : Ops \cup {"read", "delete", None}, shared : BOOLEAN, data : SUBSET Items]

Types ==
    /\ file \in [exists : BOOLEAN, data : SUBSET Items, old : BOOLEAN]
    /\ cache \in [exists : BOOLEAN, data : SUBSET Items, fresh : BOOLEAN]
    /\ fileMu \in Procs \cup {None}
    /\ proc \in [Procs -> Goroutine]
    /\ sweeper \in {"idle", "remove"}
    /\ acked \subseteq Items
    /\ raced \in BOOLEAN

\* p is in an update and past Lock.
Updating(p) ==
    /\ proc[p].pc \in {"lookup", "load", "fill", "apply", "save"}
    /\ proc[p].op # "read"

\* Only the holder of the mutex updates, and only an update works on the cached struct
\* or on one to save.
Shape ==
    /\ \A p \in Procs : Updating(p) => fileMu = p /\ proc[p].op \in Ops
    /\ \A p \in Procs : proc[p].pc = "lock" => proc[p].op \in Ops
    /\ \A p \in Procs : proc[p].pc \in {"apply", "save"} => proc[p].op # "read"
    /\ \A p \in Procs : proc[p].shared => proc[p].pc \in {"apply", "save"}
    /\ ~ file.exists => file.data = {}

\* An update has all that was saved, and its item when it is about to save.
UpdateHasAcked(p) ==
    /\ Updating(p) /\ proc[p].pc \in {"fill", "apply", "save"} => acked \subseteq Struct(p)
    /\ proc[p].pc = "save" /\ proc[p].op \in Items => proc[p].op \in Struct(p)

\* The cached struct is not used while an update works on another one.
OneStruct(p) ==
    Updating(p) /\ proc[p].pc \in {"load", "fill", "apply", "save"} /\ ~ proc[p].shared => ~ cache.fresh

Safe ==
    /\ acked \subseteq file.data
    /\ cache.fresh => acked \subseteq cache.data
    /\ \A p \in Procs : UpdateHasAcked(p) /\ OneStruct(p)

DiskInv == Types /\ Shape /\ (raced \/ Safe)

----------------------------------------------------------------------------
\* The structs of goroutines.
LEMMA IdleGoroutine ==
    /\ Idle \in Goroutine
    /\ Idle.pc = "idle" /\ Idle.op = None /\ Idle.shared = FALSE /\ Idle.data = {}
<1> QED
    BY DEF Idle, Goroutine, Pcs

LEMMA StructType ==
    ASSUME Types, NEW p \in Procs
    PROVE  Struct(p) \in SUBSET Items
<1> QED
    BY DEF Types, Struct, Goroutine

LEMMA UpdatedType ==
    ASSUME NEW op \in Ops, NEW data \in SUBSET Items
    PROVE  /\ UpdatedBy(op, data) \in SUBSET Items
           /\ op \in Items => UpdatedBy(op, data) = data \cup {op}
           /\ op # "clear" => data \subseteq UpdatedBy(op, data)
<1> QED
    BY DEF Ops, UpdatedBy

\* One goroutine goes on.
LEMMA GoesOn ==
    ASSUME Types, NEW p \in Procs, NEW r \in Goroutine, proc' = [proc EXCEPT ![p] = r]
    PROVE  /\ proc' \in [Procs -> Goroutine]
           /\ proc'[p] = r
           /\ \A q \in Procs \ {p} : proc'[q] = proc[q]
<1> QED
    BY DEF Types

\* Who has a pointer to the struct that the cache drops keeps it.
LEMMA KeptType ==
    ASSUME Types
    PROVE  KeptBy(proc) \in [Procs -> Goroutine]
<1>1. \A q \in Procs : proc[q] \in Goroutine /\ cache.data \in SUBSET Items
    BY DEF Types
<1>2. \A q \in Procs : [proc[q] EXCEPT !.shared = FALSE, !.data = cache.data] \in Goroutine
    BY <1>1 DEF Goroutine
<1> QED
    BY <1>1, <1>2 DEF KeptBy

LEMMA KeptIs ==
    ASSUME Types, NEW p \in Procs
    PROVE  /\ KeptBy(proc)[p].pc = proc[p].pc
           /\ KeptBy(proc)[p].op = proc[p].op
           /\ KeptBy(proc)[p].shared = FALSE
           /\ KeptBy(proc)[p].data = Struct(p)
<1>1. \A q \in Procs : proc[q] \in Goroutine /\ cache.data \in SUBSET Items
    BY DEF Types
<1>2. CASE proc[p].shared
    BY <1>1, <1>2 DEF KeptBy, Struct, Goroutine
<1>3. CASE ~ proc[p].shared
    BY <1>1, <1>3 DEF KeptBy, Struct, Goroutine
<1> QED
    BY <1>2, <1>3

\* A goroutine that is not in an update goes somewhere where it is not either, and
\* nothing else changes.
LEMMA Bystander ==
    ASSUME DiskInv, NEW p \in Procs, NEW r \in Goroutine, proc' = [proc EXCEPT ![p] = r],
           r.pc \notin {"apply", "save"}, r.shared = FALSE,
           r.pc \in {"lookup", "load", "fill"} => r.op = "read",
           r.pc = "lock" => r.op \in Ops,
           UNCHANGED <<file, cache, sweeper, acked, raced>>,
           fileMu' \in Procs \cup {None},
           \A q \in Procs \ {p} : Updating(q) => fileMu' = q
    PROVE  DiskInv'
<1>1. Types /\ Shape
    BY DEF DiskInv
<1>2. /\ proc' \in [Procs -> Goroutine]
      /\ proc'[p] = r
      /\ \A q \in Procs \ {p} : proc'[q] = proc[q]
    BY <1>1, GoesOn
<1>3. Types'
    BY <1>1, <1>2 DEF Types
<1>4. Shape'
    BY <1>1, <1>2 DEF Shape, Updating
<1>5. Safe => Safe'
    BY <1>2 DEF Safe, UpdateHasAcked, OneStruct, Updating, Struct
<1> QED
    BY <1>3, <1>4, <1>5 DEF DiskInv

----------------------------------------------------------------------------
(* The operations.                                                         *)

LEMMA OperationBegins ==
    ASSUME DiskInv, NEW p \in Procs, BeginRead(p) \/ \E op \in Ops : BeginUpdate(p, op)
    PROVE  DiskInv'
<1>1. Types /\ Shape
    BY DEF DiskInv
<1>2. CASE BeginRead(p)
  <2> DEFINE r == [Idle EXCEPT !.pc = "lookup", !.op = "read"]
  <2>1. r \in Goroutine /\ r.pc = "lookup" /\ r.op = "read" /\ r.shared = FALSE
      BY IdleGoroutine DEF Goroutine, Pcs
  <2>2. proc' = [proc EXCEPT ![p] = r] /\ UNCHANGED <<file, cache, fileMu, sweeper, acked, raced>>
      BY <1>2 DEF BeginRead
  <2> QED
      BY <1>1, <2>1, <2>2, Bystander DEF Types, Shape
<1>3. ASSUME NEW op \in Ops, BeginUpdate(p, op) PROVE DiskInv'
  <2> DEFINE r == [Idle EXCEPT !.pc = "lock", !.op = op]
  <2>1. r \in Goroutine /\ r.pc = "lock" /\ r.op = op /\ r.shared = FALSE
      BY IdleGoroutine DEF Goroutine, Pcs
  <2>2. proc' = [proc EXCEPT ![p] = r] /\ UNCHANGED <<file, cache, fileMu, sweeper, acked, raced>>
      BY <1>3 DEF BeginUpdate
  <2> HIDE DEF r
  <2> QED
      BY <1>1, <2>1, <2>2, Bystander DEF Types, Shape
<1> QED
    BY <1>2, <1>3

LEMMA Locks ==
    ASSUME DiskInv, NEW p \in Procs, Lock(p)
    PROVE  DiskInv'
<1> DEFINE r == [proc[p] EXCEPT !.pc = "lookup"]
<1>1. Types /\ Shape
    BY DEF DiskInv
<1>2. proc[p] \in Goroutine /\ proc[p].pc = "lock" /\ proc[p].op \in Ops /\ proc[p].shared = FALSE
    BY <1>1 DEF Types, Shape, Lock, Goroutine
<1>3. r \in Goroutine /\ r.pc = "lookup" /\ r.op \in Ops /\ r.shared = FALSE
    BY <1>2 DEF Goroutine, Pcs
<1>4. proc' = [proc EXCEPT ![p] = r] /\ UNCHANGED <<file, cache, sweeper, acked, raced>>
      /\ fileMu = None /\ fileMu' = p
    BY DEF Lock
<1> HIDE DEF r
<1>5. /\ proc' \in [Procs -> Goroutine]
      /\ proc'[p] = r
      /\ \A q \in Procs \ {p} : proc'[q] = proc[q]
    BY <1>1, <1>3, <1>4, GoesOn
<1>6. \A q \in Procs : ~ Updating(q)
    BY <1>1, <1>4 DEF Shape
<1>7. Types'
    BY <1>1, <1>4, <1>5 DEF Types
<1>8. Shape'
    BY <1>1, <1>3, <1>4, <1>5, <1>6 DEF Shape, Updating
<1>9. Safe => Safe'
    BY <1>3, <1>4, <1>5 DEF Safe, UpdateHasAcked, OneStruct, Updating, Struct
<1> QED
    BY <1>4, <1>7, <1>8, <1>9 DEF DiskInv

\* A goroutine that has the cached struct.
LEMMA Cached ==
    ASSUME Types, NEW p \in Procs
    PROVE  /\ WithCached(p) \in Goroutine
           /\ proc[p].op = "read" => WithCached(p) = Idle
           /\ proc[p].op # "read" =>
                 /\ WithCached(p).pc = "apply" /\ WithCached(p).op = proc[p].op
                 /\ WithCached(p).shared = TRUE
<1>1. proc[p].op \in Ops \cup {"read", "delete", None}
    BY DEF Types, Goroutine
<1>2. [pc |-> "apply", op |-> proc[p].op, shared |-> TRUE, data |-> {}] \in Goroutine
    BY <1>1 DEF Goroutine, Pcs
<1> QED
    BY <1>2, IdleGoroutine DEF WithCached

\* A goroutine goes on with its update without a change of the files, the cache or
\* the mutex.
LEMMA UpdateGoesOn ==
    ASSUME DiskInv, NEW p \in Procs, NEW r \in Goroutine, Updating(p),
           proc' = [proc EXCEPT ![p] = r],
           UNCHANGED <<file, cache, fileMu, sweeper, acked, raced>>,
           r.pc \in {"load", "fill", "apply"}, r.op = proc[p].op,
           r.shared => r.pc = "apply" /\ cache.fresh,
           ~ raced => (r.pc \in {"fill", "apply"} /\ ~ r.shared => acked \subseteq r.data),
           ~ raced => (~ r.shared => ~ cache.fresh)
    PROVE  DiskInv'
<1>1. Types /\ Shape /\ fileMu = p /\ proc[p].op \in Ops /\ proc[p].op # "read"
    BY DEF DiskInv, Shape, Updating
<1>2. /\ proc' \in [Procs -> Goroutine]
      /\ proc'[p] = r
      /\ \A q \in Procs \ {p} : proc'[q] = proc[q]
    BY <1>1, GoesOn
<1>3. Types'
    BY <1>1, <1>2 DEF Types
<1>4. Shape'
    BY <1>1, <1>2 DEF Shape, Updating
<1>5. ASSUME Safe, ~ raced PROVE Safe'
  <2>1. UpdateHasAcked(p)' /\ OneStruct(p)'
    <3>1. Struct(p)' = IF r.shared THEN cache.data ELSE r.data
        BY <1>2 DEF Struct
    <3> QED
        BY <1>2, <1>5, <3>1 DEF Safe, UpdateHasAcked, OneStruct, Updating
  <2>2. \A q \in Procs \ {p} : UpdateHasAcked(q)' /\ OneStruct(q)'
      BY <1>2, <1>5 DEF Safe, UpdateHasAcked, OneStruct, Updating, Struct
  <2> QED
      BY <1>5, <2>1, <2>2 DEF Safe
<1> QED
    BY <1>3, <1>4, <1>5 DEF DiskInv

LEMMA LooksUp ==
    ASSUME DiskInv, NEW p \in Procs, LookUp(p)
    PROVE  DiskInv'
<1>1. Types /\ Shape /\ proc[p] \in Goroutine /\ proc[p].pc = "lookup" /\ proc[p].shared = FALSE
    BY DEF DiskInv, Types, Shape, LookUp, Goroutine
<1>2. UNCHANGED <<file, cache, fileMu, sweeper, acked, raced>>
    BY DEF LookUp
<1>3. CASE cache.fresh
  <2>1. proc' = [proc EXCEPT ![p] = WithCached(p)]
      BY <1>3 DEF LookUp
  <2>2. CASE proc[p].op = "read"
      BY <1>1, <1>2, <2>1, <2>2, Cached, IdleGoroutine, Bystander, ZenonT(30) DEF Types, Shape
  <2>3. CASE proc[p].op # "read"
    <3>1. Updating(p)
        BY <1>1, <2>3 DEF Updating
    <3> QED
        BY <1>1, <1>2, <1>3, <2>1, <2>3, <3>1, Cached, UpdateGoesOn
  <2> QED
      BY <2>2, <2>3
<1>4. CASE ~ cache.fresh
  <2> DEFINE r == [proc[p] EXCEPT !.pc = "load"]
  <2>1. r \in Goroutine /\ r.pc = "load" /\ r.op = proc[p].op /\ r.shared = FALSE
      BY <1>1 DEF Goroutine, Pcs
  <2>2. proc' = [proc EXCEPT ![p] = r]
      BY <1>1, <1>4 DEF LookUp, Types
  <2> HIDE DEF r
  <2>3. CASE proc[p].op = "read"
      BY <1>1, <1>2, <2>1, <2>2, <2>3, Bystander DEF Types, Shape
  <2>4. CASE proc[p].op # "read"
    <3>1. Updating(p)
        BY <1>1, <2>4 DEF Updating
    <3> QED
        BY <1>1, <1>2, <1>4, <2>1, <2>2, <3>1, UpdateGoesOn
  <2> QED
      BY <2>3, <2>4
<1> QED
    BY <1>3, <1>4

\* An operation ends and leaves the mutex, if it has it.
LEMMA Ends ==
    ASSUME DiskInv, NEW p \in Procs, proc' = [proc EXCEPT ![p] = Idle],
           fileMu' = (IF fileMu = p THEN None ELSE fileMu),
           UNCHANGED <<file, cache, sweeper, acked, raced>>
    PROVE  DiskInv'
<1>1. fileMu' \in Procs \cup {None} /\ \A q \in Procs \ {p} : Updating(q) => fileMu' = q
    BY DEF DiskInv, Types, Shape
<1> QED
    BY <1>1, IdleGoroutine, Bystander

LEMMA Loads ==
    ASSUME DiskInv, NEW p \in Procs, Load(p)
    PROVE  DiskInv'
<1>1. Types /\ Shape /\ proc[p] \in Goroutine /\ proc[p].pc = "load" /\ proc[p].shared = FALSE
    BY DEF DiskInv, Types, Shape, Load, Goroutine
<1>2. UNCHANGED <<file, cache, sweeper, acked, raced>>
    BY DEF Load
<1>3. CASE proc' = [proc EXCEPT ![p] = Idle] /\ fileMu' = IF fileMu = p THEN None ELSE fileMu
    BY <1>2, <1>3, Ends
<1>4. CASE fileMu' = fileMu /\ file.exists
             /\ proc' = [proc EXCEPT ![p] = [@ EXCEPT !.pc = "fill", !.data = file.data]]
  <2> DEFINE r == [proc[p] EXCEPT !.pc = "fill", !.data = file.data]
  <2>1. /\ r \in Goroutine /\ r.pc = "fill" /\ r.op = proc[p].op /\ r.shared = FALSE
        /\ r.data = file.data
      BY <1>1 DEF Goroutine, Pcs, Types
  <2>2. proc' = [proc EXCEPT ![p] = r]
      BY <1>1, <1>4 DEF Types
  <2> HIDE DEF r
  <2>3. CASE proc[p].op = "read"
    <3>1. fileMu' \in Procs \cup {None} /\ \A q \in Procs \ {p} : Updating(q) => fileMu' = q
        BY <1>1, <1>4 DEF Types, Shape
    <3>2. r.pc \notin {"apply", "save"} /\ r.pc # "lock" /\ r.op = "read"
        BY <2>1, <2>3
    <3> QED
        BY <1>2, <2>1, <2>2, <3>1, <3>2, Bystander
  <2>4. CASE proc[p].op # "read"
    <3>1. Updating(p)
        BY <1>1, <2>4 DEF Updating
    <3>2. ~ raced => acked \subseteq r.data /\ ~ cache.fresh
        BY <1>1, <2>1, <3>1 DEF DiskInv, Safe, OneStruct
    <3> QED
        BY <1>2, <1>4, <2>1, <2>2, <3>1, <3>2, UpdateGoesOn
  <2> QED
      BY <2>3, <2>4
<1>5. CASE fileMu' = fileMu /\ ~ file.exists /\ proc[p].op # "read"
             /\ proc' = [proc EXCEPT ![p] = [@ EXCEPT !.pc = "apply"]]
  <2> DEFINE r == [proc[p] EXCEPT !.pc = "apply"]
  <2>1. r \in Goroutine /\ r.pc = "apply" /\ r.op = proc[p].op /\ r.shared = FALSE
      BY <1>1 DEF Goroutine, Pcs
  <2>2. proc' = [proc EXCEPT ![p] = r]
      BY <1>1, <1>5 DEF Types
  <2> HIDE DEF r
  <2>3. Updating(p)
      BY <1>1, <1>5 DEF Updating
  <2>4. ~ raced => acked \subseteq r.data /\ ~ cache.fresh
      BY <1>1, <1>5, <2>3 DEF DiskInv, Safe, OneStruct, Shape
  <2> QED
      BY <1>2, <1>5, <2>1, <2>2, <2>3, <2>4, UpdateGoesOn
<1>6. CASE fileMu' = fileMu /\ proc' = [proc EXCEPT ![p] = Idle] /\ proc[p].op = "read"
    BY <1>1, <1>2, <1>6, IdleGoroutine, Bystander DEF Types, Shape
<1> QED
    BY <1>3, <1>4, <1>5, <1>6 DEF Load

LEMMA Fills ==
    ASSUME DiskInv, NEW p \in Procs, Fill(p)
    PROVE  DiskInv'
<1>1. Types /\ Shape /\ proc[p] \in Goroutine /\ proc[p].pc = "fill" /\ proc[p].shared = FALSE
    BY DEF DiskInv, Types, Shape, Fill, Goroutine
<1>2. /\ cache' = [exists |-> TRUE, data |-> proc[p].data, fresh |-> TRUE]
      /\ proc' = [KeptBy(proc) EXCEPT ![p] = WithCached(p)]
      /\ file' = file /\ fileMu' = fileMu /\ sweeper' = sweeper /\ acked' = acked
    BY DEF Fill
<1>3. /\ cache' \in [exists : BOOLEAN, data : SUBSET Items, fresh : BOOLEAN]
      /\ cache'.fresh = TRUE /\ cache'.data = proc[p].data
    BY <1>1, <1>2 DEF Goroutine
<1>4. /\ proc' \in [Procs -> Goroutine] /\ proc'[p] = WithCached(p)
      /\ \A q \in Procs \ {p} : proc'[q] = KeptBy(proc)[q]
    BY <1>1, <1>2, KeptType, Cached
<1>5. \A q \in Procs \ {p} : /\ proc'[q].pc = proc[q].pc /\ proc'[q].op = proc[q].op
                             /\ proc'[q].shared = FALSE /\ proc'[q].data = Struct(q)
    BY <1>1, <1>4, KeptIs
<1>6. \A q \in Procs \ {p} : Struct(q)' = Struct(q) /\ (Updating(q)' <=> Updating(q))
    BY <1>5 DEF Struct, Updating
<1>7. raced' \in BOOLEAN /\ (raced => raced')
    BY <1>1 DEF Fill, Types
<1>8. Types'
    BY <1>1, <1>2, <1>3, <1>4, <1>7 DEF Types
<1>9. CASE proc[p].op = "read"
  <2>1. proc'[p] = Idle /\ ~ Updating(p)'
      BY <1>1, <1>4, <1>9, Cached, IdleGoroutine DEF Updating
  <2>2. Shape'
      BY <1>1, <1>2, <1>5, <1>6, <2>1, IdleGoroutine DEF Shape
  <2>3. ASSUME ~ raced' PROVE Safe'
    <3>1. fileMu = None /\ proc[p].data = file.data /\ Safe
        BY <1>7, <1>9, <2>3 DEF Fill, DiskInv
    <3>2. \A q \in Procs \ {p} : ~ Updating(q)
        BY <1>1, <3>1 DEF Shape
    <3>3. \A q \in Procs : UpdateHasAcked(q)' /\ OneStruct(q)'
        BY <1>1, <1>5, <1>6, <2>1, <3>2, IdleGoroutine DEF UpdateHasAcked, OneStruct, Shape, Updating
    <3>4. acked' \subseteq file'.data /\ acked' \subseteq cache'.data
        BY <1>2, <1>3, <3>1 DEF Safe
    <3> QED
        BY <3>3, <3>4 DEF Safe
  <2> QED
      BY <1>7, <1>8, <2>2, <2>3 DEF DiskInv, Types
<1>10. CASE proc[p].op # "read"
  <2>1. Updating(p) /\ fileMu = p /\ proc[p].op \in Ops
      BY <1>1, <1>10 DEF Updating, Shape
  <2>2. proc'[p].pc = "apply" /\ proc'[p].op = proc[p].op /\ proc'[p].shared = TRUE
      BY <1>1, <1>4, <1>10, Cached
  <2>3. Shape'
      BY <1>1, <1>2, <1>5, <1>6, <1>10, <2>1, <2>2 DEF Shape
  <2>4. ASSUME ~ raced' PROVE Safe'
    <3>1. Safe /\ acked \subseteq Struct(p)
        BY <1>1, <1>7, <2>1, <2>4 DEF DiskInv, Safe, UpdateHasAcked
    <3>2. acked \subseteq proc[p].data
        BY <1>1, <3>1 DEF Struct
    <3>3. Struct(p)' = proc[p].data
        BY <1>3, <2>2 DEF Struct
    <3>4. UpdateHasAcked(p)' /\ OneStruct(p)'
        BY <1>2, <2>2, <3>2, <3>3 DEF UpdateHasAcked, OneStruct
    <3>5. \A q \in Procs \ {p} : ~ Updating(q)
        BY <1>1, <2>1 DEF Shape
    <3>6. \A q \in Procs \ {p} : UpdateHasAcked(q)' /\ OneStruct(q)'
        BY <1>1, <1>5, <1>6, <3>5 DEF UpdateHasAcked, OneStruct, Shape, Updating
    <3>7. acked' \subseteq file'.data /\ acked' \subseteq cache'.data
        BY <1>2, <1>3, <3>1, <3>2 DEF Safe
    <3> QED
        BY <3>4, <3>6, <3>7 DEF Safe
  <2> QED
      BY <1>8, <2>3, <2>4 DEF DiskInv, Types
<1> QED
    BY <1>9, <1>10

\* What an update is about to write, and where.
LEMMA InUpdate ==
    ASSUME DiskInv, NEW p \in Procs, proc[p].pc \in {"apply", "save"}
    PROVE  /\ Types /\ Shape /\ proc[p] \in Goroutine
           /\ Updating(p) /\ fileMu = p /\ proc[p].op \in Ops
           /\ Struct(p) \in SUBSET Items
           /\ \A q \in Procs \ {p} : ~ Updating(q) /\ ~ proc[q].shared
                                      /\ proc[q].pc \notin {"apply", "save"}
<1>1. Types /\ Shape /\ proc[p] \in Goroutine
    BY DEF DiskInv, Types
<1>2. Updating(p) /\ fileMu = p /\ proc[p].op \in Ops
    BY <1>1 DEF Updating, Shape
<1>3. \A q \in Procs \ {p} : ~ Updating(q)
    BY <1>1, <1>2 DEF Shape
<1>4. \A q \in Procs \ {p} : proc[q].pc \notin {"apply", "save"}
    BY <1>1, <1>3 DEF Shape, Updating
<1>5. \A q \in Procs \ {p} : ~ proc[q].shared
    BY <1>1, <1>4 DEF Shape
<1> QED
    BY <1>1, <1>2, <1>3, <1>4, <1>5, StructType

LEMMA Applies ==
    ASSUME DiskInv, NEW p \in Procs, Apply(p)
    PROVE  DiskInv'
<1> DEFINE data == UpdatedBy(proc[p].op, Struct(p))
<1>1. proc[p].pc = "apply" /\ file' = file /\ fileMu' = fileMu /\ sweeper' = sweeper /\ raced' = raced
    BY DEF Apply
<1>2. /\ Types /\ Shape /\ proc[p] \in Goroutine
      /\ Updating(p) /\ fileMu = p /\ proc[p].op \in Ops
      /\ Struct(p) \in SUBSET Items
      /\ \A q \in Procs \ {p} : ~ Updating(q) /\ ~ proc[q].shared
                                 /\ proc[q].pc \notin {"apply", "save"}
    BY <1>1, InUpdate
<1>3. /\ data \in SUBSET Items
      /\ proc[p].op \in Items => proc[p].op \in data
      /\ proc[p].op # "clear" => Struct(p) \subseteq data
    BY <1>2, UpdatedType
<1>4. acked' = (IF proc[p].op = "clear" THEN {} ELSE acked)
    BY DEF Apply
<1>5. ~ raced => acked' \subseteq data /\ acked' \subseteq file'.data
    BY <1>1, <1>2, <1>3, <1>4 DEF DiskInv, Safe, UpdateHasAcked
<1>6. ~ raced /\ ~ proc[p].shared => ~ cache.fresh
    BY <1>1, <1>2 DEF DiskInv, Safe, OneStruct
<1>7. \E r \in Goroutine :
          /\ proc' = [proc EXCEPT ![p] = r]
          /\ r.pc = "save" /\ r.op = proc[p].op /\ r.shared = proc[p].shared
          /\ ~ r.shared => r.data = data /\ cache' = cache
          /\ r.shared => cache' = [exists |-> TRUE, data |-> data, fresh |-> TRUE]
  <2> HIDE DEF data
  <2>1. CASE proc[p].shared
    <3> DEFINE r == [proc[p] EXCEPT !.pc = "save"]
    <3>1. r \in Goroutine /\ r.pc = "save" /\ r.op = proc[p].op /\ r.shared = proc[p].shared
        BY <1>2 DEF Goroutine, Pcs
    <3>2. proc' = [proc EXCEPT ![p] = r] /\ cache' = [exists |-> TRUE, data |-> data, fresh |-> TRUE]
        BY <2>1 DEF Apply, data
    <3> HIDE DEF r
    <3> QED
        BY <2>1, <3>1, <3>2
  <2>2. CASE ~ proc[p].shared
    <3> DEFINE r == [proc[p] EXCEPT !.pc = "save", !.data = data]
    <3>1. /\ r \in Goroutine /\ r.pc = "save" /\ r.op = proc[p].op /\ r.shared = proc[p].shared
          /\ r.data = data
        BY <1>2, <1>3 DEF Goroutine, Pcs
    <3>2. proc' = [proc EXCEPT ![p] = r] /\ cache' = cache
        BY <1>2, <2>2 DEF Apply, data, Types
    <3> HIDE DEF r
    <3> QED
        BY <2>2, <3>1, <3>2
  <2> QED
      BY <2>1, <2>2
<1>8. PICK r \in Goroutine :
          /\ proc' = [proc EXCEPT ![p] = r]
          /\ r.pc = "save" /\ r.op = proc[p].op /\ r.shared = proc[p].shared
          /\ ~ r.shared => r.data = data /\ cache' = cache
          /\ r.shared => cache' = [exists |-> TRUE, data |-> data, fresh |-> TRUE]
    BY <1>7
<1> HIDE DEF data
<1>9. proc' \in [Procs -> Goroutine] /\ proc'[p] = r /\ \A q \in Procs \ {p} : proc'[q] = proc[q]
    BY <1>2, <1>8, GoesOn
<1>10. cache' \in [exists : BOOLEAN, data : SUBSET Items, fresh : BOOLEAN]
  <2>1. [exists |-> TRUE, data |-> data, fresh |-> TRUE]
            \in [exists : BOOLEAN, data : SUBSET Items, fresh : BOOLEAN]
      BY <1>3
  <2>2. cache \in [exists : BOOLEAN, data : SUBSET Items, fresh : BOOLEAN]
      BY <1>2 DEF Types
  <2> QED
      BY <1>8, <2>1, <2>2
<1>11. Types'
    BY <1>1, <1>2, <1>4, <1>9, <1>10 DEF Types
<1>12. Shape'
    BY <1>1, <1>2, <1>8, <1>9 DEF Shape, Updating
<1>13. ASSUME ~ raced PROVE Safe'
  <2>1. Struct(p)' = data
      BY <1>8, <1>9 DEF Struct
  <2>2. UpdateHasAcked(p)' /\ OneStruct(p)'
    <3>1. UpdateHasAcked(p)'
        BY <1>3, <1>5, <1>8, <1>9, <1>13, <2>1 DEF UpdateHasAcked
    <3>2. OneStruct(p)'
        BY <1>6, <1>8, <1>9, <1>13 DEF OneStruct
    <3> QED
        BY <3>1, <3>2
  <2>3. \A q \in Procs \ {p} : UpdateHasAcked(q)' /\ OneStruct(q)'
      BY <1>2, <1>9 DEF UpdateHasAcked, OneStruct, Updating
  <2>4. cache'.fresh => acked' \subseteq cache'.data
      BY <1>5, <1>6, <1>8, <1>13
  <2> QED
      BY <1>5, <1>13, <2>2, <2>3, <2>4 DEF Safe
<1> QED
    BY <1>1, <1>11, <1>12, <1>13 DEF DiskInv

LEMMA Saves ==
    ASSUME DiskInv, NEW p \in Procs, Save(p)
    PROVE  DiskInv'
<1> DEFINE written == [exists |-> TRUE, data |-> Struct(p), old |-> FALSE]
<1>1. /\ proc[p].pc = "save" /\ fileMu' = None /\ proc' = [proc EXCEPT ![p] = Idle]
      /\ cache' = cache /\ sweeper' = sweeper /\ raced' = raced
    BY DEF Save
<1>2. /\ Types /\ Shape /\ proc[p] \in Goroutine
      /\ Updating(p) /\ fileMu = p /\ proc[p].op \in Ops
      /\ Struct(p) \in SUBSET Items
      /\ \A q \in Procs \ {p} : ~ Updating(q) /\ ~ proc[q].shared
                                 /\ proc[q].pc \notin {"apply", "save"}
    BY <1>1, InUpdate
<1>3. \/ file' = written /\ acked' = acked \cup ({proc[p].op} \cap Items)
      \/ file' = file /\ acked' = acked
    BY DEF Save
<1>4. proc' \in [Procs -> Goroutine] /\ proc'[p] = Idle /\ \A q \in Procs \ {p} : proc'[q] = proc[q]
    BY <1>1, <1>2, IdleGoroutine, GoesOn
<1>5. Idle.pc = "idle" /\ Idle.shared = FALSE
    BY IdleGoroutine
<1>6. written \in [exists : BOOLEAN, data : SUBSET Items, old : BOOLEAN]
      /\ written.exists = TRUE /\ written.data = Struct(p)
    BY <1>2
<1> HIDE DEF written
<1>7. Types'
    BY <1>1, <1>2, <1>3, <1>4, <1>6 DEF Types
<1>8. Shape'
    BY <1>1, <1>2, <1>3, <1>4, <1>5, <1>6 DEF Shape, Updating
<1>9. ASSUME ~ raced PROVE Safe'
  <2>1. Safe
      BY <1>9 DEF DiskInv
  <2>2. acked \subseteq Struct(p) /\ (proc[p].op \in Items => proc[p].op \in Struct(p))
      BY <1>1, <1>2, <2>1 DEF Safe, UpdateHasAcked
  <2>3. acked' \subseteq file'.data
      BY <1>3, <1>6, <2>1, <2>2 DEF Safe
  <2>4. cache'.fresh => acked' \subseteq cache'.data
    <3>1. CASE proc[p].shared
      <4>1. Struct(p) = cache.data
          BY <3>1 DEF Struct
      <4> QED
          BY <1>1, <1>3, <2>2, <4>1
    <3>2. CASE ~ proc[p].shared
        BY <1>1, <1>2, <2>1, <3>2 DEF Safe, OneStruct
    <3> QED
        BY <3>1, <3>2
  <2>5. \A q \in Procs : UpdateHasAcked(q)' /\ OneStruct(q)'
      BY <1>2, <1>4, <1>5 DEF UpdateHasAcked, OneStruct, Updating
  <2> QED
      BY <2>3, <2>4, <2>5 DEF Safe
<1> QED
    BY <1>1, <1>7, <1>8, <1>9 DEF DiskInv

LEMMA DeletionBegins ==
    ASSUME DiskInv, NEW p \in Procs, BeginDelete(p)
    PROVE  DiskInv'
<1> DEFINE r == [Idle EXCEPT !.pc = "uncache", !.op = "delete"]
<1>1. Types /\ Shape
    BY DEF DiskInv
<1>2. /\ proc' = [proc EXCEPT ![p] = r] /\ file' = NoFile /\ acked' = {} /\ proc[p].pc = "idle"
      /\ UNCHANGED <<cache, fileMu, sweeper, raced>>
    BY DEF BeginDelete
<1>3. r \in Goroutine /\ r.pc = "uncache" /\ r.op = "delete" /\ r.shared = FALSE
    BY IdleGoroutine DEF Goroutine, Pcs
<1> HIDE DEF r
<1>4. proc' \in [Procs -> Goroutine] /\ proc'[p] = r /\ \A q \in Procs \ {p} : proc'[q] = proc[q]
    BY <1>1, <1>2, <1>3, GoesOn
<1>5. NoFile \in [exists : BOOLEAN, data : SUBSET Items, old : BOOLEAN] /\ NoFile.data = {}
    BY DEF NoFile
<1>6. Types'
    BY <1>1, <1>2, <1>4, <1>5 DEF Types
<1>7. Shape'
    BY <1>1, <1>2, <1>3, <1>4, <1>5 DEF Shape, Updating
<1>8. Safe => Safe'
    BY <1>2, <1>3, <1>4, <1>5 DEF Safe, UpdateHasAcked, OneStruct, Updating, Struct
<1> QED
    BY <1>2, <1>6, <1>7, <1>8 DEF DiskInv

----------------------------------------------------------------------------
(* The cache, the background and restarts.                                 *)

\* The cache drops its struct.
LEMMA CacheDrops ==
    ASSUME DiskInv, cache' = NotCached, UNCHANGED <<file, fileMu, sweeper, acked, raced>>,
           \/ proc' = KeptBy(proc)
           \/ \E p \in Procs : proc[p].pc = "uncache" /\ proc' = [KeptBy(proc) EXCEPT ![p] = Idle]
    PROVE  DiskInv'
<1>1. Types /\ Shape
    BY DEF DiskInv
<1>2. proc' \in [Procs -> Goroutine]
    BY <1>1, KeptType, IdleGoroutine
<1>3. \A q \in Procs :
          \/ proc'[q] = Idle /\ proc[q].pc = "uncache"
          \/ /\ proc'[q].pc = proc[q].pc /\ proc'[q].op = proc[q].op
             /\ proc'[q].shared = FALSE /\ proc'[q].data = Struct(q)
  <2>1. \A q \in Procs : /\ KeptBy(proc)[q].pc = proc[q].pc /\ KeptBy(proc)[q].op = proc[q].op
                         /\ KeptBy(proc)[q].shared = FALSE /\ KeptBy(proc)[q].data = Struct(q)
      BY <1>1, KeptIs
  <2>2. CASE proc' = KeptBy(proc)
      BY <2>1, <2>2
  <2>3. ASSUME NEW p \in Procs, proc[p].pc = "uncache", proc' = [KeptBy(proc) EXCEPT ![p] = Idle]
        PROVE  \A q \in Procs : \/ proc'[q] = Idle /\ proc[q].pc = "uncache"
                               \/ proc'[q] = KeptBy(proc)[q]
      BY <1>1, <2>3, KeptType
  <2> QED
      BY <2>1, <2>2, <2>3
<1>4. NotCached \in [exists : BOOLEAN, data : SUBSET Items, fresh : BOOLEAN]
      /\ NotCached.fresh = FALSE
    BY DEF NotCached
<1>5. Types'
    BY <1>1, <1>2, <1>4 DEF Types
<1>6. Shape'
    BY <1>1, <1>3, IdleGoroutine DEF Shape, Updating
<1>7. Safe => Safe'
  <2> SUFFICES ASSUME Safe PROVE Safe'
      OBVIOUS
  <2>1. ASSUME NEW q \in Procs PROVE UpdateHasAcked(q)' /\ OneStruct(q)'
      BY <1>3, <1>4, IdleGoroutine DEF Safe, UpdateHasAcked, OneStruct, Updating, Struct
  <2> QED
      BY <1>4, <2>1 DEF Safe
<1> QED
    BY <1>5, <1>6, <1>7 DEF DiskInv

\* Nobody's update sees that a file or the cached struct has become older.
LEMMA Ages ==
    ASSUME DiskInv, CacheExpires \/ FileExpires \/ SweepCheck \/ UNCHANGED diskVars
    PROVE  DiskInv'
<1>1. Types /\ Shape
    BY DEF DiskInv
<1>2. proc' = proc /\ fileMu' = fileMu /\ acked' = acked /\ raced' = raced
    BY DEF CacheExpires, FileExpires, SweepCheck, diskVars
<1>3. /\ cache' \in [exists : BOOLEAN, data : SUBSET Items, fresh : BOOLEAN]
      /\ cache'.data = cache.data /\ (cache'.fresh => cache.fresh)
    BY <1>1 DEF Types, CacheExpires, FileExpires, SweepCheck, diskVars
<1>4. /\ file' \in [exists : BOOLEAN, data : SUBSET Items, old : BOOLEAN]
      /\ file'.data = file.data /\ file'.exists = file.exists
    BY <1>1 DEF Types, CacheExpires, FileExpires, SweepCheck, diskVars
<1>5. sweeper' \in {"idle", "remove"}
    BY <1>1 DEF Types, CacheExpires, FileExpires, SweepCheck, diskVars
<1>6. Types'
    BY <1>1, <1>2, <1>3, <1>4, <1>5 DEF Types
<1>7. Shape'
    BY <1>1, <1>2, <1>4 DEF Shape, Updating
<1>8. Safe => Safe'
    BY <1>2, <1>3, <1>4 DEF Safe, UpdateHasAcked, OneStruct, Updating, Struct
<1> QED
    BY <1>2, <1>6, <1>7, <1>8 DEF DiskInv

\* The file is removed as expired: either it was, or the removal is one of the races,
\* or there is none.
LEMMA Sweeps ==
    ASSUME DiskInv, SweepRemove
    PROVE  DiskInv'
<1>1. Types /\ Shape
    BY DEF DiskInv
<1>2. /\ proc' = proc /\ fileMu' = fileMu /\ cache' = cache /\ file' = NoFile /\ sweeper' = "idle"
      /\ raced' = (raced \/ (file.exists /\ ~ file.old))
      /\ acked' = IF file.old THEN {} ELSE acked
    BY DEF SweepRemove
<1>3. NoFile \in [exists : BOOLEAN, data : SUBSET Items, old : BOOLEAN] /\ NoFile.data = {}
    BY DEF NoFile
<1>4. raced' \in BOOLEAN /\ (raced => raced') /\ acked' \subseteq acked
    BY <1>1, <1>2 DEF Types
<1>5. Types'
    BY <1>1, <1>2, <1>3, <1>4 DEF Types
<1>6. Shape'
    BY <1>1, <1>2, <1>3 DEF Shape, Updating
<1>7. ASSUME ~ raced' PROVE Safe'
  <2>1. Safe /\ (~ file.old => ~ file.exists)
      BY <1>2, <1>4, <1>7 DEF DiskInv
  <2>2. acked' = {}
      BY <1>1, <1>2, <2>1 DEF Shape, Safe
  <2> QED
      BY <1>2, <2>1, <2>2 DEF Safe, UpdateHasAcked, OneStruct, Updating, Struct
<1> QED
    BY <1>4, <1>5, <1>6, <1>7 DEF DiskInv

LEMMA Restarts ==
    ASSUME DiskInv, Restart
    PROVE  DiskInv'
<1>1. Types /\ Shape
    BY DEF DiskInv
<1>2. /\ file' = (IF file.old THEN NoFile ELSE file) /\ acked' = (IF file.old THEN {} ELSE acked)
      /\ cache' = NotCached /\ fileMu' = None /\ proc' = [p \in Procs |-> Idle]
      /\ sweeper' = "idle" /\ raced' = raced
    BY DEF Restart
<1>3. NoFile \in [exists : BOOLEAN, data : SUBSET Items, old : BOOLEAN] /\ NoFile.data = {}
    BY DEF NoFile
<1>4. NotCached \in [exists : BOOLEAN, data : SUBSET Items, fresh : BOOLEAN]
      /\ NotCached.fresh = FALSE
    BY DEF NotCached
<1>5. Types'
    BY <1>1, <1>2, <1>3, <1>4, IdleGoroutine DEF Types
<1>6. Shape'
    BY <1>1, <1>2, <1>3, IdleGoroutine DEF Shape, Updating
<1>7. Safe => Safe'
    BY <1>2, <1>3, <1>4, IdleGoroutine DEF Safe, UpdateHasAcked, OneStruct, Updating
<1> QED
    BY <1>2, <1>5, <1>6, <1>7 DEF DiskInv

----------------------------------------------------------------------------
(* The theorems.                                                           *)

LEMMA DiskInitInv == DiskInit => DiskInv
<1> SUFFICES ASSUME DiskInit PROVE DiskInv
    OBVIOUS
<1>1. Types
    BY IdleGoroutine DEF DiskInit, Types, NoFile, NotCached
<1>2. Shape
    BY IdleGoroutine DEF DiskInit, Shape, Updating, NoFile
<1>3. Safe
    BY IdleGoroutine DEF DiskInit, Safe, UpdateHasAcked, OneStruct, Updating, NoFile, NotCached
<1> QED
    BY <1>1, <1>2, <1>3 DEF DiskInv

LEMMA DiskNextInv == DiskInv /\ [DiskNext]_diskVars => DiskInv'
<1> SUFFICES ASSUME DiskInv, [DiskNext]_diskVars PROVE DiskInv'
    OBVIOUS
<1>1. ASSUME NEW p \in Procs, Step(p) PROVE DiskInv'
  <2>1. CASE Uncache(p)
      BY <2>1, CacheDrops DEF Uncache
  <2>2. CASE ~ Uncache(p)
      BY <1>1, <2>2, Locks, LooksUp, Loads, Fills, Applies, Saves DEF Step
  <2> QED
      BY <2>1, <2>2
<1>2. ASSUME NEW p \in Procs, BeginRead(p) \/ \E op \in Ops : BeginUpdate(p, op) PROVE DiskInv'
    BY <1>2, OperationBegins
<1>3. ASSUME NEW p \in Procs, BeginDelete(p) PROVE DiskInv'
    BY <1>3, DeletionBegins
<1>4. CASE CleanCache
    BY <1>4, CacheDrops DEF CleanCache
<1>5. CASE CacheExpires \/ FileExpires \/ SweepCheck \/ UNCHANGED diskVars
    BY <1>5, Ages
<1>6. CASE SweepRemove \/ Restart
    BY <1>6, Sweeps, Restarts
<1> QED
    BY <1>1, <1>2, <1>3, <1>4, <1>5, <1>6 DEF DiskNext

LEMMA DiskInvariant == DiskSpec => []DiskInv
<1> QED
    BY DiskInitInv, DiskNextInv, PTL DEF DiskSpec

\* Every variable keeps its type, and only the holder of the mutex is between Lock
\* and the end of its update.
THEOREM DiskTypeCorrect == DiskSpec => []DiskTypeOK
<1>1. DiskInv => DiskTypeOK
  <2> SUFFICES ASSUME DiskInv PROVE DiskTypeOK
      OBVIOUS
  <2>1. \A p \in Procs : proc[p].pc \in {"apply", "save"} => fileMu = p
      BY DEF DiskInv, Shape, Updating
  <2> QED
      BY <2>1 DEF DiskInv, Types, DiskTypeOK, Goroutine, Pcs
<1> QED
    BY <1>1, DiskInvariant, PTL

\* An item whose save returned is in the file until a deletion is begun or the file
\* expires, but for two races of those who do not take the mutex.
THEOREM OnlyRacesLose == DiskSpec => []LostOnlyByRaces
<1>1. DiskInv => LostOnlyByRaces
    BY DEF DiskInv, Safe, LostOnlyByRaces
<1> QED
    BY <1>1, DiskInvariant, PTL

\* A cached struct that is still used has every item whose save returned, with the
\* same exception.
THEOREM CacheKeepsUp == DiskSpec => []CacheHasAcked
<1>1. DiskInv => CacheHasAcked
    BY DEF DiskInv, Safe, CacheHasAcked
<1> QED
    BY <1>1, DiskInvariant, PTL
=============================================================================
