--------------------------- MODULE SessionProofs ---------------------------
(***************************************************************************)
(* Proofs about Session, for every number of requests, sessions and        *)
(* placeholders and every cap.                                             *)
(***************************************************************************)
EXTENDS Session, TLAPS, FunctionTheorems, FiniteSetTheorems, SequenceTheorems

USE SessionAssumption

----------------------------------------------------------------------------
(* The eviction loop.                                                       *)

\* A map has as many entries as the order that lists them.
LEMMA MatchingSize ==
    ASSUME NEW map \in [Placeholders -> Values \cup {None}],
           NEW order \in Seq(Placeholders), Matches(map, order)
    PROVE  Cardinality(Held(map)) = Len(order)
<1>1. order \in [1..Len(order) -> Held(map)]
    BY DEF Matches
<1>2. \A i, j \in 1..Len(order) : order[i] = order[j] => i = j
    BY DEF Matches
<1>3. \A p \in Held(map) : \E i \in 1..Len(order) : order[i] = p
    BY DEF Matches
<1>4. order \in Bijection(1..Len(order), Held(map))
    BY <1>1, <1>2, <1>3, Fun_IsBij
<1>5. Len(order) \in Nat /\ ExistsBijection(1..Len(order), Held(map))
    BY <1>4 DEF ExistsBijection
<1> QED
    BY <1>5, FS_CountingElements

\* One eviction, or several, keep the order and the map in step.
LEMMA EvictionKeepsMatching ==
    ASSUME NEW map \in [Placeholders -> Values \cup {None}],
           NEW order \in Seq(Placeholders), Matches(map, order),
           NEW k \in 0..Len(order)
    PROVE  /\ MapWithout(map, order, k) \in [Placeholders -> Values \cup {None}]
           /\ OrderWithout(order, k) \in Seq(Placeholders)
           /\ Len(OrderWithout(order, k)) = Len(order) - k
           /\ \A i \in 1..(Len(order) - k) : OrderWithout(order, k)[i] = order[i + k]
           /\ Matches(MapWithout(map, order, k), OrderWithout(order, k))
<1> DEFINE m == MapWithout(map, order, k)
           t == OrderWithout(order, k)
           n == Len(order)
<1>1. m \in [Placeholders -> Values \cup {None}]
    BY DEF MapWithout
<1>2. \A i \in (k + 1)..n : order[i] \in Placeholders
    OBVIOUS
<1>3. /\ t \in Seq(Placeholders)
      /\ Len(t) = n - k
      /\ \A i \in 1..(n - k) : t[i] = order[i + k]
  <2>1. k + 1 \in Int /\ n \in Int /\ n - (k + 1) + 1 = n - k
      OBVIOUS
  <2>2. /\ t \in Seq(Placeholders)
        /\ Len(t) = IF k + 1 <= n THEN n - (k + 1) + 1 ELSE 0
        /\ \A i \in 1..(n - (k + 1) + 1) : t[i] = order[k + 1 + i - 1]
      BY <1>2, <2>1, SubSeqProperties DEF OrderWithout
  <2>3. Len(t) = n - k
      BY <2>2
  <2>4. ASSUME NEW i \in 1..(n - k) PROVE t[i] = order[i + k]
    <3>1. i \in 1..(n - (k + 1) + 1) /\ k + 1 + i - 1 = i + k
        OBVIOUS
    <3> QED
        BY <2>2, <3>1
  <2> HIDE DEF t, n
  <2> QED
      BY <2>2, <2>3, <2>4
<1>4. \A i, j \in DOMAIN t : i # j => t[i] # t[j]
  <2>1. DOMAIN t = 1..(n - k)
      BY <1>3
  <2>2. \A i \in 1..(n - k) : i + k \in 1..n
      OBVIOUS
  <2>3. \A i, j \in 1..n : i # j => order[i] # order[j]
      BY DEF Matches
  <2> QED
      BY <1>3, <2>1, <2>2, <2>3
<1>5. Held(m) = {t[i] : i \in DOMAIN t}
  <2>1. DOMAIN t = 1..(n - k)
      BY <1>3
  <2>2. ASSUME NEW p \in Held(m) PROVE p \in {t[i] : i \in DOMAIN t}
    <3>1. p \in Held(map) /\ ~ \E i \in 1..k : order[i] = p
        BY <2>2 DEF Held, MapWithout
    <3>2. PICK i \in 1..n : order[i] = p
        BY <3>1 DEF Matches
    <3>3. i - k \in 1..(n - k) /\ i = (i - k) + k
        BY <3>1, <3>2
    <3>4. t[i - k] = p
        BY <1>3, <3>2, <3>3
    <3> QED
        BY <2>1, <3>3, <3>4
  <2>3. ASSUME NEW i \in DOMAIN t PROVE t[i] \in Held(m)
    <3>1. i + k \in 1..n /\ t[i] = order[i + k]
        BY <1>3, <2>1
    <3>2. t[i] \in Held(map) /\ t[i] \in Placeholders
        BY <3>1 DEF Matches
    <3>3. \A j \in 1..k : order[j] # t[i]
      <4>1. \A j \in 1..k : j \in 1..n /\ j # i + k
          BY <2>1
      <4> QED
          BY <3>1, <4>1 DEF Matches
    <3> QED
        BY <3>2, <3>3 DEF Held, MapWithout
  <2> QED
      BY <2>2, <2>3
<1> QED
    BY <1>1, <1>3, <1>4, <1>5 DEF Matches

\* The loop removes exactly as many entries as the map is over the cap.
LEMMA EvictionCount ==
    ASSUME NEW map \in [Placeholders -> Values \cup {None}],
           NEW order \in Seq(Placeholders), Matches(map, order), NEW max \in Nat
    PROVE  Evictions(map, order, max) =
              IF max > 0 /\ Len(order) > max THEN Len(order) - max ELSE 0
<1> DEFINE n == Len(order)
           Stops(k) == LoopStops(map, order, max, k)
           Least(k) == k \in 0..n /\ Stops(k) /\ \A j \in 0..(k - 1) : ~ Stops(j)
           excess == IF n > max THEN n - max ELSE 0
<1>1. ASSUME NEW k \in 0..n PROVE Stops(k) <=> (k = n \/ n - k <= max)
  <2>1. Cardinality(Held(MapWithout(map, order, k))) = n - k
      BY EvictionKeepsMatching, MatchingSize, ZenonT(30)
  <2> QED
      BY <2>1 DEF LoopStops
<1>2. CASE max = 0
    BY <1>2 DEF Evictions
<1>3. CASE max > 0
  <2>1. n \in Nat /\ excess \in 0..n
      BY <1>3
  <2>2. Least(excess)
    <3>1. Stops(excess)
        BY <1>1, <2>1
    <3>2. ASSUME NEW j \in 0..(excess - 1) PROVE ~ Stops(j)
      <4>1. j \in 0..n /\ j # n /\ n - j > max
          BY <2>1
      <4> QED
          BY <1>1, <4>1
    <3> QED
        BY <2>1, <3>1, <3>2
  <2>3. ASSUME NEW k, Least(k) PROVE k = excess
    <3>1. k \in 0..n /\ (k = n \/ n - k <= max)
        BY <1>1, <2>3
    <3>2. ~ (k < excess)
        BY <2>1, <3>1, <1>3
    <3>3. ~ (excess < k)
      <4>1. SUFFICES ASSUME excess < k PROVE FALSE
          OBVIOUS
      <4>2. excess \in 0..(k - 1)
          BY <2>1, <3>1, <4>1
      <4> QED
          BY <2>2, <2>3, <4>2
    <3> QED
        BY <2>1, <3>1, <3>2, <3>3
  <2>4. Evictions(map, order, max) = CHOOSE k \in 0..n : Stops(k) /\ \A j \in 0..(k - 1) : ~ Stops(j)
      BY <1>3 DEF Evictions
  <2>5. (CHOOSE k \in 0..n : Stops(k) /\ \A j \in 0..(k - 1) : ~ Stops(j)) = excess
    <3> HIDE DEF Stops, excess
    <3> QED
        BY <2>2, <2>3
  <2> QED
      BY <1>3, <2>4, <2>5
<1> QED
    BY <1>2, <1>3

\* What AddPlaceholder does to a struct whose order and map agree.
LEMMA AddedEffect ==
    ASSUME NEW s \in SessionType, Matches(s.map, s.order),
           NEW p \in Placeholders, NEW v \in Values
    PROVE  LET t == Added(s, p, v)
           IN  /\ t \in SessionType
               /\ t.id = s.id /\ t.max = s.max /\ t.last = s.last
               /\ Matches(t.map, t.order)
               /\ s.max > 0 => Len(t.order) <= s.max
               /\ (s.max > 0 => Len(s.order) <= s.max) =>
                     /\ t.map[p] = v
                     /\ s.map[p] # None => \A q \in Placeholders \ {p} : t.map[q] = s.map[q]
               /\ \A i, j \in DOMAIN s.order :
                     (i < j /\ t.map[s.order[j]] = None) => t.map[s.order[i]] = None
<1> DEFINE map   == [s.map EXCEPT ![p] = v]
           order == IF s.map[p] = None THEN Append(s.order, p) ELSE s.order
           k     == Evictions(map, order, s.max)
           t     == Added(s, p, v)
<1>1. /\ s.map \in [Placeholders -> Values \cup {None}]
      /\ s.order \in Seq(Placeholders) /\ s.max \in Nat
      /\ s.id \in SessionIDs \cup {None} /\ s.last \in Nat
    BY DEF SessionType
<1>2. map \in [Placeholders -> Values \cup {None}] /\ map[p] = v /\ v # None
    BY <1>1
<1>3. order \in Seq(Placeholders) /\ \A i \in DOMAIN s.order : i \in DOMAIN order /\ order[i] = s.order[i]
    BY <1>1
<1>4. Matches(map, order)
  <2>1. CASE s.map[p] = None
    <3>1. /\ order = Append(s.order, p)
          /\ DOMAIN order = 1..(Len(s.order) + 1)
          /\ \A i \in 1..Len(s.order) : order[i] = s.order[i]
          /\ order[Len(s.order) + 1] = p
        BY <1>1, <2>1
    <3>2. \A i \in 1..Len(s.order) : s.order[i] # p /\ s.order[i] \in Placeholders
        BY <1>1, <2>1 DEF Matches, Held
    <3>3. Held(map) = Held(s.map) \cup {p}
        BY <1>1, <1>2 DEF Held
    <3>4. \A i, j \in DOMAIN order : i # j => order[i] # order[j]
      <4>1. \A i, j \in 1..Len(s.order) : i # j => s.order[i] # s.order[j]
          BY <1>1 DEF Matches
      <4>2. ASSUME NEW i \in 1..(Len(s.order) + 1) PROVE i \in 1..Len(s.order) \/ i = Len(s.order) + 1
          BY <1>1
      <4> HIDE DEF order
      <4> QED
          BY <3>1, <3>2, <4>1, <4>2
    <3>5. Held(s.map) = {s.order[i] : i \in 1..Len(s.order)}
        BY <1>1 DEF Matches
    <3>6. Held(map) = {order[i] : i \in DOMAIN order}
      <4>1. 1..(Len(s.order) + 1) = (1..Len(s.order)) \cup {Len(s.order) + 1}
          BY <1>1
      <4> QED
          BY <3>1, <3>3, <3>5, <4>1
    <3> QED
        BY <3>4, <3>6 DEF Matches
  <2>2. CASE s.map[p] # None
    <3>1. order = s.order /\ Held(map) = Held(s.map)
        BY <1>1, <1>2, <2>2 DEF Held
    <3> QED
        BY <3>1 DEF Matches
  <2> QED
      BY <2>1, <2>2
<1>5. k = IF s.max > 0 /\ Len(order) > s.max THEN Len(order) - s.max ELSE 0
  <2> HIDE DEF map, order
  <2> QED
      BY <1>1, <1>2, <1>3, <1>4, EvictionCount
<1>6. k \in 0..Len(order) /\ (s.max > 0 => Len(order) - k <= s.max)
  <2> HIDE DEF map, order, k
  <2> QED
      BY <1>1, <1>3, <1>5
<1>7. t = [s EXCEPT !.map = MapWithout(map, order, k), !.order = OrderWithout(order, k)]
    BY DEF Added
<1>8. /\ MapWithout(map, order, k) \in [Placeholders -> Values \cup {None}]
      /\ OrderWithout(order, k) \in Seq(Placeholders)
      /\ Len(OrderWithout(order, k)) = Len(order) - k
      /\ Matches(MapWithout(map, order, k), OrderWithout(order, k))
  <2> HIDE DEF map, order, k
  <2> QED
      BY <1>2, <1>3, <1>4, <1>6, EvictionKeepsMatching
<1>9. /\ t \in SessionType
      /\ t.id = s.id /\ t.max = s.max /\ t.last = s.last
      /\ t.map = MapWithout(map, order, k) /\ t.order = OrderWithout(order, k)
  <2> HIDE DEF map, order, k, t
  <2> QED
      BY <1>1, <1>7, <1>8 DEF SessionType
<1>10. ASSUME s.max > 0 => Len(s.order) <= s.max
       PROVE  /\ t.map[p] = v
              /\ s.map[p] # None => \A q \in Placeholders \ {p} : t.map[q] = s.map[q]
  <2>1. CASE s.map[p] # None
    <3>1. k = 0
        BY <1>1, <1>5, <1>10, <2>1
    <3>2. \A q \in Placeholders : t.map[q] = map[q]
        BY <1>9, <3>1 DEF MapWithout
    <3>3. \A q \in Placeholders \ {p} : map[q] = s.map[q]
        BY <1>1
    <3> QED
        BY <1>2, <3>2, <3>3
  <2>2. CASE s.map[p] = None
    <3>1. Len(order) = Len(s.order) + 1 /\ k <= Len(s.order)
        BY <1>1, <1>5, <1>10, <2>2
    <3>2. \A i \in 1..Len(s.order) : order[i] # p
        BY <1>1, <2>2 DEF Matches, Held
    <3>3. \A i \in 1..k : i \in 1..Len(s.order)
        BY <1>1, <1>6, <3>1
    <3>4. ~ \E i \in 1..k : order[i] = p
        BY <3>2, <3>3
    <3> QED
        BY <1>2, <1>9, <2>2, <3>4 DEF MapWithout
  <2> QED
      BY <2>1, <2>2
<1>11. ASSUME NEW i \in DOMAIN s.order, NEW j \in DOMAIN s.order,
              i < j, t.map[s.order[j]] = None
       PROVE  t.map[s.order[i]] = None
  <2>1. /\ i \in DOMAIN order /\ j \in DOMAIN order
        /\ order[i] = s.order[i] /\ order[j] = s.order[j]
        /\ DOMAIN order = 1..Len(order)
      BY <1>3, <1>11
  <2>2. order[j] \in Placeholders /\ order[i] \in Placeholders /\ order[j] \in Held(map)
      BY <1>3, <1>4, <2>1 DEF Matches
  <2>3. MapWithout(map, order, k)[order[j]] = None
      BY <1>9, <1>11, <2>1
  <2> HIDE DEF map, order, k, t
  <2>4. PICK l \in 1..k : order[l] = order[j]
      BY <2>2, <2>3 DEF MapWithout, Held
  <2>5. l \in DOMAIN order
      BY <1>6, <2>1, <2>4
  <2>6. l = j
      BY <1>4, <2>1, <2>4, <2>5 DEF Matches
  <2>7. i \in 1..k
      BY <1>6, <1>11, <2>1, <2>4, <2>6
  <2> QED
      BY <1>9, <2>1, <2>2, <2>7 DEF MapWithout
<1> HIDE DEF map, order, k, t
<1>12. s.max > 0 => Len(t.order) <= s.max
    BY <1>6, <1>8, <1>9
<1>13. Matches(t.map, t.order)
    BY <1>8, <1>9
<1> QED
    BY <1>9, <1>10, <1>11, <1>12, <1>13 DEF t

----------------------------------------------------------------------------
(* The inductive invariant.                                                 *)

\* A struct has no cap and nothing in it, or the configured cap and at most so
\* many placeholders; a request that may add to it has set the cap.
CapInv ==
    /\ \A o \in Objects :
          /\ heap[o].max \in {0, MaxPlaceholders}
          /\ MaxPlaceholders > 0 => Len(heap[o].order) <= heap[o].max
    /\ \A r \in Requests : request[r].pc = "open" => heap[request[r].obj].max = MaxPlaceholders

\* A struct in use belongs to the id it is used for: in particular it is not free.
OwnerInv ==
    /\ \A r \in Requests : request[r].pc # "idle" =>
          request[r].sid \in SessionIDs /\ heap[request[r].obj].id = request[r].sid
    /\ \A id \in SessionIDs : live[id] # None => heap[live[id]].id = id

Condemned(s) == ExpiredAt(s, cleaner.start) \/ s.last >= cleaner.start

\* The keys the cleaner still has to visit or to delete are in the map: only
\* the cleaner removes any.
CleanerInv ==
    /\ cleaner.start <= now
    /\ \A id \in cleaner.todo : live[id] # None
    /\ cleaner.pc = "delete" =>
          /\ cleaner.victim \notin cleaner.todo
          /\ live[cleaner.victim] # None
          /\ Condemned(heap[live[cleaner.victim]])

SessionInv == SessionTypeOK /\ OrderMatchesMap /\ CapInv /\ OwnerInv /\ CleanerInv

LEMMA InitInv == SessionInit => SessionInv
<1> SUFFICES ASSUME SessionInit PROVE SessionInv
    OBVIOUS
<1> USE DEF SessionInit
<1>1. Unallocated \in SessionType
    BY DEF Unallocated, SessionType, NoPlaceholders
<1>2. Held(NoPlaceholders) = {}
    BY DEF Held, NoPlaceholders
<1>3. SessionTypeOK
    BY <1>1 DEF SessionTypeOK, Idle, CleanerIdle, RequestType
<1>4. OrderMatchesMap
    BY <1>2 DEF OrderMatchesMap, Matches, Unallocated
<1>5. CapInv
    BY DEF CapInv, Unallocated, Idle
<1>6. OwnerInv /\ CleanerInv
    BY DEF OwnerInv, CleanerInv, Idle, CleanerIdle
<1> QED
    BY <1>3, <1>4, <1>5, <1>6 DEF SessionInv

\* The structs h that the map l and the requests q refer to are those of heap,
\* and each of them is well formed.
InUseKept(h, l, q) ==
    /\ h \in [Objects -> SessionType]
    /\ \A o \in Objects :
          /\ Matches(h[o].map, h[o].order)
          /\ h[o].max \in {0, MaxPlaceholders}
          /\ MaxPlaceholders > 0 => Len(h[o].order) <= h[o].max
    /\ \A r \in Requests : q[r].obj \in Objects => h[q[r].obj] = heap[q[r].obj]
    /\ \A id \in SessionIDs : l[id] \in Objects => h[l[id]] = heap[l[id]]

\* Collecting garbage disturbs nothing: what is in use is not collected.
LEMMA ReclaimKeepsInv ==
    ASSUME SessionTypeOK, OrderMatchesMap, CapInv, NEW l, NEW q
    PROVE  InUseKept(Reclaimed(heap, l, q), l, q)
<1> DEFINE h == Reclaimed(heap, l, q)
<1>1. Unallocated \in SessionType
    BY DEF Unallocated, SessionType, NoPlaceholders
<1>2. Matches(Unallocated.map, Unallocated.order)
    BY DEF Matches, Held, NoPlaceholders, Unallocated
<1>3. Unallocated.max = 0 /\ Len(Unallocated.order) = 0
    BY DEF Unallocated
<1>4. \A o \in Objects : h[o] = heap[o] \/ h[o] = Unallocated
    BY DEF Reclaimed
<1>5. h \in [Objects -> SessionType]
    BY <1>1 DEF Reclaimed, SessionTypeOK, RequestType
<1>6. ASSUME NEW o \in Objects
      PROVE  /\ Matches(h[o].map, h[o].order)
             /\ h[o].max \in {0, MaxPlaceholders}
             /\ MaxPlaceholders > 0 => Len(h[o].order) <= h[o].max
  <2> HIDE DEF h
  <2> QED
      BY <1>2, <1>3, <1>4 DEF OrderMatchesMap, CapInv
<1>7. \A r \in Requests : q[r].obj \in Objects => h[q[r].obj] = heap[q[r].obj]
    BY DEF Reclaimed
<1>8. \A id \in SessionIDs : l[id] \in Objects => h[l[id]] = heap[l[id]]
    BY DEF Reclaimed
<1> QED
    BY <1>5, <1>6, <1>7, <1>8 DEF InUseKept

LEMMA NextInv == SessionInv /\ [SessionNext]_sessionVars => SessionInv'
<1> SUFFICES ASSUME SessionInv, [SessionNext]_sessionVars PROVE SessionInv'
    OBVIOUS
<1> USE DEF SessionInv
<1>1. ASSUME NEW r \in Requests, NEW id \in SessionIDs, LoadOrStore(r, id)
      PROVE  SessionInv'
  <2> USE DEF LoadOrStore
  <2>1. CASE live[id] # None
    <3>1. UNCHANGED <<now, heap, live, cleaner>> /\ live[id] \in Objects
        BY <1>1, <2>1 DEF SessionTypeOK, RequestType
    <3>2. request' = [request EXCEPT ![r] = [pc |-> "touch", sid |-> id, obj |-> live[id]]]
        BY <1>1, <2>1
    <3>3. SessionTypeOK'
        BY <3>1, <3>2 DEF SessionTypeOK, RequestType
    <3>4. OrderMatchesMap'
        BY <3>1 DEF OrderMatchesMap
    <3>5. CapInv'
        BY <3>1, <3>2 DEF CapInv, SessionTypeOK, RequestType
    <3>6. OwnerInv'
        BY <2>1, <3>1, <3>2 DEF OwnerInv, SessionTypeOK, RequestType
    <3>7. CleanerInv'
        BY <3>1 DEF CleanerInv, Condemned
    <3> QED
        BY <3>3, <3>4, <3>5, <3>6, <3>7
  <2>2. CASE live[id] = None
    <3>1. PICK o \in Objects :
             /\ heap[o].id = None
             /\ heap' = [heap EXCEPT ![o] = NewSession(id)]
             /\ live' = [live EXCEPT ![id] = o]
             /\ request' = [request EXCEPT ![r] = [pc |-> "touch", sid |-> id, obj |-> o]]
        BY <1>1, <2>2
    <3>2. UNCHANGED <<now, cleaner>>
        BY <1>1
    <3>3. NewSession(id) \in SessionType /\ NewSession(id).id = id /\ NewSession(id).max = 0
          /\ NewSession(id).order = <<>> /\ NewSession(id).map = NoPlaceholders
        BY DEF NewSession, SessionType, NoPlaceholders, SessionTypeOK, RequestType
    <3>4. o # None /\ id # None
        BY DEF SessionTypeOK, RequestType
    <3>5. \A q \in Requests : request[q].pc # "idle" => request[q].obj # o
        BY <3>1 DEF OwnerInv, SessionTypeOK, RequestType
    <3>6. \A other \in SessionIDs : live[other] # o
        BY <3>1, <3>4 DEF OwnerInv, SessionTypeOK, RequestType
    <3>7. SessionTypeOK'
        BY <3>1, <3>2, <3>3 DEF SessionTypeOK, RequestType
    <3>8. OrderMatchesMap'
        BY <3>1, <3>3 DEF OrderMatchesMap, Matches, Held, NoPlaceholders, SessionTypeOK, RequestType
    <3>9. CapInv'
        BY <3>1, <3>3, <3>5 DEF CapInv, SessionTypeOK, RequestType
    <3>10. OwnerInv'
        BY <3>1, <3>3, <3>5, <3>6 DEF OwnerInv, SessionTypeOK, RequestType
    <3>11. CleanerInv'
      <4>1. \A other \in SessionIDs : live[other] # None => live'[other] = live[other]
                                                       /\ heap'[live[other]] = heap[live[other]]
          BY <2>2, <3>1, <3>6 DEF SessionTypeOK, RequestType
      <4> QED
          BY <3>2, <4>1 DEF CleanerInv, Condemned, SessionTypeOK, RequestType
    <3> QED
        BY <3>7, <3>8, <3>9, <3>10, <3>11
  <2> QED
      BY <2>1, <2>2
<1>2. ASSUME NEW r \in Requests, Touch(r)
      PROVE  SessionInv'
  <2>1. /\ request[r].pc = "touch" /\ request[r].obj \in Objects
        /\ heap' = [heap EXCEPT ![request[r].obj].last = now]
        /\ request' = [request EXCEPT ![r].pc = "cap"]
        /\ UNCHANGED <<now, live, cleaner>>
      BY <1>2 DEF Touch, SessionTypeOK, RequestType
  <2>2. ASSUME NEW o \in Objects
        PROVE  /\ heap'[o].id = heap[o].id /\ heap'[o].max = heap[o].max
               /\ heap'[o].map = heap[o].map /\ heap'[o].order = heap[o].order
               /\ heap'[o].last \in {heap[o].last, now}
      BY <2>1 DEF SessionTypeOK, SessionType
  <2>3. SessionTypeOK'
    <3>1. \A o \in Objects : heap'[o] \in SessionType
      <4>1. ASSUME NEW t \in SessionType PROVE [t EXCEPT !.last = now] \in SessionType
          BY DEF SessionType, SessionTypeOK
      <4> QED
          BY <2>1, <4>1 DEF SessionTypeOK
    <3>2. heap' \in [Objects -> SessionType]
        BY <2>1, <3>1 DEF SessionTypeOK, RequestType
    <3> QED
        BY <2>1, <3>2 DEF SessionTypeOK, RequestType
  <2>4. OrderMatchesMap'
      BY <2>2 DEF OrderMatchesMap
  <2>5. CapInv'
      BY <2>1, <2>2 DEF CapInv, SessionTypeOK, RequestType
  <2>6. OwnerInv'
      BY <2>1, <2>2 DEF OwnerInv, SessionTypeOK, RequestType
  <2>7. CleanerInv'
      BY <2>1, <2>2 DEF CleanerInv, Condemned, ExpiredAt, SessionTypeOK, RequestType
  <2> QED
      BY <2>3, <2>4, <2>5, <2>6, <2>7
<1>3. ASSUME NEW r \in Requests, SetMaxPlaceholders(r)
      PROVE  SessionInv'
  <2>1. /\ request[r].pc = "cap" /\ request[r].obj \in Objects
        /\ heap' = IF MaxPlaceholders > 0
                   THEN [heap EXCEPT ![request[r].obj].max = MaxPlaceholders] ELSE heap
        /\ request' = [request EXCEPT ![r].pc = "open"]
        /\ UNCHANGED <<now, live, cleaner>>
      BY <1>3 DEF SetMaxPlaceholders, SessionTypeOK, RequestType
  <2>2. ASSUME NEW o \in Objects
        PROVE  /\ heap'[o].id = heap[o].id
               /\ heap'[o].map = heap[o].map /\ heap'[o].order = heap[o].order
               /\ heap'[o].last = heap[o].last
               /\ heap'[o].max = IF o = request[r].obj THEN MaxPlaceholders ELSE heap[o].max
    <3>1. CASE MaxPlaceholders > 0
        BY <2>1, <3>1 DEF SessionTypeOK, SessionType
    <3>2. CASE ~ MaxPlaceholders > 0
        BY <2>1, <3>2 DEF CapInv
    <3> QED
        BY <3>1, <3>2
  <2>3. SessionTypeOK'
    <3>1. \A o \in Objects : heap'[o] \in SessionType
      <4>1. ASSUME NEW t \in SessionType PROVE [t EXCEPT !.max = MaxPlaceholders] \in SessionType
          BY DEF SessionType, SessionTypeOK
      <4> QED
          BY <2>1, <4>1 DEF SessionTypeOK
    <3>2. heap' \in [Objects -> SessionType]
        BY <2>1, <3>1 DEF SessionTypeOK, RequestType
    <3> QED
        BY <2>1, <3>2 DEF SessionTypeOK, RequestType
  <2>4. OrderMatchesMap'
      BY <2>2 DEF OrderMatchesMap
  <2>5. CapInv'
    <3>1. \A o \in Objects : Len(heap[o].order) \in Nat
        BY DEF SessionTypeOK, SessionType
    <3> QED
        BY <2>1, <2>2, <3>1 DEF CapInv, SessionTypeOK, RequestType
  <2>6. OwnerInv'
      BY <2>1, <2>2 DEF OwnerInv, SessionTypeOK, RequestType
  <2>7. CleanerInv'
      BY <2>1, <2>2 DEF CleanerInv, Condemned, ExpiredAt, SessionTypeOK, RequestType
  <2> QED
      BY <2>3, <2>4, <2>5, <2>6, <2>7
<1>4. ASSUME NEW r \in Requests, NEW p \in Placeholders, NEW v \in Values, AddPlaceholder(r, p, v)
      PROVE  SessionInv'
  <2> DEFINE a == request[r].obj
             t == Added(heap[a], p, v)
  <2>1. /\ request[r].pc = "open" /\ a \in Objects
        /\ heap' = [heap EXCEPT ![a] = t]
        /\ UNCHANGED <<now, live, request, cleaner>>
      BY <1>4 DEF AddPlaceholder, SessionTypeOK, RequestType
  <2>2. heap[a] \in SessionType /\ Matches(heap[a].map, heap[a].order)
        /\ heap[a].max = MaxPlaceholders
      BY <2>1 DEF SessionTypeOK, OrderMatchesMap, CapInv
  <2>3. /\ t \in SessionType
        /\ t.id = heap[a].id /\ t.max = heap[a].max /\ t.last = heap[a].last
        /\ Matches(t.map, t.order)
        /\ heap[a].max > 0 => Len(t.order) <= heap[a].max
      BY <2>2, AddedEffect
  <2> HIDE DEF t
  <2>4. \A o \in Objects : heap'[o] = IF o = a THEN t ELSE heap[o]
      BY <2>1 DEF SessionTypeOK, RequestType
  <2>5. SessionTypeOK'
      BY <2>1, <2>3 DEF SessionTypeOK, RequestType
  <2>6. OrderMatchesMap'
      BY <2>3, <2>4 DEF OrderMatchesMap
  <2>7. CapInv'
      BY <2>1, <2>2, <2>3, <2>4 DEF CapInv, SessionTypeOK, RequestType
  <2>8. OwnerInv'
      BY <2>1, <2>3, <2>4 DEF OwnerInv, SessionTypeOK, RequestType
  <2>9. CleanerInv'
      BY <2>1, <2>3, <2>4 DEF CleanerInv, Condemned, ExpiredAt, SessionTypeOK, RequestType
  <2> QED
      BY <2>5, <2>6, <2>7, <2>8, <2>9
<1>5. ASSUME NEW r \in Requests, EndRequest(r)
      PROVE  SessionInv'
  <2>1. /\ request' = [request EXCEPT ![r] = Idle]
        /\ heap' = Reclaimed(heap, live', request')
        /\ UNCHANGED <<now, live, cleaner>>
      BY <1>5 DEF EndRequest
  <2>2. /\ request' \in [Requests -> RequestType] /\ live \in [SessionIDs -> Objects \cup {None}]
      BY <2>1 DEF SessionTypeOK, Idle, RequestType
  <2>3. InUseKept(heap', live', request')
      BY <2>1, ReclaimKeepsInv
  <2>4. \A q \in Requests : request'[q].pc # "idle" => request'[q] = request[q]
      BY <2>1 DEF Idle, SessionTypeOK, RequestType
  <2>5. ASSUME NEW q \in Requests, request'[q].pc # "idle"
         PROVE  /\ request'[q] = request[q]
                /\ heap'[request'[q].obj] = heap[request[q].obj]
    <3>1. request'[q] = request[q] /\ request[q].obj \in Objects
        BY <2>4, <2>5 DEF SessionTypeOK
    <3> QED
        BY <2>3, <3>1 DEF InUseKept
  <2>6. \A id \in SessionIDs : live'[id] # None =>
            live'[id] = live[id] /\ heap'[live'[id]] = heap[live[id]]
      BY <2>1, <2>3 DEF InUseKept, SessionTypeOK
  <2>7. SessionTypeOK'
      BY <2>1, <2>2, <2>3, <2>4 DEF InUseKept, SessionTypeOK, RequestType
  <2>8. OrderMatchesMap'
      BY <2>3 DEF InUseKept, OrderMatchesMap
  <2>9. CapInv'
      BY <2>3, <2>5 DEF InUseKept, CapInv
  <2>10. OwnerInv'
      BY <2>5, <2>6 DEF OwnerInv
  <2>11. CleanerInv'
      BY <2>1, <2>3, ZenonT(30) DEF InUseKept, CleanerInv, Condemned, SessionTypeOK, RequestType
  <2> QED
      BY <2>7, <2>8, <2>9, <2>10, <2>11
<1>6. ASSUME Tick
      PROVE  SessionInv'
  <2>1. now' = now + 1 /\ UNCHANGED <<heap, live, request, cleaner>>
      BY <1>6 DEF Tick
  <2>2. SessionTypeOK' /\ OrderMatchesMap' /\ CapInv' /\ OwnerInv'
      BY <2>1 DEF SessionTypeOK, OrderMatchesMap, CapInv, OwnerInv
  <2>3. CleanerInv'
      BY <2>1 DEF CleanerInv, Condemned, SessionTypeOK, RequestType
  <2> QED
      BY <2>2, <2>3
<1>7. ASSUME cleaner.pc # "delete", UNCHANGED <<now, heap, live, request>>,
             SessionTypeOK', CleanerInv'
      PROVE  SessionInv'
    BY <1>7 DEF OrderMatchesMap, CapInv, OwnerInv
<1>8. ASSUME CleanStart
      PROVE  SessionInv'
  <2> USE <1>8 DEF CleanStart
  <2>1. SessionTypeOK'
      BY DEF SessionTypeOK, RequestType
  <2>2. CleanerInv'
      BY DEF CleanerInv, SessionTypeOK, RequestType
  <2> QED
      BY <1>7, <2>1, <2>2
<1>9. ASSUME NEW id \in SessionIDs, CleanCheck(id)
      PROVE  SessionInv'
  <2> USE <1>9 DEF CleanCheck
  <2>1. SessionTypeOK'
      BY DEF SessionTypeOK, RequestType
  <2>2. CleanerInv'
    <3>1. CASE ExpiredAt(heap[live[id]], cleaner.start)
        BY <3>1 DEF CleanerInv, Condemned, SessionTypeOK, RequestType
    <3>2. CASE ~ ExpiredAt(heap[live[id]], cleaner.start)
        BY <3>2 DEF CleanerInv, Condemned, SessionTypeOK, RequestType
    <3> QED
        BY <3>1, <3>2
  <2> QED
      BY <1>7, <2>1, <2>2
<1>10. ASSUME CleanDelete
       PROVE  SessionInv'
  <2>1. /\ cleaner.pc = "delete" /\ cleaner.victim \in SessionIDs
        /\ live' = [live EXCEPT ![cleaner.victim] = None]
        /\ heap' = Reclaimed(heap, live', request')
        /\ cleaner' = [cleaner EXCEPT !.pc = "scan", !.victim = None]
        /\ UNCHANGED <<now, request>>
      BY <1>10 DEF CleanDelete, SessionTypeOK, RequestType
  <2>2. live' \in [SessionIDs -> Objects \cup {None}]
        /\ request \in [Requests -> RequestType]
      BY <2>1 DEF SessionTypeOK, RequestType
  <2>3. InUseKept(heap', live', request')
      BY <2>1, ReclaimKeepsInv
  <2>4. \A id \in SessionIDs : live'[id] # None => live'[id] = live[id] /\ live[id] \in Objects
      BY <2>1 DEF SessionTypeOK, RequestType
  <2>5. ASSUME NEW q \in Requests, request'[q].pc # "idle"
         PROVE  /\ request'[q] = request[q]
                /\ heap'[request'[q].obj] = heap[request[q].obj]
    <3>1. request'[q] = request[q] /\ request[q].obj \in Objects
        BY <2>1, <2>5 DEF SessionTypeOK
    <3> QED
        BY <2>3, <3>1 DEF InUseKept
  <2>6. \A id \in SessionIDs : live'[id] # None =>
            live'[id] = live[id] /\ heap'[live'[id]] = heap[live[id]]
      BY <2>3, <2>4 DEF InUseKept, SessionTypeOK
  <2>7. SessionTypeOK'
      BY <2>1, <2>2, <2>3 DEF InUseKept, SessionTypeOK, RequestType
  <2>8. OrderMatchesMap'
      BY <2>3 DEF InUseKept, OrderMatchesMap
  <2>9. CapInv'
      BY <2>3, <2>5 DEF InUseKept, CapInv
  <2>10. OwnerInv'
      BY <2>5, <2>6 DEF OwnerInv
  <2>11. CleanerInv'
      BY <2>1 DEF CleanerInv, SessionTypeOK, RequestType
  <2> QED
      BY <2>7, <2>8, <2>9, <2>10, <2>11
<1>11. ASSUME CleanEnd
       PROVE  SessionInv'
  <2> USE <1>11 DEF CleanEnd, CleanerIdle
  <2>1. SessionTypeOK'
      BY DEF SessionTypeOK, RequestType
  <2>2. CleanerInv'
      BY DEF CleanerInv, SessionTypeOK, RequestType
  <2> QED
      BY <1>7, <2>1, <2>2
<1>12. CASE UNCHANGED sessionVars
    BY <1>12 DEF sessionVars, SessionTypeOK, OrderMatchesMap, CapInv, OwnerInv, CleanerInv, Condemned
<1> QED
    BY <1>1, <1>2, <1>3, <1>4, <1>5, <1>6, <1>8, <1>9, <1>10, <1>11, <1>12 DEF SessionNext, Clean

\* The inductive invariant holds in every reachable state of the session manager.
THEOREM SessionInvariant == SessionSpec => []SessionInv
<1> QED
    BY InitInv, NextInv, PTL DEF SessionSpec

----------------------------------------------------------------------------
(* What follows from it.                                                    *)

\* Type correctness; a request never works on a nil session.
THEOREM SessionTypeCorrect == SessionSpec => []SessionTypeOK
<1>1. SessionInv => SessionTypeOK
    BY DEF SessionInv
<1> QED
    BY <1>1, SessionInvariant, PTL

\* The eviction order and the map never drift apart.
THEOREM OrderMatchesMapCorrect == SessionSpec => []OrderMatchesMap
<1>1. SessionInv => OrderMatchesMap
    BY DEF SessionInv
<1> QED
    BY <1>1, SessionInvariant, PTL

\* However requests share a session, it stays within the configured cap.
THEOREM WithinCapCorrect == SessionSpec => []WithinCap
<1>1. SessionInv => WithinCap
  <2> SUFFICES ASSUME SessionInv, MaxPlaceholders > 0, NEW o \in Objects
               PROVE  Cardinality(Held(heap[o].map)) <= MaxPlaceholders
      BY DEF WithinCap
  <2>1. heap[o] \in SessionType /\ Matches(heap[o].map, heap[o].order)
      BY DEF SessionInv, SessionTypeOK, OrderMatchesMap
  <2>2. Cardinality(Held(heap[o].map)) = Len(heap[o].order) /\ Len(heap[o].order) \in Nat
      BY <2>1, MatchingSize DEF SessionType
  <2>3. Len(heap[o].order) <= heap[o].max /\ heap[o].max \in {0, MaxPlaceholders}
      BY DEF SessionInv, CapInv
  <2> QED
      BY <2>2, <2>3
<1> QED
    BY <1>1, SessionInvariant, PTL

\* No struct serves two session ids, even when structs are reclaimed and reused.
THEOREM OneSessionPerObjectCorrect == SessionSpec => []OneSessionPerObject
<1>1. SessionInv => OneSessionPerObject
    BY DEF SessionInv, OwnerInv, OneSessionPerObject, SessionOf
<1> QED
    BY <1>1, SessionInvariant, PTL

\* A request always finds what it just added, at any cap.
THEOREM AddedIsKeptCorrect == SessionSpec => []AddedIsKept
<1>1. SessionInv => AddedIsKept
  <2> SUFFICES ASSUME SessionInv, NEW r \in Requests, NEW p \in Placeholders, NEW v \in Values,
                      request[r].pc = "open"
               PROVE  LET s == SessionOf(r)
                          t == Added(s, p, v)
                      IN  /\ t.map[p] = v
                          /\ s.map[p] # None => \A q \in Placeholders \ {p} : t.map[q] = s.map[q]
      BY DEF AddedIsKept
  <2>1. request[r].obj \in Objects
      BY DEF SessionInv, SessionTypeOK
  <2>2. /\ SessionOf(r) \in SessionType
        /\ Matches(SessionOf(r).map, SessionOf(r).order)
        /\ SessionOf(r).max > 0 => Len(SessionOf(r).order) <= SessionOf(r).max
      BY <2>1 DEF SessionInv, SessionTypeOK, OrderMatchesMap, CapInv, SessionOf
  <2> QED
      BY <2>2, AddedEffect
<1> QED
    BY <1>1, SessionInvariant, PTL

\* Whatever a step does to a session, it leaves no older entry behind a younger
\* one that it removes.
THEOREM EvictsOldestFirstCorrect == SessionSpec => EvictsOldestFirst
<1>1. SessionInv /\ [SessionNext]_sessionVars =>
        [\A o \in Objects : \A i, j \in DOMAIN heap[o].order :
            (i < j /\ heap'[o].map[heap[o].order[j]] = None)
                => heap'[o].map[heap[o].order[i]] = None]_sessionVars
  <2> SUFFICES ASSUME SessionInv, SessionNext, NEW o \in Objects,
                      NEW i \in DOMAIN heap[o].order, NEW j \in DOMAIN heap[o].order,
                      i < j, heap'[o].map[heap[o].order[j]] = None
               PROVE  heap'[o].map[heap[o].order[i]] = None
      OBVIOUS
  <2>1. /\ heap \in [Objects -> SessionType]
        /\ heap[o] \in SessionType /\ heap[o].order \in Seq(Placeholders)
        /\ Matches(heap[o].map, heap[o].order)
      BY DEF SessionInv, SessionTypeOK, SessionType, OrderMatchesMap
  <2>2. heap[o].order[i] \in Placeholders
      BY <2>1
  <2>3. CASE heap'[o].map = heap[o].map
    <3>1. heap[o].order[j] \in Held(heap[o].map)
        BY <2>1 DEF Matches
    <3> QED
        BY <2>3, <3>1 DEF Held
  <2>4. CASE heap'[o].map = NoPlaceholders
      BY <2>2, <2>4 DEF NoPlaceholders
  <2>5. CASE \E p \in Placeholders, v \in Values : heap'[o] = Added(heap[o], p, v)
    <3>1. PICK p \in Placeholders, v \in Values : heap'[o] = Added(heap[o], p, v)
        BY <2>5
    <3> QED
        BY <2>1, <3>1, AddedEffect
  <2>6. ASSUME NEW r \in Requests, NEW id \in SessionIDs, LoadOrStore(r, id)
        PROVE  heap'[o].map = heap[o].map \/ heap'[o].map = NoPlaceholders
      BY <2>1, <2>6 DEF LoadOrStore, NewSession
  <2>7. ASSUME NEW r \in Requests, Touch(r) \/ SetMaxPlaceholders(r)
        PROVE  heap'[o].map = heap[o].map
    <3>1. ASSUME NEW t \in SessionType
          PROVE  [t EXCEPT !.last = now].map = t.map /\ [t EXCEPT !.max = MaxPlaceholders].map = t.map
        BY DEF SessionType
    <3>2. heap'[o] \in {heap[o], [heap[o] EXCEPT !.last = now], [heap[o] EXCEPT !.max = MaxPlaceholders]}
        BY <2>1, <2>7 DEF Touch, SetMaxPlaceholders
    <3>3. CASE heap'[o] = heap[o]
        BY <3>3
    <3>4. CASE heap'[o] = [heap[o] EXCEPT !.last = now]
        BY <2>1, <3>1, <3>4
    <3>5. CASE heap'[o] = [heap[o] EXCEPT !.max = MaxPlaceholders]
        BY <2>1, <3>1, <3>5
    <3> QED
        BY <3>2, <3>3, <3>4, <3>5
  <2>8. ASSUME NEW r \in Requests, NEW p \in Placeholders, NEW v \in Values, AddPlaceholder(r, p, v)
        PROVE  heap'[o] = heap[o] \/ heap'[o] = Added(heap[o], p, v)
      BY <2>1, <2>8 DEF AddPlaceholder
  <2>9. ASSUME NEW l, NEW q, heap' = Reclaimed(heap, l, q)
        PROVE  heap'[o].map = heap[o].map \/ heap'[o].map = NoPlaceholders
      BY <2>9 DEF Reclaimed, Unallocated
  <2>10. ASSUME (\E r \in Requests : EndRequest(r)) \/ CleanDelete
         PROVE  heap'[o].map = heap[o].map \/ heap'[o].map = NoPlaceholders
    <3>1. heap' = Reclaimed(heap, live, request') \/ heap' = Reclaimed(heap, live', request)
        BY <2>10 DEF EndRequest, CleanDelete
    <3> QED
        BY <2>9, <3>1
  <2>11. ASSUME CleanStart \/ CleanEnd \/ Tick \/ \E id \in SessionIDs : CleanCheck(id)
         PROVE  heap' = heap
      BY <2>11 DEF CleanStart, CleanEnd, Tick, CleanCheck
  <2> QED
      BY <2>3, <2>4, <2>5, <2>6, <2>7, <2>8, <2>10, <2>11 DEF SessionNext, Clean
<1> QED
    BY <1>1, SessionInvariant, PTL DEF SessionSpec, EvictsOldestFirst

\* The cleanup drops only what it condemned, and condemns only what was idle at the
\* start of its scan.
THEOREM DropsOnlyCondemnedCorrect == SessionSpec => DropsOnlyCondemned
<1>1. SessionInv /\ [SessionNext]_sessionVars =>
        [\A id \in SessionIDs :
            /\ (live[id] # None /\ live'[id] = None) =>
                  LET s == heap[live[id]] IN
                  /\ cleaner.victim = id
                  /\ ExpiredAt(s, cleaner.start) \/ s.last >= cleaner.start
            /\ (cleaner.victim # id /\ cleaner'.victim = id) =>
                  live[id] # None /\ ExpiredAt(heap[live[id]], cleaner.start)]_sessionVars
  <2> SUFFICES ASSUME SessionInv, SessionNext, NEW id \in SessionIDs
               PROVE  /\ (live[id] # None /\ live'[id] = None) =>
                            cleaner.victim = id /\ Condemned(heap[live[id]])
                      /\ (cleaner.victim # id /\ cleaner'.victim = id) =>
                            live[id] # None /\ ExpiredAt(heap[live[id]], cleaner.start)
      BY DEF Condemned, sessionVars
  <2>1. ASSUME live[id] # None, live'[id] = None
        PROVE  cleaner.victim = id /\ Condemned(heap[live[id]])
    <3> USE <2>1
    <3>1. CleanDelete
      <4>1. \A r \in Requests, other \in SessionIDs : ~ LoadOrStore(r, other)
          BY DEF LoadOrStore, SessionInv, SessionTypeOK
      <4>2. \A r \in Requests : ~ Touch(r) /\ ~ SetMaxPlaceholders(r) /\ ~ EndRequest(r)
          BY DEF Touch, SetMaxPlaceholders, EndRequest
      <4>3. \A r \in Requests, p \in Placeholders, v \in Values : ~ AddPlaceholder(r, p, v)
          BY DEF AddPlaceholder
      <4>4. ~ Tick /\ ~ CleanStart /\ ~ CleanEnd /\ \A other \in SessionIDs : ~ CleanCheck(other)
          BY DEF Tick, CleanStart, CleanEnd, CleanCheck
      <4> QED
          BY <4>1, <4>2, <4>3, <4>4 DEF SessionNext, Clean
    <3>2. cleaner.pc = "delete" /\ id = cleaner.victim
        BY <3>1 DEF CleanDelete, SessionInv, SessionTypeOK
    <3> QED
        BY <3>2 DEF SessionInv, CleanerInv
  <2>2. ASSUME cleaner.victim # id, cleaner'.victim = id
        PROVE  live[id] # None /\ ExpiredAt(heap[live[id]], cleaner.start)
    <3> USE <2>2
    <3>1. id # None
        BY DEF SessionInv, SessionTypeOK, SessionAssumption
    <3>2. PICK other \in SessionIDs : CleanCheck(other)
      <4>1. \A r \in Requests : /\ \A x \in SessionIDs : ~ LoadOrStore(r, x)
                                /\ ~ Touch(r) /\ ~ SetMaxPlaceholders(r) /\ ~ EndRequest(r)
                                /\ \A p \in Placeholders, v \in Values : ~ AddPlaceholder(r, p, v)
          BY DEF LoadOrStore, Touch, SetMaxPlaceholders, EndRequest, AddPlaceholder
      <4>2. ~ Tick
          BY DEF Tick
      <4>3. ~ CleanStart /\ ~ CleanEnd
          BY <3>1 DEF CleanStart, CleanEnd, CleanerIdle
      <4>4. ~ CleanDelete
          BY <3>1 DEF CleanDelete, SessionInv, SessionTypeOK
      <4> QED
          BY <4>1, <4>2, <4>3, <4>4 DEF SessionNext, Clean
    <3>3. id = other /\ id \in cleaner.todo /\ ExpiredAt(heap[live[id]], cleaner.start)
        BY <3>2 DEF CleanCheck, SessionInv, SessionTypeOK
    <3> QED
        BY <3>3 DEF SessionInv, CleanerInv
  <2> QED
      BY <2>1, <2>2
<1> QED
    BY <1>1, SessionInvariant, PTL DEF SessionSpec, DropsOnlyCondemned
=============================================================================
