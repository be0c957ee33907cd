------------------------------ MODULE Session ------------------------------
(***************************************************************************)
(* The in-memory sessions of the proxy: src/internal/session/manager.go.   *)
(*                                                                         *)
(* A session object holds the placeholder -> value map of one conversation *)
(* and the order in which the placeholders were first added, from which it *)
(* evicts the oldest when it is over its cap.  The manager maps session    *)
(* ids to objects; a request obtains the object once, in GetOrCreate, and  *)
(* keeps the pointer until it ends, while a background goroutine removes   *)
(* idle objects from the map.  Every critical section of Session.mu and    *)
(* every call on the sync.Map is one action.                               *)
(***************************************************************************)
EXTENDS Integers, Sequences, FiniteSets

CONSTANTS
    Requests,       \* the goroutines that serve chat requests
    SessionIDs,     \* values of the X-Session-ID header
    Objects,        \* addresses of Session structs, a free one is allocated for each new session
    Placeholders,
    Values,         \* the masked originals
    MaxPlaceholders,\* config max_placeholders_per_session, 0 means no cap
    TTL,            \* config session_ttl, in clock ticks
    MaxTime,        \* bound on the clock
    None            \* no value, no object, no session

ASSUME SessionAssumption ==
    /\ MaxPlaceholders \in Nat
    /\ TTL \in Nat
    /\ MaxTime \in Nat
    /\ None \notin Values \cup Objects \cup SessionIDs

VARIABLES
    now,      \* the clock
    heap,     \* the Session struct at each address
    live,     \* the manager's sync.Map: session id -> address
    request,  \* per request: its progress, session id and Session pointer
    cleaner   \* the goroutine cleanupExpiredSessions

sessionVars == <<now, heap, live, request, cleaner>>

----------------------------------------------------------------------------
(* The Session struct. A free address holds Unallocated.                    *)

NoPlaceholders == [p \in Placeholders |-> None]

NewSession(id) ==
    [id |-> id, map |-> NoPlaceholders, order |-> <<>>, max |-> 0, last |-> now]

Unallocated == 
    [id |-> None, map |-> NoPlaceholders, order |-> <<>>, max |-> 0, last |-> 0]

\* The keys of a MaskMap.
Held(map) == {p \in Placeholders : map[p] # None}

\* MaskMap and placeholderOrder after the loop evicted the k oldest entries.
MapWithout(map, order, k) ==
    [p \in Placeholders |-> IF \E i \in 1..k : order[i] = p THEN None ELSE map[p]]
OrderWithout(order, k) == SubSeq(order, k + 1, Len(order))

\* Whether the eviction loop stops after k evictions.
LoopStops(map, order, max, k) ==
    \/ k = Len(order)
    \/ Cardinality(Held(MapWithout(map, order, k))) <= max

\* How many entries the eviction loop removes: it runs as long as the map is
\* over the cap and the order is not empty.
Evictions(map, order, max) ==
    IF max = 0 THEN 0
    ELSE CHOOSE k \in 0..Len(order) :
            /\ LoopStops(map, order, max, k)
            /\ \A j \in 0..(k - 1) : ~ LoopStops(map, order, max, j)

\* Mutant of Added: a value set again is appended to the order again.
AddedTwiceInOrder(s, p, v) ==
    LET map   == [s.map EXCEPT ![p] = v]
        order == Append(s.order, p)
        k     == Evictions(map, order, s.max)
    IN  [s EXCEPT !.map = MapWithout(map, order, k), !.order = OrderWithout(order, k)]

\* Mutant of Added: evicts before it adds, and takes the newest entry.
AddedEvictsNewest(s, p, v) ==
    LET full  == s.map[p] = None /\ s.max > 0 /\ Len(s.order) >= s.max
        order == IF full THEN SubSeq(s.order, 1, Len(s.order) - 1) ELSE s.order
        map   == IF full THEN [s.map EXCEPT ![s.order[Len(s.order)]] = None] ELSE s.map
    IN  [s EXCEPT !.map   = [map EXCEPT ![p] = v],
                  !.order = IF s.map[p] = None THEN Append(order, p) ELSE order]

\* Mutant of Added: refuses the new entry when the session is full.
AddedUnlessFull(s, p, v) ==
    IF s.map[p] = None /\ s.max > 0 /\ Len(s.order) >= s.max THEN s
    ELSE [s EXCEPT !.map[p] = v, !.order = IF s.map[p] = None THEN Append(@, p) ELSE @]

\* The struct after AddPlaceholder(p, v).
Added(s, p, v) ==
    LET map   == [s.map EXCEPT ![p] = v]
        order == IF s.map[p] = None THEN Append(s.order, p) ELSE s.order
        k     == Evictions(map, order, s.max)
    IN  [s EXCEPT !.map   = MapWithout(map, order, k),
                  !.order = OrderWithout(order, k)]

\* The test of Get and of the cleanup goroutine, at the time t.
ExpiredAt(s, t) == t - s.last > TTL

----------------------------------------------------------------------------
Idle == [pc |-> "idle", sid |-> None, obj |-> None]

CleanerIdle == [pc |-> "idle", start |-> 0, todo |-> {}, victim |-> None]

SessionInit ==
    /\ now = 0
    /\ heap = [o \in Objects |-> Unallocated]
    /\ live = [id \in SessionIDs |-> None]
    /\ request = [r \in Requests |-> Idle]
    /\ cleaner = CleanerIdle

SessionOf(r) == heap[request[r].obj]

\* A struct that neither the map nor a request refers to is garbage: Go reclaims it.
Reclaimed(h, l, q) ==
    [o \in Objects |-> IF \/ \E id \in SessionIDs : l[id] = o
                          \/ \E r \in Requests : q[r].obj = o
                       THEN h[o] ELSE Unallocated]

\* Mutant of LoadOrStore: a session that is not in the map is not created.
LoadOnly(r, id) ==
    /\ request[r].pc = "idle"
    /\ request' = [request EXCEPT ![r] = [pc |-> "touch", sid |-> id, obj |-> live[id]]]
    /\ UNCHANGED <<now, heap, live, cleaner>>

\* GetOrCreate, first step: LoadOrStore on the sync.Map.
LoadOrStore(r, id) ==
    /\ request[r].pc = "idle"
    /\ \/ /\ live[id] # None
          /\ request' = [request EXCEPT ![r] = [pc |-> "touch", sid |-> id, obj |-> live[id]]]
          /\ UNCHANGED <<heap, live>>
       \/ /\ live[id] = None
          /\ \E o \in Objects :
                /\ heap[o].id = None
                /\ heap' = [heap EXCEPT ![o] = NewSession(id)]
                /\ live' = [live EXCEPT ![id] = o]
                /\ request' = [request EXCEPT ![r] = [pc |-> "touch", sid |-> id, obj |-> o]]
    /\ UNCHANGED <<now, cleaner>>

\* Mutant of Touch: a request that finds the session touched just now
\* (by the request that created it) skips setting the cap.
TouchThenOpen(r) ==
    /\ request[r].pc = "touch"
    /\ heap' = [heap EXCEPT ![request[r].obj].last = now]
    /\ request' = [request EXCEPT ![r].pc = IF SessionOf(r).last = now THEN "open" ELSE "cap"]
    /\ UNCHANGED <<now, live, cleaner>>

\* GetOrCreate, second step: LastAccess under the session's mutex.
Touch(r) ==
    /\ request[r].pc = "touch"
    /\ heap' = [heap EXCEPT ![request[r].obj].last = now]
    /\ request' = [request EXCEPT ![r].pc = "cap"]
    /\ UNCHANGED <<now, live, cleaner>>

\* handleChatCompletions passes the configured cap to the session, if there is one.
SetMaxPlaceholders(r) ==
    /\ request[r].pc = "cap"
    /\ heap' = IF MaxPlaceholders > 0
               THEN [heap EXCEPT ![request[r].obj].max = MaxPlaceholders]
               ELSE heap
    /\ request' = [request EXCEPT ![r].pc = "open"]
    /\ UNCHANGED <<now, live, cleaner>>

AddPlaceholder(r, p, v) ==
    /\ request[r].pc = "open"
    /\ heap' = [heap EXCEPT ![request[r].obj] = Added(@, p, v)]
    /\ UNCHANGED <<now, live, request, cleaner>>

\* The request returns and drops its pointer.
EndRequest(r) ==
    /\ request[r].pc = "open"
    /\ request' = [request EXCEPT ![r] = Idle]
    /\ heap' = Reclaimed(heap, live, request')
    /\ UNCHANGED <<now, live, cleaner>>

Tick ==
    /\ now < MaxTime
    /\ now' = now + 1
    /\ UNCHANGED <<heap, live, request, cleaner>>

----------------------------------------------------------------------------
(* cleanupExpiredSessions: a ticker starts a scan, Range visits the keys in *)
(* no particular order.  A key stored during the scan was touched after     *)
(* its start, so visiting it changes nothing.                               *)

\* Mutant of CleanStart: the time is read once, when the goroutine is started.
CleanStartAtZero ==
    /\ cleaner.pc = "idle"
    /\ now > 0
    /\ cleaner' = [pc |-> "scan", start |-> 0, victim |-> None,
                   todo |-> {id \in SessionIDs : live[id] # None}]
    /\ UNCHANGED <<now, heap, live, request>>

CleanStart ==
    /\ cleaner.pc = "idle"
    /\ now > 0      \* the ticker fires first after one interval
    /\ cleaner' = [pc |-> "scan", start |-> now, victim |-> None,
                   todo |-> {id \in SessionIDs : live[id] # None}]
    /\ UNCHANGED <<now, heap, live, request>>

\* Mutant of CleanCheck: the test for expiry is missing.
CleanCheckAny(id) ==
    /\ cleaner.pc = "scan"
    /\ id \in cleaner.todo
    /\ cleaner' = [cleaner EXCEPT !.pc = "delete", !.victim = id, !.todo = @ \ {id}]
    /\ UNCHANGED <<now, heap, live, request>>

\* Range loads one session and tests it under its read lock...
CleanCheck(id) ==
    /\ cleaner.pc = "scan"
    /\ id \in cleaner.todo
    /\ cleaner' = IF ExpiredAt(heap[live[id]], cleaner.start)
                  THEN [cleaner EXCEPT !.pc = "delete", !.victim = id, !.todo = @ \ {id}]
                  ELSE [cleaner EXCEPT !.todo = @ \ {id}]
    /\ UNCHANGED <<now, heap, live, request>>

\* ... and deletes its key after the lock is released.
CleanDelete ==
    /\ cleaner.pc = "delete"
    /\ live' = [live EXCEPT ![cleaner.victim] = None]
    /\ heap' = Reclaimed(heap, live', request)
    /\ cleaner' = [cleaner EXCEPT !.pc = "scan", !.victim = None]
    /\ UNCHANGED <<now, request>>

CleanEnd ==
    /\ cleaner.pc = "scan"
    /\ cleaner.todo = {}
    /\ cleaner' = CleanerIdle
    /\ UNCHANGED <<now, heap, live, request>>

Clean == CleanStart \/ (\E id \in SessionIDs : CleanCheck(id)) \/ CleanDelete \/ CleanEnd

SessionNext ==
    \/ \E r \in Requests :
          \/ \E id \in SessionIDs : LoadOrStore(r, id)
          \/ Touch(r)
          \/ SetMaxPlaceholders(r)
          \/ \E p \in Placeholders, v \in Values : AddPlaceholder(r, p, v)
          \/ EndRequest(r)
    \/ Clean
    \/ Tick

SessionSpec == SessionInit /\ [][SessionNext]_sessionVars

\* The cleanup goroutine is never blocked and its ticker keeps firing.
FairSessionSpec == SessionSpec /\ WF_sessionVars(Clean)

----------------------------------------------------------------------------
SessionType ==
    [id : SessionIDs \cup {None}, map : [Placeholders -> Values \cup {None}],
     order : Seq(Placeholders), max : Nat, last : Nat]

RequestType == [pc  : {"idle", "touch", "cap", "open"},
                sid : SessionIDs \cup {None},
                obj : Objects \cup {None}]

\* Every variable has its type, and a request that is past LoadOrStore holds
\* a pointer to an allocated session (GetOrCreate never returns nil).
SessionTypeOK ==
    /\ now \in Nat
    /\ heap \in [Objects -> SessionType]
    /\ live \in [SessionIDs -> Objects \cup {None}]
    /\ request \in [Requests -> RequestType]
    /\ \A r \in Requests : request[r].pc # "idle" => request[r].obj \in Objects
    /\ cleaner \in [pc : {"idle", "scan", "delete"}, start : Nat,
                    todo : SUBSET SessionIDs, victim : SessionIDs \cup {None}]
    /\ cleaner.pc = "delete" => cleaner.victim \in SessionIDs

\* The order lists the keys of the map, each once.
Matches(map, order) ==
    /\ \A i, j \in DOMAIN order : i # j => order[i] # order[j]
    /\ Held(map) = {order[i] : i \in DOMAIN order}

\* placeholderOrder lists exactly the keys of MaskMap, each once: nothing is
\* evicted twice and nothing can stay in the map for ever, unreachable for
\* the eviction loop of AddPlaceholder.
OrderMatchesMap == \A o \in Objects : Matches(heap[o].map, heap[o].order)

\* With a cap configured no session ever holds more placeholders than it,
\* although the session is created without one and several requests share
\* it: every request sets the cap before it adds anything.
WithinCap ==
    MaxPlaceholders > 0 =>
        \A o \in Objects : Cardinality(Held(heap[o].map)) <= MaxPlaceholders

\* What a request adds is in the map when AddPlaceholder returns: the eviction
\* never takes the entry it was called for. Adding a placeholder again, which
\* the masking does with every original it meets twice, takes no other entry
\* away, not even in a full session.
AddedIsKept ==
    \A r \in Requests, p \in Placeholders, v \in Values :
        request[r].pc = "open" =>
            LET s == SessionOf(r)
                t == Added(s, p, v)
            IN  /\ t.map[p] = v
                /\ s.map[p] # None => \A q \in Placeholders \ {p} : t.map[q] = s.map[q]

\* An entry leaves a session only when all entries first added before it left too.
EvictsOldestFirst ==
    [][\A o \in Objects : \A i, j \in DOMAIN heap[o].order :
          (i < j /\ heap'[o].map[heap[o].order[j]] = None)
              => heap'[o].map[heap[o].order[i]] = None]_sessionVars

\* No Session struct ever serves two session ids: a request and the manager's
\* map agree on the id of the struct, so what a request adds is only seen by
\* requests of the same session.
OneSessionPerObject ==
    /\ \A r \in Requests : request[r].pc # "idle" => SessionOf(r).id = request[r].sid
    /\ \A id \in SessionIDs : live[id] # None => heap[live[id]].id = id

\* The cleanup removes no session but the one it has condemned, and it condemns only
\* a session that was idle for the TTL when the scan began. Such a session is removed
\* as it was, or although a request touched it later in the same scan.
DropsOnlyCondemned ==
    [][\A id \in SessionIDs :
          /\ (live[id] # None /\ live'[id] = None) =>
                LET s == heap[live[id]] IN
                /\ cleaner.victim = id
                /\ ExpiredAt(s, cleaner.start) \/ s.last >= cleaner.start
          /\ (cleaner.victim # id /\ cleaner'.victim = id) =>
                live[id] # None /\ ExpiredAt(heap[live[id]], cleaner.start)]_sessionVars

\* An idle session does not stay for ever: a session that is expired is removed
\* from the map, unless a request touches it again.
ExpiredIsDropped ==
    \A id \in SessionIDs : \A o \in Objects :
        (live[id] = o /\ ExpiredAt(heap[o], now)) ~> (live[id] # o \/ ~ ExpiredAt(heap[o], now))

=============================================================================
