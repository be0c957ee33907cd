--------------------------- MODULE ChatProxyProofs --------------------------
(***************************************************************************)
(* Proofs about ChatProxy, for every number of requests and sessions, every *)
(* cap and every way the originals are spread over the detectors: a handler *)
(* uses its session as module Session allows, and whatever the sessions     *)
(* evict, the answer a client gets has its own originals in it.             *)
(***************************************************************************)
EXTENDS ChatProxy, SessionProofs

----------------------------------------------------------------------------
(* The inductive invariant.                                                 *)

MaskingStages == {"local", "builtin", "extract", "ner"}

\* A session of the hot tier, and what a handler works on.
HotSession == [map : Store, last : Nat]

HandlerState ==
    [stage : {"none", "local", "builtin", "extract", "ner", "dispatch", "llm", "restore", "lookup", "backfill"},
     role : {"text", "tool", "args", None}, ner : BOOLEAN,
     body : SUBSET (Values \cup Placeholders), todo : SUBSET (Values \cup Placeholders),
     saved : SUBSET Values, cur : Values \cup Placeholders \cup {None}, prompt : BOOLEAN,
     answer : [Placeholders -> Values \cup {None, Unrecoverable}]]

ChatTypes ==
    /\ hot \in [SessionIDs -> HotSession]
    /\ cold \in Store
    /\ pending \subseteq Values
    /\ chat \in [Requests -> HandlerState]

\* Under the placeholder of an original there is nothing else than it.
Honest(map) == \A v \in Values : map[Token[v]] \in {None, v}

\* No session and no tier ever mixes up two originals.
TiersHonest ==
    /\ \A o \in Objects : Honest(heap[o].map)
    /\ \A id \in SessionIDs : Honest(hot[id].map)
    /\ Honest(cold)

\* What the state of a handler says at each stage.
AtWork(c) ==
    /\ c.stage = "none" => c = NoChat
    /\ c.stage \in MaskingStages =>
          /\ c.todo \subseteq Values /\ c.cur \in Values \cup {None}
          /\ c.answer = NoPlaceholders
    /\ c.stage \in {"restore", "lookup", "backfill"} => c.todo \subseteq Placeholders
    /\ c.stage \in {"lookup", "backfill"} => c.cur \in Placeholders
    /\ c.stage = "backfill" => c.answer[c.cur] \in Values
    /\ \A v \in Values : c.answer[Token[v]] \in {None, v, Unrecoverable}
    /\ \A v \in c.saved : c.answer[Token[v]] # Unrecoverable
    /\ (c.stage = "llm" /\ c.saved # {}) => c.prompt

\* The request has added a placeholder to its session.
Contributed(c) == c.saved # {} \/ (c.stage \in MaskingStages /\ c.cur # None)

\* What a request relies on: its session of the hot tier is as young as the
\* clock and has all it saved, and its session is not empty.
Served(r) ==
    /\ chat[r].stage # "none" => request[r].pc = "open" /\ hot[sid(r)].last = now
    /\ \A v \in chat[r].saved : hot[sid(r)].map[Token[v]] = v
    /\ Contributed(chat[r]) => Held(SessionOf(r).map) # {}

Handlers == \A r \in Requests : AtWork(chat[r]) /\ Served(r)

ChatInv == SessionInv /\ ChatTypes /\ TiersHonest /\ Handlers

\* What the assumptions say about originals and placeholders.
LEMMA TokenFacts ==
    /\ \A v \in Values : Token[v] \in Placeholders
    /\ \A v, w \in Values : Token[v] = Token[w] => v = w
    /\ None \notin Values /\ Unrecoverable \notin Values /\ Unrecoverable # None
    /\ CredValues \subseteq Values /\ BuiltInValues \subseteq Values /\ NERValues \subseteq Values
    BY ChatAssumption, SessionAssumption

\* The empty store holds nothing.
LEMMA NothingStored ==
    NoPlaceholders \in Store /\ Honest(NoPlaceholders) /\ Held(NoPlaceholders) = {}
    BY TokenFacts DEF NoPlaceholders, Store, Honest, Held

\* A request with no handler has saved nothing and added nothing.
LEMMA NobodyWorks ==
    /\ NoChat \in HandlerState
    /\ AtWork(NoChat)
    /\ NoChat.stage = "none" /\ NoChat.saved = {} /\ ~ Contributed(NoChat)
<1>1. NoChat \in HandlerState
    BY DEF NoChat, HandlerState, NoPlaceholders
<1>2. /\ NoChat.stage = "none" /\ NoChat.saved = {} /\ NoChat.answer = NoPlaceholders
    BY DEF NoChat
<1>3. "none" \notin MaskingStages
    BY DEF MaskingStages
<1>4. ~ Contributed(NoChat)
    BY <1>2, <1>3 DEF Contributed
<1>5. AtWork(NoChat)
    BY <1>2, <1>3, TokenFacts DEF AtWork, NoPlaceholders
<1> QED
    BY <1>1, <1>2, <1>4, <1>5

\* A placeholder stored with its own original mixes nothing up; neither does one
\* that no original has.
LEMMA HonestWith ==
    ASSUME NEW map \in Store, Honest(map), NEW p \in Placeholders, NEW v \in Values,
           \A w \in Values : Token[w] = p => w = v
    PROVE  [map EXCEPT ![p] = v] \in Store /\ Honest([map EXCEPT ![p] = v])
    BY TokenFacts DEF Store, Honest

\* Adding such a pair to a session keeps the session honest, whatever it evicts.
LEMMA AddedHonest ==
    ASSUME NEW s \in SessionType, Honest(s.map), NEW p \in Placeholders, NEW v \in Values,
           \A w \in Values : Token[w] = p => w = v
    PROVE  Honest(Added(s, p, v).map)
<1> DEFINE map   == [s.map EXCEPT ![p] = v]
           order == IF s.map[p] = None THEN Append(s.order, p) ELSE s.order
           k     == Evictions(map, order, s.max)
<1>1. Added(s, p, v).map = MapWithout(map, order, k)
    BY DEF Added, SessionType
<1>2. Honest(map)
    BY HonestWith DEF SessionType, Store
<1> HIDE DEF map, order, k
<1>3. ASSUME NEW w \in Values PROVE MapWithout(map, order, k)[Token[w]] \in {None, w}
    BY <1>2, TokenFacts DEF MapWithout, Honest
<1> QED
    BY <1>1, <1>3 DEF Honest

\* No handler is at work when the proxy starts, and all stores are empty.
LEMMA ChatInitInv == ChatInit => ChatInv
<1> SUFFICES ASSUME ChatInit PROVE ChatInv
    OBVIOUS
<1> USE DEF ChatInit
<1>1. SessionInv
    BY InitInv
<1>2. ChatTypes
    BY NothingStored, NobodyWorks DEF ChatTypes, HotSession
<1>3. TiersHonest
    BY NothingStored DEF TiersHonest, SessionInit, Unallocated
<1>4. Handlers
    BY NobodyWorks DEF Handlers, Served
<1> QED
    BY <1>1, <1>2, <1>3, <1>4 DEF ChatInv

----------------------------------------------------------------------------
(* The proxy uses the sessions as module Session allows.                    *)

\* What a handler adds to its session is an original under a placeholder, and
\* no other original has that placeholder.
LEMMA HandlerAdds ==
    ASSUME ChatInv, NEW r \in Requests
    PROVE  /\ \A v \in Values : MaskValue(r, v) \/ ExtractPlaceholder(r, v) =>
                 AddPlaceholder(r, Token[v], v) /\ Token[v] \in Placeholders
           /\ Backfill(r) =>
                 LET p == chat[r].cur
                     v == chat[r].answer[p]
                 IN  /\ AddPlaceholder(r, p, v)
                     /\ p \in Placeholders /\ v \in Values
                     /\ \A w \in Values : Token[w] = p => w = v
<1>1. \A v \in Values : MaskValue(r, v) \/ ExtractPlaceholder(r, v) =>
          AddPlaceholder(r, Token[v], v) /\ Token[v] \in Placeholders
    BY TokenFacts DEF MaskValue, ExtractPlaceholder
<1>2. ASSUME Backfill(r)
      PROVE  /\ AddPlaceholder(r, chat[r].cur, chat[r].answer[chat[r].cur])
             /\ chat[r].cur \in Placeholders /\ chat[r].answer[chat[r].cur] \in Values
             /\ \A w \in Values : Token[w] = chat[r].cur => w = chat[r].answer[chat[r].cur]
  <2>1. chat[r].stage = "backfill" /\ AtWork(chat[r])
      BY <1>2 DEF Backfill, ChatInv, Handlers
  <2> QED
      BY <1>2, <2>1, TokenFacts DEF Backfill, AtWork
<1> QED
    BY <1>1, <1>2

\* Each step of the proxy is a step of the sessions or leaves them alone.
LEMMA ChatStep == ChatInv /\ [ChatNext]_vars => [SessionNext]_sessionVars
<1> SUFFICES ASSUME ChatInv, [ChatNext]_vars PROVE [SessionNext]_sessionVars
    OBVIOUS
<1>1. ASSUME NEW r \in Requests, Handle(r)
      PROVE  [SessionNext]_sessionVars
  <2>1. CASE TouchMemory(r) \/ SetCap(r)
      BY <2>1 DEF TouchMemory, SetCap, SessionNext
  <2>2. CASE RejectBody(r) \/ Finish(r)
      BY <2>2 DEF RejectBody, Finish, SessionNext
  <2>3. CASE \E v \in Values : MaskValue(r, v) \/ ExtractPlaceholder(r, v)
      BY <2>3, HandlerAdds DEF SessionNext
  <2>4. CASE Backfill(r)
      BY <2>4, HandlerAdds DEF SessionNext
  <2>5. CASE StartMasking(r) \/ SaveValue(r) \/ NextDetector(r) \/ FirstPassDone(r) \/ SecondPassDone(r)
             \/ Dispatch(r) \/ Respond(r) \/ LookUp(r)
             \/ \E p \in Placeholders : RestoreFromSession(r, p) \/ SessionMisses(r, p)
    <3>1. UNCHANGED sessionVars
        BY <2>5 DEF StartMasking, SaveValue, NextDetector, FirstPassDone, SecondPassDone, Dispatch,
                    Respond, LookUp, RestoreFromSession, SessionMisses
    <3> QED
        BY <3>1
  <2> QED
      BY <1>1, <2>1, <2>2, <2>3, <2>4, <2>5 DEF Handle
<1>2. ASSUME NEW r \in Requests, NEW id \in SessionIDs, Receive(r, id)
      PROVE  [SessionNext]_sessionVars
    BY <1>2 DEF Receive, SessionNext
<1>3. CASE CleanSessions \/ TickBetweenRequests
    BY <1>3 DEF CleanSessions, TickBetweenRequests, SessionNext
<1>4. CASE CleanHot \/ \E v \in Values : WriteCold(v)
    BY <1>4 DEF CleanHot, WriteCold
<1>5. CASE UNCHANGED vars
    BY <1>5 DEF vars, sessionVars
<1> QED
    BY <1>1, <1>2, <1>3, <1>4, <1>5 DEF ChatNext

\* So the invariant of the sessions holds after each step.
LEMMA SessionsSound == ChatInv /\ [ChatNext]_vars => SessionInv'
    BY ChatStep, NextInv DEF ChatInv

----------------------------------------------------------------------------
(* What a step leaves alone.                                                *)

\* The step clears maps of sessions, but changes nothing in them.
MapsOnlyCleared == \A o \in Objects : heap'[o].map \in {heap[o].map, NoPlaceholders}

\* A request that is being handled keeps its session and what is in it.
SessionStays(q) ==
    request[q].pc = "open" =>
        /\ request'[q] = request[q]
        /\ heap'[request[q].obj].map = heap[request[q].obj].map

\* GetOrCreate for one request does not disturb the others.
LEMMA ReceiveStays ==
    ASSUME SessionInv, NEW r \in Requests, NEW id \in SessionIDs, LoadOrStore(r, id)
    PROVE  MapsOnlyCleared /\ \A q \in Requests : SessionStays(q)
<1> USE DEF SessionInv, SessionTypeOK
<1>1. request[r].pc = "idle" /\ request' = [request EXCEPT ![r] = request'[r]]
    BY DEF LoadOrStore
<1>2. CASE heap' = heap
    BY <1>1, <1>2 DEF MapsOnlyCleared, SessionStays
<1>3. CASE \E o \in Objects : heap[o].id = None /\ heap' = [heap EXCEPT ![o] = NewSession(id)]
  <2>1. PICK o \in Objects : heap[o].id = None /\ heap' = [heap EXCEPT ![o] = NewSession(id)]
      BY <1>3
  <2>2. \A q \in Requests : request[q].pc = "open" => request[q].obj # o /\ request[q].obj \in Objects
      BY <2>1, SessionAssumption DEF OwnerInv
  <2> QED
      BY <1>1, <2>1, <2>2 DEF MapsOnlyCleared, SessionStays, NewSession
<1> QED
    BY <1>2, <1>3 DEF LoadOrStore

\* Neither do the two writes of a request that starts.
LEMMA OpeningStays ==
    ASSUME SessionInv, NEW r \in Requests, Touch(r) \/ SetMaxPlaceholders(r)
    PROVE  MapsOnlyCleared /\ \A q \in Requests : SessionStays(q)
<1> USE DEF SessionInv, SessionTypeOK
<1>1. \A o \in Objects : heap'[o].map = heap[o].map
  <2> SUFFICES ASSUME NEW o \in Objects PROVE heap'[o].map = heap[o].map
      OBVIOUS
  <2>1. heap[o] \in SessionType
      OBVIOUS
  <2>2. heap'[o] \in {heap[o], [heap[o] EXCEPT !.last = now], [heap[o] EXCEPT !.max = MaxPlaceholders]}
      BY DEF Touch, SetMaxPlaceholders
  <2>3. /\ [heap[o] EXCEPT !.last = now].map = heap[o].map
        /\ [heap[o] EXCEPT !.max = MaxPlaceholders].map = heap[o].map
      BY <2>1 DEF SessionType
  <2>4. CASE heap'[o] = heap[o]
      BY <2>4
  <2>5. CASE heap'[o] = [heap[o] EXCEPT !.last = now]
      BY <2>3, <2>5
  <2>6. CASE heap'[o] = [heap[o] EXCEPT !.max = MaxPlaceholders]
      BY <2>3, <2>6
  <2> QED
      BY <2>2, <2>4, <2>5, <2>6
<1>2. request[r].pc # "open" /\ \A q \in Requests \ {r} : request'[q] = request[q]
    BY DEF Touch, SetMaxPlaceholders
<1> QED
    BY <1>1, <1>2 DEF MapsOnlyCleared, SessionStays

\* Collecting garbage takes nothing from a request that is being handled.
LEMMA ReclaimStays ==
    ASSUME SessionInv, NEW l, NEW q, heap' = Reclaimed(heap, l, request')
    PROVE  /\ MapsOnlyCleared
           /\ \A r \in Requests : request'[r] = request[r] => SessionStays(r)
<1> USE DEF SessionInv, SessionTypeOK
<1>1. MapsOnlyCleared
    BY DEF MapsOnlyCleared, Reclaimed, Unallocated
<1>2. ASSUME NEW r \in Requests, request'[r] = request[r], request[r].pc = "open"
      PROVE  heap'[request[r].obj].map = heap[request[r].obj].map
    BY <1>2 DEF Reclaimed
<1> QED
    BY <1>1, <1>2 DEF SessionStays

\* The end of a request does not disturb the others.
LEMMA EndStays ==
    ASSUME SessionInv, NEW r \in Requests, EndRequest(r)
    PROVE  MapsOnlyCleared /\ \A q \in Requests \ {r} : SessionStays(q)
<1>1. \A q \in Requests \ {r} : request'[q] = request[q]
    BY DEF EndRequest, SessionInv, SessionTypeOK
<1> QED
    BY <1>1, ReclaimStays DEF EndRequest

\* The cleanup of the sessions does not disturb a request.
LEMMA CleanStays ==
    ASSUME SessionInv, Clean
    PROVE  MapsOnlyCleared /\ \A q \in Requests : SessionStays(q)
<1>1. request' = request
    BY DEF Clean, CleanStart, CleanCheck, CleanDelete, CleanEnd
<1>2. CASE heap' = heap
    BY <1>1, <1>2 DEF MapsOnlyCleared, SessionStays
<1>3. CASE heap' = Reclaimed(heap, live', request')
    BY <1>1, <1>3, ReclaimStays
<1> QED
    BY <1>2, <1>3 DEF Clean, CleanStart, CleanCheck, CleanDelete, CleanEnd

\* The session of a handler stays the same one and does not become empty.
SessionServes(q) ==
    chat[q].stage # "none" =>
        /\ request'[q] = request[q]
        /\ Held(SessionOf(q).map) # {} => Held(SessionOf(q).map)' # {}

\* What a handler finds in its session of the hot tier stays there, and the
\* session stays as young as the clock.
HotServes(q) ==
    chat[q].stage # "none" =>
        /\ hot'[sid(q)].last = now'
        /\ \A p \in Placeholders :
              hot[sid(q)].map[p] # None => hot'[sid(q)].map[p] = hot[sid(q)].map[p]

\* A handler that is being served and does nothing itself goes on.
LEMMA Bystander ==
    ASSUME ChatInv, NEW q \in Requests, chat'[q] = chat[q], SessionServes(q), HotServes(q)
    PROVE  AtWork(chat'[q]) /\ Served(q)'
<1>1. AtWork(chat[q]) /\ Served(q) /\ chat[q] \in HandlerState
    BY DEF ChatInv, Handlers, ChatTypes
<1>2. CASE chat[q].stage = "none"
  <2>1. chat'[q] = NoChat
      BY <1>1, <1>2 DEF AtWork
  <2> QED
      BY <2>1, NobodyWorks DEF Served
<1>3. CASE chat[q].stage # "none"
  <2>1. request'[q] = request[q] /\ request[q].pc = "open"
        /\ hot'[sid(q)].last = now'
        /\ (Held(SessionOf(q).map) # {} => Held(SessionOf(q).map)' # {})
      BY <1>1, <1>3 DEF Served, SessionServes, HotServes
  <2>2. ASSUME NEW v \in chat[q].saved PROVE hot'[sid(q)].map[Token[v]] = v
    <3>1. v \in Values /\ Token[v] \in Placeholders /\ v # None
        BY <1>1, TokenFacts DEF HandlerState
    <3>2. hot[sid(q)].map[Token[v]] = v
        BY <1>1 DEF Served
    <3> QED
        BY <1>3, <3>1, <3>2 DEF HotServes
  <2> QED
      BY <1>1, <2>1, <2>2 DEF Served, sid
<1> QED
    BY <1>2, <1>3

\* A step that takes nothing from the session of a handler serves it.
LEMMA ServedBySession ==
    ASSUME ChatInv, NEW q \in Requests, SessionStays(q)
    PROVE  SessionServes(q)
    BY DEF ChatInv, Handlers, Served, SessionStays, SessionServes, SessionOf

\* So does one that leaves the hot tier and the clock alone.
LEMMA ServedByHot ==
    ASSUME ChatInv, NEW q \in Requests, hot' = hot, now' = now
    PROVE  HotServes(q)
    BY DEF ChatInv, Handlers, Served, HotServes

\* Clearing maps mixes nothing up.
LEMMA ClearedHonest ==
    ASSUME ChatInv, MapsOnlyCleared
    PROVE  \A o \in Objects : Honest(heap'[o].map)
<1> SUFFICES ASSUME NEW o \in Objects PROVE Honest(heap'[o].map)
    OBVIOUS
<1>1. heap'[o].map \in {heap[o].map, NoPlaceholders}
    BY DEF MapsOnlyCleared
<1>2. Honest(heap[o].map) /\ Honest(NoPlaceholders)
    BY NothingStored DEF ChatInv, TiersHonest
<1> QED
    BY <1>1, <1>2

----------------------------------------------------------------------------
(* One lemma per action, or per group of actions that work alike.           *)

\* What each step has to keep, besides the invariant of the sessions.
ProxyKept == ChatTypes' /\ TiersHonest' /\ Handlers'

\* A step of the handler itself that touches no session and no store.
LEMMA HandlerMoves ==
    ASSUME ChatInv, NEW r \in Requests, chat[r].stage # "none",
           UNCHANGED <<sessionVars, hot, cold, pending>>,
           NEW c \in HandlerState, chat' = [chat EXCEPT ![r] = c],
           AtWork(c), c.saved = chat[r].saved, Contributed(c) => Contributed(chat[r])
    PROVE  ProxyKept
<1>1. chat \in [Requests -> HandlerState] /\ chat'[r] = c
    BY DEF ChatInv, ChatTypes
<1>2. \A q \in Requests \ {r} : AtWork(chat'[q]) /\ Served(q)'
  <2> SUFFICES ASSUME NEW q \in Requests \ {r} PROVE AtWork(chat'[q]) /\ Served(q)'
      OBVIOUS
  <2>1. chat'[q] = chat[q] /\ SessionStays(q) /\ now' = now
      BY <1>1 DEF sessionVars, SessionStays
  <2> QED
      BY <2>1, Bystander, ServedBySession, ServedByHot
<1>3. Served(r)'
    BY <1>1 DEF ChatInv, Handlers, Served, sid, SessionOf, sessionVars
<1>4. ChatTypes'
    BY <1>1 DEF ChatInv, ChatTypes
<1>5. TiersHonest'
    BY DEF ChatInv, TiersHonest, sessionVars
<1> QED
    BY <1>1, <1>2, <1>3, <1>4, <1>5 DEF ProxyKept, Handlers

\* The next detector starts with the originals it finds in the body.
LEMMA EntersStage ==
    ASSUME NEW c \in HandlerState, AtWork(c), NEW s \in MaskingStages, NEW ner \in BOOLEAN
    PROVE  /\ Entering(c, s, ner) \in HandlerState
           /\ Entering(c, s, ner).saved = c.saved /\ Entering(c, s, ner).stage = s
           /\ Entering(c, s, ner).cur = c.cur
           /\ c.stage \in MaskingStages => AtWork(Entering(c, s, ner))
<1> DEFINE d == Entering(c, s, ner)
<1>1. (IF s = "ner" /\ ~ ner THEN {} ELSE c.body \cap Finds(s)) \subseteq Values
    BY TokenFacts DEF Finds, MaskingStages
<1>2. /\ d \in HandlerState
      /\ d.saved = c.saved /\ d.stage = s /\ d.cur = c.cur /\ d.answer = c.answer
      /\ d.todo \subseteq Values
    BY <1>1 DEF Entering, HandlerState, MaskingStages
<1> HIDE DEF d
<1>3. c.stage \in MaskingStages => AtWork(d)
    BY <1>2 DEF AtWork, MaskingStages
<1> QED
    BY <1>2, <1>3 DEF d

\* What the detectors made of a text is a text.
LEMMA MaskedIsText ==
    ASSUME NEW r \in Requests, NEW text \in SUBSET (Values \cup Placeholders)
    PROVE  Masked(r, text) \in SUBSET (Values \cup Placeholders)
<1>1. Maskable(r) \subseteq Values
    BY TokenFacts DEF Maskable
<1> QED
    BY <1>1, TokenFacts DEF Masked

\* The handler goes through the detectors, once or twice.
LEMMA DetectorsStep ==
    ASSUME ChatInv, NEW r \in Requests, NextDetector(r) \/ FirstPassDone(r) \/ SecondPassDone(r)
    PROVE  ProxyKept
<1>1. chat[r] \in HandlerState /\ AtWork(chat[r])
    BY DEF ChatInv, ChatTypes, Handlers
<1>2. /\ chat[r].stage \in MaskingStages /\ chat[r].stage # "none"
      /\ chat[r].cur \in Values \cup {None} /\ chat[r].todo \subseteq Values
      /\ UNCHANGED <<sessionVars, hot, cold, pending>>
    BY <1>1 DEF NextDetector, FirstPassDone, SecondPassDone, AtWork, MaskingStages
<1>3. CASE NextDetector(r)
  <2>1. PICK s \in {"builtin", "extract", "ner"}, answered \in BOOLEAN :
           chat' = [chat EXCEPT ![r] = Entering(chat[r], s, answered)]
    <3>1. NERAvailable \in BOOLEAN
        BY ChatAssumption
    <3> QED
        BY <1>3, <3>1 DEF NextDetector
  <2>2. s \in MaskingStages
      BY DEF MaskingStages
  <2>3. Contributed(Entering(chat[r], s, answered)) => Contributed(chat[r])
      BY <1>1, <1>2, <2>2, EntersStage DEF Contributed
  <2> QED
      BY <1>1, <1>2, <2>1, <2>2, <2>3, EntersStage, HandlerMoves
<1>4. CASE FirstPassDone(r)
  <2>1. PICK body \in {chat[r].body, Masked(r, chat[r].body)} :
           chat' = [chat EXCEPT ![r] =
                       IF chat[r].role = "tool"
                       THEN Entering([chat[r] EXCEPT !.body = body, !.role = "args"], "local", FALSE)
                       ELSE [chat[r] EXCEPT !.body = body, !.stage = "dispatch"]]
      BY <1>4 DEF FirstPassDone
  <2>2. body \in SUBSET (Values \cup Placeholders)
      BY <1>1, MaskedIsText DEF HandlerState
  <2>3. CASE chat[r].role = "tool"
    <3> DEFINE d == [chat[r] EXCEPT !.body = body, !.role = "args"]
    <3>1. d \in HandlerState /\ d.saved = chat[r].saved /\ d.cur = chat[r].cur
          /\ d.stage = chat[r].stage /\ d.answer = chat[r].answer /\ d.todo = chat[r].todo
        BY <1>1, <2>2 DEF HandlerState
    <3>2. AtWork(d)
        BY <1>1, <1>2, <3>1 DEF AtWork, MaskingStages
    <3>3. chat' = [chat EXCEPT ![r] = Entering(d, "local", FALSE)]
        BY <2>1, <2>3
    <3>4. "local" \in MaskingStages
        BY DEF MaskingStages
    <3> HIDE DEF d
    <3> DEFINE e == Entering(d, "local", FALSE)
    <3>5. /\ e \in HandlerState /\ AtWork(e)
          /\ e.saved = chat[r].saved /\ e.stage = "local" /\ e.cur = chat[r].cur
        BY <1>2, <3>1, <3>2, <3>4, EntersStage
    <3> HIDE DEF e
    <3>6. Contributed(e) => Contributed(chat[r])
        BY <1>2, <3>5 DEF Contributed
    <3> QED
        BY <1>2, <3>3, <3>5, <3>6, HandlerMoves DEF e
  <2>4. CASE chat[r].role # "tool"
    <3> DEFINE d == [chat[r] EXCEPT !.body = body, !.stage = "dispatch"]
    <3>1. d \in HandlerState /\ d.saved = chat[r].saved /\ d.stage = "dispatch" /\ d.answer = chat[r].answer
        BY <1>1, <2>2 DEF HandlerState
    <3>2. chat' = [chat EXCEPT ![r] = d]
        BY <2>1, <2>4
    <3> HIDE DEF d
    <3>3. AtWork(d) /\ (Contributed(d) => Contributed(chat[r]))
        BY <1>1, <3>1 DEF AtWork, Contributed, MaskingStages
    <3> QED
        BY <1>2, <3>1, <3>2, <3>3, HandlerMoves
  <2> QED
      BY <2>3, <2>4
<1>5. CASE SecondPassDone(r)
  <2> DEFINE d == [chat[r] EXCEPT !.body = Masked(r, @), !.stage = "dispatch"]
  <2>1. Masked(r, chat[r].body) \in SUBSET (Values \cup Placeholders)
      BY <1>1, MaskedIsText DEF HandlerState
  <2>2. d \in HandlerState /\ d.saved = chat[r].saved /\ d.stage = "dispatch" /\ d.answer = chat[r].answer
      BY <1>1, <2>1 DEF HandlerState
  <2>3. chat' = [chat EXCEPT ![r] = d]
      BY <1>5 DEF SecondPassDone
  <2> HIDE DEF d
  <2>4. AtWork(d) /\ (Contributed(d) => Contributed(chat[r]))
      BY <1>1, <2>2 DEF AtWork, Contributed, MaskingStages
  <2> QED
      BY <1>2, <2>2, <2>3, <2>4, HandlerMoves
<1> QED
    BY <1>3, <1>4, <1>5

\* The request is sent with the hint if its session is not empty, which it is not
\* if the request masked anything.
LEMMA DispatchStep ==
    ASSUME ChatInv, NEW r \in Requests, Dispatch(r)
    PROVE  ProxyKept
<1> DEFINE d == [chat[r] EXCEPT !.stage = "llm", !.prompt = Held(SessionOf(r).map) # {},
                                !.role = None, !.ner = FALSE]
<1>1. chat[r] \in HandlerState /\ AtWork(chat[r]) /\ Served(r) /\ chat[r].stage = "dispatch"
    BY DEF ChatInv, ChatTypes, Handlers, Dispatch
<1>2. /\ d \in HandlerState /\ d.saved = chat[r].saved /\ d.stage = "llm" /\ d.answer = chat[r].answer
      /\ d.prompt = (Held(SessionOf(r).map) # {})
    BY <1>1 DEF HandlerState
<1>3. chat' = [chat EXCEPT ![r] = d] /\ UNCHANGED <<sessionVars, hot, cold, pending>>
    BY DEF Dispatch
<1> HIDE DEF d
<1>4. AtWork(d) /\ (Contributed(d) => Contributed(chat[r]))
    BY <1>1, <1>2 DEF AtWork, Contributed, MaskingStages, Served
<1> QED
    BY <1>1, <1>2, <1>3, <1>4, HandlerMoves

\* The answer of the model comes, and placeholders are looked for in the session.
LEMMA AnswerStep ==
    ASSUME ChatInv, NEW r \in Requests,
           Respond(r) \/ \E p \in Placeholders : RestoreFromSession(r, p) \/ SessionMisses(r, p)
    PROVE  ProxyKept
<1>1. chat[r] \in HandlerState /\ AtWork(chat[r])
    BY DEF ChatInv, ChatTypes, Handlers
<1>2. UNCHANGED <<sessionVars, hot, cold, pending>> /\ chat[r].stage \in {"llm", "restore"}
    BY DEF Respond, RestoreFromSession, SessionMisses
<1>3. CASE Respond(r)
  <2>1. PICK todo \in SUBSET Placeholders :
           chat' = [chat EXCEPT ![r] = [chat[r] EXCEPT !.stage = "restore", !.todo = todo, !.body = {}]]
      BY <1>3, ZenonT(30) DEF Respond
  <2> DEFINE d == [chat[r] EXCEPT !.stage = "restore", !.todo = todo, !.body = {}]
  <2>2. /\ d \in HandlerState /\ d.saved = chat[r].saved /\ d.stage = "restore"
        /\ d.answer = chat[r].answer /\ d.todo \subseteq Placeholders
      BY <1>1 DEF HandlerState
  <2>3. chat' = [chat EXCEPT ![r] = d]
      BY <2>1
  <2> HIDE DEF d
  <2>4. AtWork(d) /\ (Contributed(d) => Contributed(chat[r]))
      BY <1>1, <2>2 DEF AtWork, Contributed, MaskingStages
  <2> QED
      BY <1>2, <2>2, <2>3, <2>4, HandlerMoves
<1>4. ASSUME NEW p \in Placeholders, RestoreFromSession(r, p)
      PROVE  ProxyKept
  <2> DEFINE v == SessionOf(r).map[p]
             d == [chat[r] EXCEPT !.todo = @ \ {p}, !.answer[p] = v]
  <2>1. v \in Values /\ \A w \in Values : Token[w] = p => v = w
    <3>1. request[r].obj \in Objects
        BY <1>4, <1>2 DEF ChatInv, Handlers, Served, SessionInv, SessionTypeOK
    <3>2. SessionOf(r) \in SessionType /\ Honest(SessionOf(r).map)
        BY <3>1 DEF ChatInv, TiersHonest, SessionOf, SessionInv, SessionTypeOK
    <3> QED
        BY <1>4, <3>2 DEF RestoreFromSession, SessionType, Honest
  <2>2. /\ d \in HandlerState /\ d.saved = chat[r].saved /\ d.stage = chat[r].stage
        /\ d.answer = [chat[r].answer EXCEPT ![p] = v] /\ d.todo \subseteq chat[r].todo
      BY <1>1, <2>1 DEF HandlerState
  <2>3. chat' = [chat EXCEPT ![r] = d]
      BY <1>4 DEF RestoreFromSession
  <2>4. chat[r].answer \in [Placeholders -> Values \cup {None, Unrecoverable}] /\ chat[r].saved \subseteq Values
      BY <1>1 DEF HandlerState
  <2>5. \A w \in Values : d.answer[Token[w]] = (IF Token[w] = p THEN w ELSE chat[r].answer[Token[w]])
      BY <2>1, <2>2, <2>4, TokenFacts
  <2> HIDE DEF d, v
  <2>6. AtWork(d) /\ (Contributed(d) => Contributed(chat[r]))
      BY <1>1, <1>2, <1>4, <2>2, <2>4, <2>5, TokenFacts DEF AtWork, Contributed, MaskingStages, RestoreFromSession
  <2> QED
      BY <1>2, <2>2, <2>3, <2>6, HandlerMoves
<1>5. ASSUME NEW p \in Placeholders, SessionMisses(r, p)
      PROVE  ProxyKept
  <2> DEFINE d == [chat[r] EXCEPT !.stage = "lookup", !.cur = p]
  <2>1. /\ d \in HandlerState /\ d.saved = chat[r].saved /\ d.stage = "lookup"
        /\ d.answer = chat[r].answer /\ d.todo = chat[r].todo /\ d.cur = p
      BY <1>1 DEF HandlerState
  <2>2. chat' = [chat EXCEPT ![r] = d] /\ chat[r].stage = "restore"
      BY <1>5 DEF SessionMisses
  <2> HIDE DEF d
  <2>3. AtWork(d) /\ (Contributed(d) => Contributed(chat[r]))
      BY <1>1, <2>1, <2>2 DEF AtWork, Contributed, MaskingStages
  <2> QED
      BY <1>2, <2>1, <2>2, <2>3, HandlerMoves
<1> QED
    BY <1>3, <1>4, <1>5

\* A handler that is served after its own step.
LEMMA HandlerServed ==
    ASSUME ChatInv, NEW r \in Requests, chat[r].stage # "none", SessionServes(r), HotServes(r),
           NEW c \in HandlerState, chat'[r] = c,
           \A v \in c.saved : v \in chat[r].saved \/ hot'[sid(r)].map[Token[v]] = v,
           Contributed(c) => Contributed(chat[r]) \/ Held(SessionOf(r).map)' # {}
    PROVE  Served(r)'
<1>1. Served(r) /\ chat[r] \in HandlerState
    BY DEF ChatInv, Handlers, ChatTypes
<1>2. /\ request'[r] = request[r] /\ request[r].pc = "open" /\ hot'[sid(r)].last = now'
      /\ (Held(SessionOf(r).map) # {} => Held(SessionOf(r).map)' # {})
    BY <1>1 DEF SessionServes, HotServes, Served
<1>3. ASSUME NEW v \in c.saved PROVE hot'[sid(r)].map[Token[v]] = v
  <2>1. CASE v \in chat[r].saved
    <3>1. hot[sid(r)].map[Token[v]] = v /\ Token[v] \in Placeholders /\ v # None
        BY <1>1, <2>1, TokenFacts DEF Served, HandlerState
    <3> QED
        BY <3>1 DEF HotServes
  <2> QED
      BY <2>1
<1> QED
    BY <1>1, <1>2, <1>3 DEF Served, sid

\* A step that one handler takes, seen from all of them.
LEMMA AllServed ==
    ASSUME ChatInv, NEW r \in Requests, NEW c \in HandlerState, chat' = [chat EXCEPT ![r] = c],
           \A q \in Requests \ {r} : SessionServes(q) /\ HotServes(q),
           AtWork(c), Served(r)'
    PROVE  Handlers' /\ chat' \in [Requests -> HandlerState]
<1>1. chat' \in [Requests -> HandlerState] /\ chat'[r] = c
      /\ \A q \in Requests \ {r} : chat'[q] = chat[q]
    BY DEF ChatInv, ChatTypes
<1> QED
    BY <1>1, Bystander DEF Handlers

\* The session a request has obtained is one of the session ids.
LEMMA HasSession ==
    ASSUME ChatInv, NEW r \in Requests, request[r].pc = "open"
    PROVE  sid(r) \in SessionIDs /\ request[r].obj \in Objects
    BY DEF ChatInv, SessionInv, OwnerInv, SessionTypeOK, sid

\* Touching a session of the hot tier serves everyone.
LEMMA HotTouched ==
    ASSUME ChatInv, NEW id \in SessionIDs, hot' = Touched(id), now' = now
    PROVE  /\ hot' \in [SessionIDs -> HotSession] /\ hot'[id].last = now
           /\ \A i \in SessionIDs : hot'[i].map = hot[i].map /\ Honest(hot'[i].map)
           /\ \A q \in Requests : HotServes(q)
<1>1. now \in Nat /\ hot \in [SessionIDs -> HotSession] /\ hot[id] \in HotSession
    BY DEF ChatInv, ChatTypes, SessionInv, SessionTypeOK
<1>2. hot' = [hot EXCEPT ![id] = [hot[id] EXCEPT !.last = now]]
    BY DEF Touched
<1>3. [hot[id] EXCEPT !.last = now] \in HotSession
      /\ [hot[id] EXCEPT !.last = now].map = hot[id].map /\ [hot[id] EXCEPT !.last = now].last = now
    BY <1>1 DEF HotSession
<1>4. /\ hot' \in [SessionIDs -> HotSession] /\ hot'[id].last = now
      /\ \A i \in SessionIDs : hot'[i].map = hot[i].map /\ hot'[i].last \in {hot[i].last, now}
    BY <1>1, <1>2, <1>3
<1>5. ASSUME NEW q \in Requests PROVE HotServes(q)
    BY <1>4, HasSession DEF HotServes, ChatInv, Handlers, Served
<1> QED
    BY <1>4, <1>5 DEF ChatInv, TiersHonest

\* So does saving a pair that mixes nothing up.
LEMMA HotSaved ==
    ASSUME ChatInv, NEW id \in SessionIDs, NEW p \in Placeholders, NEW v \in Values,
           \A w \in Values : Token[w] = p => w = v,
           hot[id].map[p] \in {None, v}, hot' = HotWith(id, p, v), now' = now
    PROVE  /\ hot' \in [SessionIDs -> HotSession]
           /\ hot'[id].last = now /\ hot'[id].map[p] = v
           /\ \A i \in SessionIDs : Honest(hot'[i].map)
           /\ \A q \in Requests : HotServes(q)
<1> DEFINE h == [map |-> [hot[id].map EXCEPT ![p] = v], last |-> now]
<1>1. /\ now \in Nat /\ hot \in [SessionIDs -> HotSession] /\ hot[id] \in HotSession
      /\ hot[id].map \in Store /\ Honest(hot[id].map)
    BY DEF ChatInv, ChatTypes, SessionInv, SessionTypeOK, HotSession, TiersHonest
<1>2. hot' = [hot EXCEPT ![id] = h]
    BY DEF HotWith
<1>3. /\ h \in HotSession /\ h.last = now /\ Honest(h.map) /\ h.map[p] = v
      /\ \A o \in Placeholders : hot[id].map[o] # None => h.map[o] = hot[id].map[o]
    BY <1>1, HonestWith DEF HotSession, Store
<1> HIDE DEF h
<1>4. /\ hot' \in [SessionIDs -> HotSession] /\ hot'[id] = h
      /\ \A i \in SessionIDs \ {id} : hot'[i] = hot[i]
    BY <1>1, <1>2, <1>3
<1>5. ASSUME NEW q \in Requests PROVE HotServes(q)
    BY <1>3, <1>4, HasSession DEF HotServes, ChatInv, Handlers, Served
<1> QED
    BY <1>3, <1>4, <1>5 DEF ChatInv, TiersHonest

\* Adding such a pair to a session serves everyone who uses it: it is not empty
\* afterwards, although it may have evicted all it had before.
LEMMA AddServes ==
    ASSUME ChatInv, NEW r \in Requests, NEW p \in Placeholders, NEW v \in Values,
           \A w \in Values : Token[w] = p => w = v, AddPlaceholder(r, p, v)
    PROVE  /\ \A o \in Objects : Honest(heap'[o].map)
           /\ \A q \in Requests : SessionServes(q)
           /\ Held(SessionOf(r).map)' # {} /\ now' = now
<1> DEFINE a == request[r].obj
           t == Added(heap[a], p, v)
<1>1. request[r].pc = "open" /\ UNCHANGED <<now, request>>
    BY DEF AddPlaceholder
<1>2. a \in Objects /\ heap \in [Objects -> SessionType] /\ heap[a] \in SessionType
    BY <1>1, HasSession DEF ChatInv, SessionInv, SessionTypeOK
<1>3. Matches(heap[a].map, heap[a].order) /\ (heap[a].max > 0 => Len(heap[a].order) <= heap[a].max)
    BY <1>2 DEF ChatInv, SessionInv, OrderMatchesMap, CapInv
<1>4. t.map[p] = v
    BY <1>2, <1>3, AddedEffect
<1>5. Honest(t.map)
    BY <1>2, AddedHonest DEF ChatInv, TiersHonest
<1>6. heap' = [heap EXCEPT ![a] = t]
    BY DEF AddPlaceholder
<1> HIDE DEF t
<1>7. \A o \in Objects : heap'[o] = IF o = a THEN t ELSE heap[o]
    BY <1>2, <1>6
<1>8. Held(t.map) # {}
    BY <1>4, TokenFacts DEF Held
<1>9. \A o \in Objects : Honest(heap'[o].map)
    BY <1>5, <1>7 DEF ChatInv, TiersHonest
<1>10. ASSUME NEW q \in Requests PROVE SessionServes(q)
  <2>1. chat[q].stage # "none" => request[q].obj \in Objects
      BY HasSession DEF ChatInv, Handlers, Served
  <2> QED
      BY <1>1, <1>7, <1>8, <2>1 DEF SessionServes, SessionOf
<1> QED
    BY <1>1, <1>2, <1>7, <1>8, <1>9, <1>10 DEF SessionOf

\* Steps of the sessions in which no handler takes part.
LEMMA SessionMoves ==
    ASSUME ChatInv, UNCHANGED chatVars, now' = now,
           MapsOnlyCleared, \A q \in Requests : SessionStays(q)
    PROVE  ProxyKept
<1>1. UNCHANGED <<hot, cold, pending, chat>>
    BY DEF chatVars
<1>2. Handlers'
    BY <1>1, Bystander, ServedBySession, ServedByHot DEF Handlers
<1>3. ChatTypes' /\ TiersHonest'
    BY <1>1, ClearedHonest DEF ChatInv, ChatTypes, TiersHonest
<1> QED
    BY <1>2, <1>3 DEF ProxyKept

\* A request that gets its session.
LEMMA OpeningStep ==
    ASSUME ChatInv, NEW r \in Requests,
           TouchMemory(r) \/ SetCap(r) \/ \E id \in SessionIDs : Receive(r, id)
    PROVE  ProxyKept
<1>1. SessionInv /\ UNCHANGED chatVars /\ now' = now
    BY DEF ChatInv, TouchMemory, SetCap, Receive, Touch, SetMaxPlaceholders, LoadOrStore
<1>2. MapsOnlyCleared /\ \A q \in Requests : SessionStays(q)
    BY <1>1, OpeningStays, ReceiveStays DEF TouchMemory, SetCap, Receive
<1> QED
    BY <1>1, <1>2, SessionMoves

\* The cleanup of the sessions.
LEMMA CleanStep ==
    ASSUME ChatInv, CleanSessions
    PROVE  ProxyKept
<1>1. SessionInv /\ UNCHANGED chatVars /\ now' = now /\ Clean
    BY DEF ChatInv, CleanSessions, Clean, CleanStart, CleanCheck, CleanDelete, CleanEnd
<1> QED
    BY <1>1, CleanStays, SessionMoves

\* A step of somebody else than the proxy.
LEMMA StutterStep ==
    ASSUME ChatInv, UNCHANGED vars
    PROVE  ProxyKept
<1>1. UNCHANGED chatVars /\ UNCHANGED <<now, heap, request>>
    BY DEF vars, chatVars
<1>2. MapsOnlyCleared /\ \A q \in Requests : SessionStays(q)
    BY <1>1 DEF MapsOnlyCleared, SessionStays
<1> QED
    BY <1>1, <1>2, SessionMoves

\* The clock moves when no handler is at work.
LEMMA TickStep ==
    ASSUME ChatInv, TickBetweenRequests
    PROVE  ProxyKept
<1>1. UNCHANGED <<heap, live, request, cleaner, hot, cold, pending, chat>>
    BY DEF TickBetweenRequests, Tick, chatVars
<1>2. \A q \in Requests : chat[q].stage = "none"
    BY DEF TickBetweenRequests, ChatInv, Handlers, Served
<1>3. Handlers'
    BY <1>1, <1>2, Bystander DEF Handlers, SessionServes, HotServes
<1>4. ChatTypes' /\ TiersHonest'
    BY <1>1 DEF ChatInv, ChatTypes, TiersHonest
<1> QED
    BY <1>3, <1>4 DEF ProxyKept

\* The handler starts: nothing is saved, nothing is restored yet.
LEMMA StartStep ==
    ASSUME ChatInv, NEW r \in Requests, StartMasking(r)
    PROVE  ProxyKept
<1>1. PICK role \in Roles, content \in SUBSET Values, literal \in SUBSET Literals :
         chat' = [chat EXCEPT ![r] =
                    Entering([NoChat EXCEPT !.role = role, !.body = content \cup literal], "local", FALSE)]
    BY DEF StartMasking
<1> DEFINE c == [NoChat EXCEPT !.role = role, !.body = content \cup literal]
           d == [c EXCEPT !.stage = "local", !.ner = FALSE, !.todo = c.body \cap Finds("local")]
<1>2. role \in {"text", "tool", "args"} /\ literal \subseteq Placeholders
    BY ChatAssumption
<1>3. d \in HandlerState /\ d.saved = {} /\ d.stage = "local" /\ d.cur = None
      /\ d.answer = NoPlaceholders /\ d.todo \subseteq Values
  <2>1. Finds("local") \subseteq Values
      BY TokenFacts DEF Finds
  <2> QED
      BY <1>2, <2>1, NobodyWorks DEF HandlerState, NoChat
<1>4. chat' = [chat EXCEPT ![r] = d]
    BY <1>1 DEF Entering
<1> HIDE DEF c, d
<1>5. AtWork(d) /\ ~ Contributed(d)
    BY <1>3, TokenFacts DEF AtWork, Contributed, MaskingStages, NoPlaceholders
<1>6. request[r].pc = "open" /\ UNCHANGED <<sessionVars, cold, pending>> /\ hot' = Touched(sid(r))
    BY DEF StartMasking
<1>7. UNCHANGED <<now, heap, request>>
    BY <1>6 DEF sessionVars
<1>8. /\ hot' \in [SessionIDs -> HotSession] /\ hot'[sid(r)].last = now
      /\ \A i \in SessionIDs : Honest(hot'[i].map)
      /\ \A q \in Requests : HotServes(q)
    BY <1>6, <1>7, HasSession, HotTouched
<1>9. \A q \in Requests : SessionServes(q)
    BY <1>7 DEF SessionServes, SessionOf
<1>10. Served(r)'
  <2>1. chat'[r] = d
      BY <1>4 DEF ChatInv, ChatTypes
  <2> QED
      BY <1>3, <1>5, <1>6, <1>7, <1>8, <2>1 DEF Served, sid
<1>11. Handlers' /\ chat' \in [Requests -> HandlerState]
    BY <1>3, <1>4, <1>5, <1>8, <1>9, <1>10, AllServed
<1>12. ChatTypes' /\ TiersHonest'
    BY <1>6, <1>7, <1>8, <1>11 DEF ChatInv, ChatTypes, TiersHonest
<1> QED
    BY <1>11, <1>12 DEF ProxyKept

\* The request ends: rejected before its handler started, or with its answer.
LEMMA EndStep ==
    ASSUME ChatInv, NEW r \in Requests, RejectBody(r) \/ Finish(r)
    PROVE  ProxyKept
<1>1. /\ EndRequest(r) /\ request[r].pc = "open" /\ UNCHANGED <<now, cold, pending>>
      /\ chat \in [Requests -> HandlerState]
    BY DEF RejectBody, Finish, EndRequest, ChatInv, ChatTypes
<1>2. MapsOnlyCleared /\ \A q \in Requests \ {r} : SessionServes(q)
    BY <1>1, EndStays, ServedBySession DEF ChatInv
<1>3. /\ hot' \in [SessionIDs -> HotSession]
      /\ \A i \in SessionIDs : Honest(hot'[i].map)
      /\ \A q \in Requests : HotServes(q)
  <2>1. CASE hot' = hot
      BY <1>1, <2>1, ServedByHot DEF ChatInv, ChatTypes, TiersHonest
  <2>2. CASE hot' = Touched(sid(r))
      BY <1>1, <2>2, HasSession, HotTouched
  <2> QED
      BY <2>1, <2>2 DEF RejectBody, Finish
<1>4. chat' = [chat EXCEPT ![r] = NoChat]
  <2>1. chat[r].stage = "none" => chat[r] = NoChat
      BY DEF ChatInv, Handlers, AtWork
  <2>2. CASE RejectBody(r)
      BY <1>1, <2>1, <2>2 DEF RejectBody
  <2>3. CASE Finish(r)
      BY <2>3 DEF Finish
  <2> QED
      BY <2>2, <2>3
<1>5. Served(r)'
  <2>1. chat'[r] = NoChat
      BY <1>1, <1>4
  <2> QED
      BY <2>1, NobodyWorks DEF Served
<1>6. Handlers' /\ chat' \in [Requests -> HandlerState]
    BY <1>2, <1>3, <1>4, <1>5, NobodyWorks, AllServed
<1>7. ChatTypes' /\ TiersHonest'
    BY <1>1, <1>2, <1>3, <1>6, ClearedHonest DEF ChatInv, ChatTypes, TiersHonest
<1> QED
    BY <1>6, <1>7 DEF ProxyKept

\* A handler adds a pair to its session: found by a detector, found again, or
\* fetched from the storage.
LEMMA AddStep ==
    ASSUME ChatInv, NEW r \in Requests, NEW p \in Placeholders, NEW v \in Values,
           \A w \in Values : Token[w] = p => w = v, AddPlaceholder(r, p, v),
           UNCHANGED <<hot, cold, pending>>, chat[r].stage # "none",
           NEW c \in HandlerState, chat' = [chat EXCEPT ![r] = c],
           AtWork(c), c.saved = chat[r].saved
    PROVE  ProxyKept
<1>1. /\ \A o \in Objects : Honest(heap'[o].map)
      /\ \A q \in Requests : SessionServes(q) /\ HotServes(q)
      /\ Held(SessionOf(r).map)' # {}
    BY AddServes, ServedByHot
<1>2. chat'[r] = c
    BY DEF ChatInv, ChatTypes
<1>3. Served(r)'
    BY <1>1, <1>2, HandlerServed
<1>4. Handlers' /\ chat' \in [Requests -> HandlerState]
    BY <1>1, <1>3, AllServed
<1>5. ChatTypes' /\ TiersHonest'
    BY <1>1, <1>4 DEF ChatInv, ChatTypes, TiersHonest
<1> QED
    BY <1>4, <1>5 DEF ProxyKept

\* A detector's find is put into the session, or put there again.
LEMMA FoundStep ==
    ASSUME ChatInv, NEW r \in Requests, NEW v \in Values, MaskValue(r, v) \/ ExtractPlaceholder(r, v)
    PROVE  ProxyKept
<1>1. /\ AddPlaceholder(r, Token[v], v) /\ Token[v] \in Placeholders
      /\ \A w \in Values : Token[w] = Token[v] => w = v
    BY HandlerAdds, TokenFacts
<1>2. chat[r] \in HandlerState /\ AtWork(chat[r]) /\ UNCHANGED <<hot, cold, pending>>
      /\ chat[r].stage \in MaskingStages /\ chat[r].stage # "none"
    BY DEF ChatInv, ChatTypes, Handlers, MaskValue, ExtractPlaceholder, MaskingStages
<1>3. PICK c \in {[chat[r] EXCEPT !.cur = v], [chat[r] EXCEPT !.todo = @ \ {v}]} : chat' = [chat EXCEPT ![r] = c]
    BY DEF MaskValue, ExtractPlaceholder
<1>4. /\ c \in HandlerState /\ c.saved = chat[r].saved /\ c.stage = chat[r].stage
      /\ c.answer = chat[r].answer /\ c.cur \in {v, chat[r].cur} /\ c.todo \subseteq chat[r].todo
    BY <1>2, <1>3 DEF HandlerState
<1>5. AtWork(c)
    BY <1>2, <1>4 DEF AtWork, MaskingStages
<1> QED
    BY <1>1, <1>2, <1>3, <1>4, <1>5, AddStep

\* What the storage had goes back into the session.
LEMMA BackfillStep ==
    ASSUME ChatInv, NEW r \in Requests, Backfill(r)
    PROVE  ProxyKept
<1> DEFINE p == chat[r].cur
           v == chat[r].answer[p]
           c == [chat[r] EXCEPT !.stage = "restore", !.cur = None, !.todo = @ \ {p}]
<1>1. /\ AddPlaceholder(r, p, v) /\ p \in Placeholders /\ v \in Values
      /\ \A w \in Values : Token[w] = p => w = v
    BY HandlerAdds
<1>2. chat[r] \in HandlerState /\ AtWork(chat[r]) /\ chat[r].stage = "backfill"
      /\ UNCHANGED <<hot, cold, pending>>
    BY DEF ChatInv, ChatTypes, Handlers, Backfill
<1>3. /\ c \in HandlerState /\ c.saved = chat[r].saved /\ c.stage = "restore"
      /\ c.answer = chat[r].answer /\ c.todo \subseteq chat[r].todo
    BY <1>2 DEF HandlerState
<1>4. chat' = [chat EXCEPT ![r] = c]
    BY DEF Backfill
<1> HIDE DEF c
<1>5. AtWork(c)
    BY <1>2, <1>3 DEF AtWork, MaskingStages
<1> QED
    BY <1>1, <1>2, <1>3, <1>4, <1>5, AddStep, ZenonT(30)

\* What a detector found is saved: the hot tier has it before the handler goes on.
LEMMA SaveStep ==
    ASSUME ChatInv, NEW r \in Requests, SaveValue(r)
    PROVE  ProxyKept
<1> DEFINE v == chat[r].cur
           c == [chat[r] EXCEPT !.cur = None, !.todo = @ \ {v}, !.saved = @ \cup {v}]
<1>1. /\ chat[r] \in HandlerState /\ AtWork(chat[r]) /\ Served(r)
      /\ chat[r].stage \in MaskingStages /\ chat[r].stage # "none" /\ v # None
      /\ UNCHANGED <<sessionVars, cold>>
    BY DEF ChatInv, ChatTypes, Handlers, SaveValue, MaskingStages
<1>2. v \in Values /\ Token[v] \in Placeholders /\ \A w \in Values : Token[w] = Token[v] => w = v
    BY <1>1, TokenFacts DEF AtWork
<1>3. sid(r) \in SessionIDs /\ now' = now
    BY <1>1, HasSession DEF Served, sessionVars
<1>4. hot[sid(r)].map[Token[v]] \in {None, v} /\ hot' = HotWith(sid(r), Token[v], v)
    BY <1>2, <1>3 DEF ChatInv, TiersHonest, Honest, SaveValue
<1>5. /\ hot' \in [SessionIDs -> HotSession] /\ hot'[sid(r)].map[Token[v]] = v
      /\ \A i \in SessionIDs : Honest(hot'[i].map)
      /\ \A q \in Requests : HotServes(q)
    BY <1>2, <1>3, <1>4, HotSaved, SMTT(30)
<1>6. \A q \in Requests : SessionServes(q)
    BY <1>1 DEF sessionVars, SessionServes, SessionOf
<1>7. /\ c \in HandlerState /\ c.saved = chat[r].saved \cup {v} /\ c.stage = chat[r].stage
      /\ c.answer = chat[r].answer /\ c.todo \subseteq chat[r].todo /\ c.cur = None
    BY <1>1, <1>2 DEF HandlerState
<1>8. chat' = [chat EXCEPT ![r] = c] /\ pending' = pending \cup {v}
    BY DEF SaveValue
<1>9. Contributed(chat[r])
    BY <1>1 DEF Contributed
<1> HIDE DEF c
<1>10. AtWork(c)
  <2>1. chat[r].answer[Token[v]] # Unrecoverable
      BY <1>1, <1>2, TokenFacts DEF AtWork, NoPlaceholders
  <2> QED
      BY <1>1, <1>2, <1>7, <2>1 DEF AtWork, MaskingStages
<1>11. Served(r)'
  <2>1. chat'[r] = c
      BY <1>8 DEF ChatInv, ChatTypes
  <2>2. \A w \in c.saved : w \in chat[r].saved \/ hot'[sid(r)].map[Token[w]] = w
      BY <1>5, <1>7
  <2> QED
      BY <1>1, <1>5, <1>6, <1>7, <1>9, <2>1, <2>2, HandlerServed
<1>12. Handlers' /\ chat' \in [Requests -> HandlerState]
    BY <1>5, <1>6, <1>7, <1>8, <1>10, <1>11, AllServed
<1>13. ChatTypes' /\ TiersHonest'
    BY <1>1, <1>2, <1>5, <1>8, <1>12 DEF ChatInv, ChatTypes, TiersHonest, sessionVars
<1> QED
    BY <1>12, <1>13 DEF ProxyKept

\* GetPlaceholder of the storage: if the request saved the original, the hot tier
\* has it; if not, the answer may stay without it, but never has another one.
LEMMA LookUpStep ==
    ASSUME ChatInv, NEW r \in Requests, LookUp(r)
    PROVE  ProxyKept
<1> DEFINE p == chat[r].cur
           found == IF hot[sid(r)].map[p] # None THEN hot[sid(r)].map[p] ELSE cold[p]
<1>1. /\ chat[r] \in HandlerState /\ AtWork(chat[r]) /\ Served(r)
      /\ chat[r].stage = "lookup" /\ chat[r].stage # "none"
      /\ UNCHANGED <<sessionVars, cold, pending>>
    BY DEF ChatInv, ChatTypes, Handlers, LookUp
<1>2. p \in Placeholders /\ chat[r].todo \subseteq Placeholders
      /\ chat[r].answer \in [Placeholders -> Values \cup {None, Unrecoverable}] /\ chat[r].saved \subseteq Values
    BY <1>1 DEF AtWork, HandlerState
<1>3. sid(r) \in SessionIDs /\ now' = now
    BY <1>1, HasSession DEF Served, sessionVars
<1>4. /\ hot[sid(r)].map \in Store /\ Honest(hot[sid(r)].map) /\ cold \in Store /\ Honest(cold)
    BY <1>3 DEF ChatInv, ChatTypes, TiersHonest, HotSession
<1>5. found \in Values \cup {None} /\ \A w \in Values : Token[w] = p => found \in {None, w}
    BY <1>2, <1>4 DEF Store, Honest
<1>6. /\ hot' \in [SessionIDs -> HotSession]
      /\ \A i \in SessionIDs : Honest(hot'[i].map)
      /\ \A q \in Requests : HotServes(q)
  <2>1. CASE found # None /\ hot[sid(r)].map[p] = None
    <3>1. hot' = HotWith(sid(r), p, found)
        BY <2>1 DEF LookUp
    <3> HIDE DEF p, found
    <3> QED
        BY <1>2, <1>3, <1>5, <2>1, <3>1, HotSaved
  <2>2. CASE ~ (found # None /\ hot[sid(r)].map[p] = None)
    <3>1. hot' = hot
        BY <2>2 DEF LookUp
    <3> QED
        BY <1>3, <3>1, ServedByHot DEF ChatInv, ChatTypes, TiersHonest
  <2> QED
      BY <2>1, <2>2
<1>7. \A q \in Requests : SessionServes(q)
    BY <1>1 DEF sessionVars, SessionServes, SessionOf
<1>8. \A v \in chat[r].saved : Token[v] = p => found = v
    BY <1>1, <1>2, TokenFacts DEF Served
<1>9. PICK c \in HandlerState :
         /\ chat' = [chat EXCEPT ![r] = c] /\ AtWork(c) /\ c.saved = chat[r].saved
         /\ Contributed(c) => Contributed(chat[r])
  <2>1. CASE found = None
    <3> DEFINE c == [chat[r] EXCEPT !.stage = "restore", !.cur = None, !.todo = @ \ {p},
                                    !.answer[p] = Unrecoverable]
    <3>1. /\ c \in HandlerState /\ c.saved = chat[r].saved /\ c.stage = "restore"
          /\ c.answer = [chat[r].answer EXCEPT ![p] = Unrecoverable] /\ c.todo \subseteq chat[r].todo
        BY <1>1, <1>2 DEF HandlerState
    <3>2. chat' = [chat EXCEPT ![r] = c]
        BY <2>1 DEF LookUp
    <3> HIDE DEF c, found, p
    <3>3. \A v \in chat[r].saved : Token[v] # p
        BY <1>2, <1>8, <2>1, TokenFacts
    <3>4. AtWork(c) /\ (Contributed(c) => Contributed(chat[r]))
        BY <1>1, <1>2, <3>1, <3>3, TokenFacts DEF AtWork, Contributed, MaskingStages
    <3> QED
        BY <3>1, <3>2, <3>4
  <2>2. CASE found # None
    <3> DEFINE c == [chat[r] EXCEPT !.stage = "backfill", !.answer[p] = found]
    <3>1. /\ c \in HandlerState /\ c.saved = chat[r].saved /\ c.stage = "backfill" /\ c.cur = p
          /\ c.answer = [chat[r].answer EXCEPT ![p] = found] /\ c.todo = chat[r].todo
        BY <1>1, <1>2, <1>5 DEF HandlerState
    <3>2. chat' = [chat EXCEPT ![r] = c]
        BY <2>2 DEF LookUp
    <3> HIDE DEF c, found
    <3>3. found \in Values /\ \A w \in Values : Token[w] = p => found = w
        BY <1>5, <2>2
    <3> HIDE DEF p
    <3>4. AtWork(c) /\ (Contributed(c) => Contributed(chat[r]))
        BY <1>1, <1>2, <3>1, <3>3, TokenFacts DEF AtWork, Contributed, MaskingStages
    <3> QED
        BY <3>1, <3>2, <3>4
  <2> QED
      BY <2>1, <2>2
<1>10. Served(r)'
  <2>1. chat'[r] = c
      BY <1>9 DEF ChatInv, ChatTypes
  <2> QED
      BY <1>1, <1>6, <1>7, <1>9, <2>1, HandlerServed
<1>11. Handlers' /\ chat' \in [Requests -> HandlerState]
    BY <1>6, <1>7, <1>9, <1>10, AllServed
<1>12. ChatTypes' /\ TiersHonest'
    BY <1>1, <1>6, <1>11 DEF ChatInv, ChatTypes, TiersHonest, sessionVars
<1> QED
    BY <1>11, <1>12 DEF ProxyKept

\* A goroutine writes its pair to the cold tier.
LEMMA ColdStep ==
    ASSUME ChatInv, NEW v \in Values, WriteCold(v)
    PROVE  ProxyKept
<1>1. UNCHANGED <<now, heap, request, hot, chat>> /\ pending' = pending \ {v}
    BY DEF WriteCold, sessionVars
<1>2. Token[v] \in Placeholders /\ \A w \in Values : Token[w] = Token[v] => w = v
    BY TokenFacts
<1>3. cold' \in Store /\ Honest(cold')
  <2>1. cold \in Store /\ Honest(cold)
      BY DEF ChatInv, ChatTypes, TiersHonest
  <2>2. [cold EXCEPT ![Token[v]] = v] \in Store /\ Honest([cold EXCEPT ![Token[v]] = v])
      BY <1>2, <2>1, HonestWith
  <2> QED
      BY <2>1, <2>2 DEF WriteCold
<1>4. Handlers'
    BY <1>1, Bystander, ServedByHot DEF Handlers, SessionServes, SessionOf
<1>5. ChatTypes' /\ TiersHonest'
    BY <1>1, <1>3 DEF ChatInv, ChatTypes, TiersHonest
<1> QED
    BY <1>4, <1>5 DEF ProxyKept

\* The scan of the hot tier drops no session that a request uses: it was touched
\* at the clock's present time.
LEMMA ScanStep ==
    ASSUME ChatInv, CleanHot
    PROVE  ProxyKept
<1>1. UNCHANGED <<now, heap, request, cold, pending, chat>>
    BY DEF CleanHot, sessionVars
<1>2. hot' = [id \in SessionIDs |->
                IF now - hot[id].last > TTL THEN [hot[id] EXCEPT !.map = NoPlaceholders] ELSE hot[id]]
    BY DEF CleanHot
<1>3. hot \in [SessionIDs -> HotSession] /\ now \in Nat
    BY DEF ChatInv, ChatTypes, SessionInv, SessionTypeOK
<1>4. ASSUME NEW id \in SessionIDs
      PROVE  /\ hot'[id] \in HotSession /\ Honest(hot'[id].map)
             /\ hot[id].last = now => hot'[id] = hot[id]
  <2>1. hot[id] \in HotSession /\ Honest(hot[id].map)
      BY <1>3 DEF ChatInv, TiersHonest
  <2>2. CASE now - hot[id].last > TTL
    <3>1. hot'[id] = [hot[id] EXCEPT !.map = NoPlaceholders] /\ hot[id].last # now
        BY <1>2, <1>3, <2>2, SessionAssumption
    <3>2. [hot[id] EXCEPT !.map = NoPlaceholders] \in HotSession
          /\ [hot[id] EXCEPT !.map = NoPlaceholders].map = NoPlaceholders
        BY <2>1, NothingStored DEF HotSession
    <3> QED
        BY <3>1, <3>2, NothingStored
  <2>3. CASE ~ now - hot[id].last > TTL
      BY <1>2, <2>1, <2>3
  <2> QED
      BY <2>2, <2>3
<1>5. \A q \in Requests : HotServes(q)
    BY <1>1, <1>4, HasSession DEF HotServes, ChatInv, Handlers, Served
<1>6. Handlers'
    BY <1>1, <1>5, Bystander DEF Handlers, SessionServes, SessionOf
<1>7. hot' \in [SessionIDs -> HotSession]
    BY <1>2, <1>4
<1>8. ChatTypes' /\ TiersHonest'
    BY <1>1, <1>4, <1>7 DEF ChatInv, ChatTypes, TiersHonest
<1> QED
    BY <1>6, <1>8 DEF ProxyKept

\* Every step keeps the invariant.
LEMMA ChatNextInv == ChatInv /\ [ChatNext]_vars => ChatInv'
<1> SUFFICES ASSUME ChatInv, [ChatNext]_vars PROVE ChatInv'
    OBVIOUS
<1>1. ASSUME NEW r \in Requests, Handle(r) PROVE ProxyKept
  <2>1. CASE TouchMemory(r) \/ SetCap(r)
      BY <2>1, OpeningStep
  <2>2. CASE StartMasking(r)
      BY <2>2, StartStep
  <2>3. CASE RejectBody(r) \/ Finish(r)
      BY <2>3, EndStep
  <2>4. CASE \E v \in Values : MaskValue(r, v) \/ ExtractPlaceholder(r, v)
      BY <2>4, FoundStep
  <2>5. CASE SaveValue(r)
      BY <2>5, SaveStep
  <2>6. CASE NextDetector(r) \/ FirstPassDone(r) \/ SecondPassDone(r)
      BY <2>6, DetectorsStep
  <2>7. CASE Dispatch(r)
      BY <2>7, DispatchStep
  <2>8. CASE Respond(r) \/ \E p \in Placeholders : RestoreFromSession(r, p) \/ SessionMisses(r, p)
      BY <2>8, AnswerStep
  <2>9. CASE LookUp(r)
      BY <2>9, LookUpStep
  <2>10. CASE Backfill(r)
      BY <2>10, BackfillStep
  <2> QED
      BY <1>1, <2>1, <2>2, <2>3, <2>4, <2>5, <2>6, <2>7, <2>8, <2>9, <2>10 DEF Handle
<1>2. ASSUME NEW r \in Requests, NEW id \in SessionIDs, Receive(r, id) PROVE ProxyKept
    BY <1>2, OpeningStep
<1>3. ASSUME NEW v \in Values, WriteCold(v) PROVE ProxyKept
    BY <1>3, ColdStep
<1>4. ProxyKept
    BY <1>1, <1>2, <1>3, ScanStep, CleanStep, TickStep, StutterStep DEF ChatNext
<1> QED
    BY <1>4, SessionsSound DEF ChatInv, ProxyKept

\* The inductive invariant holds in every reachable state of the proxy.
THEOREM ChatInvariant == ChatSpec => []ChatInv
<1> QED
    BY ChatInitInv, ChatNextInv, PTL DEF ChatSpec

----------------------------------------------------------------------------
(* What follows from it.                                                    *)

\* Seen from the sessions, the proxy is an implementation of module Session.
THEOREM UsesSessionsCorrect == ChatSpec => UsesSessions
<1>1. ChatInit => SessionInit
    BY DEF ChatInit
<1> QED
    BY <1>1, ChatInvariant, ChatStep, PTL DEF ChatSpec, UsesSessions

\* So what is proved of the sessions holds in the proxy: no session goes over its
\* cap, serves two session ids, loses what was just added to it, or lets its order
\* and its map drift apart, evicts a younger entry before an older one, or is
\* dropped without having been idle when a scan began. A request may still use one
\* that is dropped: RoundTripCorrect says that its answer is restored all the same.
THEOREM SessionsInProxy ==
    ChatSpec => /\ [](WithinCap /\ OneSessionPerObject /\ AddedIsKept /\ OrderMatchesMap)
                /\ EvictsOldestFirst /\ DropsOnlyCondemned
<1>1. UsesSessions => SessionSpec
    BY DEF UsesSessions, SessionSpec
<1> QED
    BY <1>1, UsesSessionsCorrect, WithinCapCorrect, OneSessionPerObjectCorrect, AddedIsKeptCorrect,
       OrderMatchesMapCorrect, EvictsOldestFirstCorrect, DropsOnlyCondemnedCorrect, PTL

\* Type correctness: in particular a handler at work holds the session it obtained.
THEOREM ChatTypeCorrect == ChatSpec => []ChatTypeOK
<1>1. ChatInv => ChatTypeOK
    BY DEF ChatInv, SessionInv, ChatTypes, HotSession, HandlerState, Handlers, Served, ChatTypeOK
<1> QED
    BY <1>1, ChatInvariant, PTL

\* The answer a client gets has the client's own originals in it, whatever its
\* session evicted, the other requests added and the cleanups dropped meanwhile.
THEOREM RoundTripCorrect == ChatSpec => []RoundTrip
<1>1. ChatInv => RoundTrip
  <2> SUFFICES ASSUME ChatInv, NEW r \in Requests, NEW v \in chat[r].saved
               PROVE  chat[r].answer[Token[v]] \in {None, v}
      BY DEF RoundTrip
  <2>1. chat[r] \in HandlerState /\ AtWork(chat[r])
      BY DEF ChatInv, ChatTypes, Handlers
  <2>2. v \in Values
      BY <2>1 DEF HandlerState
  <2> QED
      BY <2>1, <2>2 DEF AtWork
<1> QED
    BY <1>1, ChatInvariant, PTL

\* An original that a request masked can be found until the request ends.
THEOREM RestorableCorrect == ChatSpec => []Restorable
<1>1. ChatInv => Restorable
    BY DEF ChatInv, Handlers, Served, Restorable
<1> QED
    BY <1>1, ChatInvariant, PTL

\* Eviction never empties the session of a request that masked something, so the
\* hint about placeholders is never missing.
THEOREM AnnouncedCorrect == ChatSpec => []PlaceholdersAreAnnounced
<1>1. ChatInv => PlaceholdersAreAnnounced
    BY DEF ChatInv, Handlers, AtWork, PlaceholdersAreAnnounced
<1> QED
    BY <1>1, ChatInvariant, PTL

\* No step of any handler, cleanup or goroutine ever puts another original under
\* a placeholder than the one it stands for, in a session or in the storage: a
\* placeholder is restored to its own original or not at all.
THEOREM NothingMixedUp == ChatSpec => []TiersHonest
<1>1. ChatInv => TiersHonest
    BY DEF ChatInv
<1> QED
    BY <1>1, ChatInvariant, PTL

=============================================================================
