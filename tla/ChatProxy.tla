----------------------------- MODULE ChatProxy -----------------------------
(***************************************************************************)
(* A chat request on its way through the proxy: handleChatCompletions, the *)
(* masking of its message, the non-streaming answer and makeRestoreFunc in *)
(* src/internal/proxy/proxy.go, over the sessions of module Session and    *)
(* the two placeholder tiers of src/internal/storage/layered.go: a hot map *)
(* per session and a cold store that all sessions share, written by        *)
(* goroutines nobody waits for.                                            *)
(*                                                                         *)
(* A request carries one message.  A text is the set of the originals and  *)
(* placeholders in it: the properties are about which of them are replaced *)
(* by what, not about their positions.                                     *)
(***************************************************************************)
EXTENDS Session

CONSTANTS
    CredValues,     \* originals that LocalMasker recognizes
    BuiltInValues,  \* originals that BuiltInPIIDetector recognizes
    NERValues,      \* originals that only the NER service recognizes
    NERAvailable,   \* the result of the probe at start-up
    Token,          \* GeneratePlaceholder: the placeholder of each original
    Roles,          \* the kinds of messages that clients send
    Literals,       \* placeholders that clients write into their messages
    Unrecoverable   \* the text [PII-UNRECOVERABLE]

ASSUME ChatAssumption ==
    /\ Values = CredValues \cup BuiltInValues \cup NERValues
    /\ CredValues \cap BuiltInValues = {}
    /\ (CredValues \cup BuiltInValues) \cap NERValues = {}
    /\ NERAvailable \in BOOLEAN
    /\ Token \in [Values -> Placeholders]
    /\ \A v, w \in Values : Token[v] = Token[w] => v = w
    /\ Roles \subseteq {"text", "tool", "args"}
    /\ Literals \subseteq Placeholders
    /\ Unrecoverable \notin Values \cup {None}

VARIABLES
    hot,      \* hot tier: per session id its placeholders and last access
    cold,     \* cold tier: the files under placeholders/, for all sessions
    pending,  \* originals whose goroutine has not written them to the cold tier
    chat      \* per request: where its handler is and what it works on

chatVars == <<hot, cold, pending, chat>>
vars == <<now, heap, live, request, cleaner, hot, cold, pending, chat>>

----------------------------------------------------------------------------
NoChat == [stage |-> "none", role |-> None, ner |-> FALSE, body |-> {}, todo |-> {},
           saved |-> {}, cur |-> None, prompt |-> FALSE, answer |-> NoPlaceholders]

ChatInit ==
    /\ SessionInit
    /\ hot = [id \in SessionIDs |-> [map |-> NoPlaceholders, last |-> 0]]
    /\ cold = NoPlaceholders
    /\ pending = {}
    /\ chat = [r \in Requests |-> NoChat]

sid(r) == request[r].sid

\* What each step of the masking looks for; "extract" is extractPlaceholders.
Finds(stage) ==
    CASE stage = "local" -> CredValues
      [] stage \in {"builtin", "extract"} -> BuiltInValues
      [] stage = "ner" -> NERValues

\* The originals that the detectors find, if the NER service answered or not.
Maskable(r) == CredValues \cup BuiltInValues \cup (IF chat[r].ner THEN NERValues ELSE {})

\* A handler that enters a step of the masking.
Entering(c, stage, ner) ==
    [c EXCEPT !.stage = stage, !.ner = ner,
              !.todo = IF stage = "ner" /\ ~ ner THEN {} ELSE c.body \cap Finds(stage)]

\* A text after the detectors replaced what they found.
Masked(r, text) ==
    (text \ Maskable(r)) \cup {Token[v] : v \in text \cap Maskable(r)}

\* TouchSession and SavePlaceholder of the hot tier: getOrCreateSession
\* touches the session, or creates it.
Touched(id) == [hot EXCEPT ![id].last = now]
HotWith(id, p, v) == [hot EXCEPT ![id] = [map |-> [@.map EXCEPT ![p] = v], last |-> now]]

----------------------------------------------------------------------------
(* Before the request's body is masked.                                     *)

Receive(r, id) == LoadOrStore(r, id) /\ UNCHANGED chatVars

TouchMemory(r) == Touch(r) /\ UNCHANGED chatVars

SetCap(r) == SetMaxPlaceholders(r) /\ UNCHANGED chatVars

\* TouchSession on the storage, then the body is parsed: a message of the user
\* or assistant, the result of a tool, or the arguments of an earlier tool
\* call. Arguments go straight to maskContent.
StartMasking(r) ==
    /\ request[r].pc = "open"
    /\ chat[r].stage = "none"
    /\ hot' = Touched(sid(r))
    /\ \E role \in Roles, content \in SUBSET Values, literal \in SUBSET Literals :
          chat' = [chat EXCEPT ![r] =
                     Entering([NoChat EXCEPT !.role = role, !.body = content \cup literal],
                              "local", FALSE)]
    /\ UNCHANGED <<sessionVars, cold, pending>>

\* The body is not JSON: the request ends with status 400.
RejectBody(r) ==
    /\ chat[r].stage = "none"
    /\ EndRequest(r)
    /\ hot' = Touched(sid(r))
    /\ UNCHANGED <<cold, pending, chat>>

----------------------------------------------------------------------------
(* Masking: LocalMasker, the built-in detector and the NER service in turn.  *)
(* Each calls back with every original it finds, which is put into the      *)
(* session first and into the storage after that.                           *)

MaskValue(r, v) ==
    /\ chat[r].stage \in {"local", "builtin", "ner"}
    /\ chat[r].cur = None
    /\ v \in chat[r].todo
    /\ AddPlaceholder(r, Token[v], v)
    /\ chat' = [chat EXCEPT ![r].cur = v]
    /\ UNCHANGED <<hot, cold, pending>>

\* Mutant of SaveValue: the hot tier is filled by the goroutine too.
SaveValueLater(r) ==
    LET v == chat[r].cur IN
    /\ chat[r].stage \in {"local", "builtin", "ner"}
    /\ v # None
    /\ pending' = pending \cup {v}
    /\ chat' = [chat EXCEPT ![r].cur = None, ![r].todo = @ \ {v}, ![r].saved = @ \cup {v}]
    /\ UNCHANGED <<sessionVars, hot, cold>>

\* LayeredStorage.SavePlaceholder: the hot tier at once, the cold one by a goroutine.
SaveValue(r) ==
    LET v == chat[r].cur IN
    /\ chat[r].stage \in {"local", "builtin", "ner"}
    /\ v # None
    /\ hot' = HotWith(sid(r), Token[v], v)
    /\ pending' = pending \cup {v}
    /\ chat' = [chat EXCEPT ![r].cur = None, ![r].todo = @ \ {v}, ![r].saved = @ \cup {v}]
    /\ UNCHANGED <<sessionVars, cold>>

\* extractPlaceholders adds what the built-in detector found to the session again.
ExtractPlaceholder(r, v) ==
    /\ chat[r].stage = "extract"
    /\ v \in chat[r].todo
    /\ AddPlaceholder(r, Token[v], v)
    /\ chat' = [chat EXCEPT ![r].todo = @ \ {v}]
    /\ UNCHANGED <<hot, cold, pending>>

\* The next step of the masking; the NER service may fail each time it is asked.
NextDetector(r) ==
    LET next == CASE chat[r].stage = "local" -> "builtin"
                  [] chat[r].stage = "builtin" /\ chat[r].role # "args" -> "extract"
                  [] OTHER -> "ner"
    IN
    /\ chat[r].stage \in {"local", "builtin", "extract"}
    /\ chat[r].todo = {}
    /\ \E answered \in {FALSE, NERAvailable /\ next = "ner"} :
          chat' = [chat EXCEPT ![r] = Entering(@, next, answered)]
    /\ UNCHANGED <<sessionVars, hot, cold, pending>>

\* All have looked at the message. Its content is replaced if the built-in
\* detector changed it or the NER service did; what LocalMasker alone changed is
\* not written back. The result of a tool is then masked again, by maskContent.
FirstPassDone(r) ==
    LET c == chat[r]
        replaced == \/ c.body \cap BuiltInValues # {}
                    \/ c.ner /\ c.body \cap NERValues # {}
        body == IF replaced THEN Masked(r, c.body) ELSE c.body
    IN
    /\ c.stage = "ner" /\ c.todo = {} /\ c.role # "args"
    /\ chat' = [chat EXCEPT ![r] =
                   IF c.role = "tool"
                   THEN Entering([c EXCEPT !.body = body, !.role = "args"], "local", FALSE)
                   ELSE [c EXCEPT !.body = body, !.stage = "dispatch"]]
    /\ UNCHANGED <<sessionVars, hot, cold, pending>>

\* maskContent returns what all detectors made of the text.
SecondPassDone(r) ==
    /\ chat[r].stage = "ner" /\ chat[r].todo = {} /\ chat[r].role = "args"
    /\ chat' = [chat EXCEPT ![r].body = Masked(r, @), ![r].stage = "dispatch"]
    /\ UNCHANGED <<sessionVars, hot, cold, pending>>

\* Mutant of Dispatch: an off-by-one in the test for a session with placeholders.
DispatchFewer(r) ==
    /\ chat[r].stage = "dispatch"
    /\ chat' = [chat EXCEPT ![r].stage = "llm",
                            ![r].prompt = Cardinality(Held(SessionOf(r).map)) > 1]
    /\ UNCHANGED <<sessionVars, hot, cold, pending>>

\* The hint about placeholders is added if the session holds any; then the
\* request is sent.
Dispatch(r) ==
    /\ chat[r].stage = "dispatch"
    /\ chat' = [chat EXCEPT ![r].stage = "llm", ![r].prompt = Held(SessionOf(r).map) # {},
                            ![r].role = None, ![r].ner = FALSE]
    /\ UNCHANGED <<sessionVars, hot, cold, pending>>

----------------------------------------------------------------------------
(* The answer: RestoreAll calls makeRestoreFunc's function for each of its  *)
(* placeholders.                                                            *)

\* The model repeats some of the placeholders it was sent.
Respond(r) ==
    /\ chat[r].stage = "llm"
    /\ \E repeated \in SUBSET (chat[r].body \cap Placeholders) :
          chat' = [chat EXCEPT ![r].stage = "restore", ![r].todo = repeated, ![r].body = {}]
    /\ UNCHANGED <<sessionVars, hot, cold, pending>>

\* 1. The session has it.
RestoreFromSession(r, p) ==
    /\ chat[r].stage = "restore"
    /\ p \in chat[r].todo
    /\ SessionOf(r).map[p] # None
    /\ chat' = [chat EXCEPT ![r].todo = @ \ {p}, ![r].answer[p] = SessionOf(r).map[p]]
    /\ UNCHANGED <<sessionVars, hot, cold, pending>>

SessionMisses(r, p) ==
    /\ chat[r].stage = "restore"
    /\ p \in chat[r].todo
    /\ SessionOf(r).map[p] = None
    /\ chat' = [chat EXCEPT ![r].stage = "lookup", ![r].cur = p]
    /\ UNCHANGED <<sessionVars, hot, cold, pending>>

\* Mutant of LookUp: what is not found is looked for again.
LookUpAgain(r) ==
    LET p == chat[r].cur
        found == IF hot[sid(r)].map[p] # None THEN hot[sid(r)].map[p] ELSE cold[p]
    IN
    /\ chat[r].stage = "lookup"
    /\ IF found = None
       THEN chat' = [chat EXCEPT ![r].stage = "restore", ![r].cur = None]
       ELSE chat' = [chat EXCEPT ![r].stage = "backfill", ![r].answer[p] = found]
    /\ UNCHANGED <<sessionVars, hot, cold, pending>>

\* 2. LayeredStorage.GetPlaceholder: the hot tier, else the cold one, which does
\* not ask for the session, and then the hot tier is filled. The three are one step,
\* as a placeholder has the same original in both tiers and none is deleted while
\* requests run; LayeredStorage takes them apart.
LookUp(r) ==
    LET p == chat[r].cur
        found == IF hot[sid(r)].map[p] # None THEN hot[sid(r)].map[p] ELSE cold[p]
    IN
    /\ chat[r].stage = "lookup"
    /\ IF found = None
       THEN chat' = [chat EXCEPT ![r].stage = "restore", ![r].cur = None, ![r].todo = @ \ {p},
                                 ![r].answer[p] = Unrecoverable]
       ELSE chat' = [chat EXCEPT ![r].stage = "backfill", ![r].answer[p] = found]
    /\ hot' = IF found # None /\ hot[sid(r)].map[p] = None THEN HotWith(sid(r), p, found) ELSE hot
    /\ UNCHANGED <<sessionVars, cold, pending>>

\* Mutant of Backfill: writes the map of the session without its order.
BackfillMap(r) ==
    LET p == chat[r].cur IN
    /\ chat[r].stage = "backfill"
    /\ heap' = [heap EXCEPT ![request[r].obj].map[p] = chat[r].answer[p]]
    /\ chat' = [chat EXCEPT ![r].stage = "restore", ![r].cur = None, ![r].todo = @ \ {p}]
    /\ UNCHANGED <<now, live, request, cleaner, hot, cold, pending>>

\* 3. What the storage had goes back into the session, where it may evict
\* another placeholder of the same answer.
Backfill(r) ==
    LET p == chat[r].cur IN
    /\ chat[r].stage = "backfill"
    /\ AddPlaceholder(r, p, chat[r].answer[p])
    /\ chat' = [chat EXCEPT ![r].stage = "restore", ![r].cur = None, ![r].todo = @ \ {p}]
    /\ UNCHANGED <<hot, cold, pending>>

\* Mutant of Finish: a call that failed leaves the handler's state behind.
FinishHalf(r) ==
    /\ \/ chat[r].stage = "restore" /\ chat[r].todo = {}
       \/ chat[r].stage = "llm"
    /\ EndRequest(r)
    /\ chat' = IF chat[r].stage = "llm" THEN chat ELSE [chat EXCEPT ![r] = NoChat]
    /\ UNCHANGED <<hot, cold, pending>>

\* The answer is written to the client, or the call failed and the client gets
\* status 502.
Finish(r) ==
    /\ \/ chat[r].stage = "restore" /\ chat[r].todo = {}
       \/ chat[r].stage = "llm"
    /\ EndRequest(r)
    /\ chat' = [chat EXCEPT ![r] = NoChat]
    /\ UNCHANGED <<hot, cold, pending>>

----------------------------------------------------------------------------
(* The background.                                                          *)

\* A goroutine of SavePlaceholder writes its pair to the cold tier, or fails
\* and logs it. The goroutines run in no particular order.
WriteCold(v) ==
    /\ v \in pending
    /\ pending' = pending \ {v}
    /\ cold' \in {[cold EXCEPT ![Token[v]] = v], cold}
    /\ UNCHANGED <<sessionVars, hot, chat>>

\* MemoryStorage.cleanupExpired: the whole scan holds the map's lock.
CleanHot ==
    /\ \E id \in SessionIDs : hot[id].map # NoPlaceholders /\ now - hot[id].last > TTL
    /\ hot' = [id \in SessionIDs |->
                 IF now - hot[id].last > TTL THEN [hot[id] EXCEPT !.map = NoPlaceholders] ELSE hot[id]]
    /\ UNCHANGED <<sessionVars, cold, pending, chat>>

\* The HTTP client gives up after a minute, so a request ends long before
\* the TTL of a session: no clock tick falls into it.
TickBetweenRequests ==
    /\ \A r \in Requests : request[r].pc = "idle"
    /\ Tick
    /\ UNCHANGED chatVars

CleanSessions == Clean /\ UNCHANGED chatVars

Handle(r) ==
    \/ TouchMemory(r) \/ SetCap(r) \/ StartMasking(r) \/ RejectBody(r)
    \/ \E v \in Values : MaskValue(r, v) \/ ExtractPlaceholder(r, v)
    \/ SaveValue(r) \/ NextDetector(r) \/ FirstPassDone(r) \/ SecondPassDone(r) \/ Dispatch(r) \/ Respond(r)
    \/ \E p \in Placeholders : RestoreFromSession(r, p) \/ SessionMisses(r, p)
    \/ LookUp(r) \/ Backfill(r) \/ Finish(r)

ChatNext ==
    \/ \E r \in Requests : Handle(r) \/ \E id \in SessionIDs : Receive(r, id)
    \/ \E v \in Values : WriteCold(v)
    \/ CleanHot \/ CleanSessions \/ TickBetweenRequests

ChatSpec == ChatInit /\ [][ChatNext]_vars

\* A handler that can take a step takes one: no client goroutine starves.
FairChatSpec == ChatSpec /\ \A r \in Requests : WF_vars(Handle(r))

----------------------------------------------------------------------------
Store == [Placeholders -> Values \cup {None}]

\* Every variable has its type, and a handler works on a request only as long as
\* it holds the session it obtained for it.
ChatTypeOK ==
    /\ SessionTypeOK
    /\ hot \in [SessionIDs -> [map : Store, last : Nat]]
    /\ cold \in Store
    /\ pending \subseteq Values
    /\ chat \in [Requests ->
          [stage : {"none", "local", "builtin", "extract", "ner", "dispatch", "llm", "restore", "lookup", "backfill"},
           role : {"text", "tool", "args", None}, ner : BOOLEAN,
           body : SUBSET (Values \cup Placeholders), todo : SUBSET (Values \cup Placeholders),
           saved : SUBSET Values, cur : Values \cup Placeholders \cup {None}, prompt : BOOLEAN,
           answer : [Placeholders -> Values \cup {None, Unrecoverable}]]]
    /\ \A r \in Requests : chat[r].stage # "none" => request[r].pc = "open"

\* Whatever the session evicts, drops or has not been given again, the answer
\* a client gets has, in the place of each placeholder that this request put
\* into its message, the original the client sent.
RoundTrip ==
    \A r \in Requests : \A v \in chat[r].saved : chat[r].answer[Token[v]] \in {None, v}

\* As long as a request lasts, each original it has masked can be found: in its
\* session, or in the hot tier under its session id.
Restorable ==
    \A r \in Requests : \A v \in chat[r].saved :
        v \in {SessionOf(r).map[Token[v]], hot[sid(r)].map[Token[v]]}

\* A message that the request itself put placeholders into is sent with the
\* hint that explains them, even if the session evicted some of them.
PlaceholdersAreAnnounced ==
    \A r \in Requests :
        (chat[r].stage = "llm" /\ chat[r].saved # {}) => chat[r].prompt

\* Seen from the sessions, the proxy only does what module Session allows: what
\* is proved there holds for the proxy.
UsesSessions == SessionInit /\ [][SessionNext]_sessionVars

\* A request that was received is answered or refused.
RequestsEnd == \A r \in Requests : (request[r].pc # "idle") ~> (request[r].pc = "idle")

\* README.md: the model sees placeholders only. No original that the request
\* put into the session and the storage is still in the message it sends.
OnlyPlaceholdersAreSent ==
    \A r \in Requests : chat[r].stage = "llm" => chat[r].body \cap chat[r].saved = {}

=============================================================================
