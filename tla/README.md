# A formal model of CloseMask

CloseMask is an HTTP proxy between a chat client and a large language model. It replaces personal
data and credentials in a request by placeholders such as `${PHONE_a1b2c3}`, forwards the request,
and puts the originals back into the answer. This directory holds TLA+ modules of the parts of it
where the order of events matters, the configurations with which TLC checks them on small
instances, and proofs about them that TLAPS checks for every instance.

Paths below are relative to the repository (`src/` in the maps of `PROJECT.json`); line numbers
are those of the commit that was modelled.

## 1. Inventory

How a request runs through the parts:

    client -> handleChatCompletions -> session manager      (sync.Map, cleanup goroutine)
                    |                -> layered storage      (hot tier at once, cold tier by goroutines)
                    |                -> LocalMasker, built-in detector, NER service
                    v
              the model (whole answer or stream) -> RestoreAll -> makeRestoreFunc
                                                         session, then layered storage, then backfill

One goroutine per request; all share the session manager and the storage. Three cleanups run in the
background (sessions, hot tier, disk cache and files) and one goroutine per cold write.

| Component | State | Operations | What is hard | What makes it correct |
|---|---|---|---|---|
| Sessions, `session/manager.go` | `sync.Map` id -> `*Session`; per session `MaskMap`, `placeholderOrder`, `maxPlaceholders`, `LastAccess` | `GetOrCreate`, `SetMaxPlaceholders`, `AddPlaceholder`, lookups, `cleanupExpiredSessions` | pointers outlive their map entry; the cap is set after the session is shared; check and delete of the cleanup are two steps | order and map agree, cap, first-in-first-out eviction, one struct per id, only idle sessions are dropped, and in the end all of them |
| Chat handler, `proxy/proxy.go` | local to the handler | session lookup, masking by three detectors, hint, dispatch, restore, backfill | requests share a session that evicts; a backfill evicts what is still to be restored; a detector may fail | what this request masked is restored in its answer; originals are not sent |
| Stream, `proxy/proxy.go`, `pii/restore.go` | `pendingSuffix` | chunk, `[DONE]`, end of the scanner | placeholders are cut at any byte | a stream gives what the whole answer would |
| Disk storage, `storage/disk.go` | files, cache of pointers, mutex per file | saves, reads, clears, touch, `DeleteSession`, cleanups | readers, deletion and cleanup do not take the file mutex; struct changed in place | a saved item stays saved |
| Layered storage, `storage/layered.go` | pending goroutines | every operation on both tiers | asynchronous writes without an order, a read that fills the hot tier behind a delete, `Close` | the tiers agree in the end, kept is stored, deleted stays deleted |
| Memory storage, `storage/memory.go` | map of sessions, each with a mutex | as the disk storage | pointer obtained before the cleanup deletes its entry | nothing saved in a session in use is lost |
| Placeholder storage, `storage/placeholder_storage.go` | files shared by all sessions, mutex per file | save, get, `ClearAll` | read, change and write of a shared file; `ClearAll` takes another lock than a save | saves do not undo each other, cleared stays cleared |
| Remote NER client, `pii/ner_remote.go`, `ner_detector_nocgo.go` | breaker: open, failures, time of the last one; health | call with retries, half-open test, health check, replacement of the entities | check under a read lock, upgrade by unlock and lock; retries that do not ask again | it is a circuit breaker; a failing service is left alone, a recovered one is used again |
| Legacy client, `pii/handler.go` | breaker | mask, restore | as above | as above; not called by the proxy |
| Detectors, `pii/local_mask.go`, `pii_built_in.go`, `confidence.go` | none | detect and mask a text, pattern by pattern | a pattern runs over what earlier ones left, placeholders included | what is found is not sent; restoring gives the text back |
| Placeholder generation, `pii/placeholder.go` | none | hash of type and value, tests for a token | collisions | distinct originals, distinct placeholders |
| Redis, `storage/storage.go`, `session/redis_manager.go` | a Redis server | as the disk storage | read of the length before the trim | one truncation removes what it says |
| Message helpers, `proxy/messages.go`, `session/maskmeta.go` | history of a session; index of masked messages | save with a limit, load | test of the limit and truncation are two steps | the history keeps to its limit |
| Graceful shutdown, `proxy/graceful_shutdown.go` | open streams, signal | start, end, wait, flush, close | time limit against late requests | not wired into the server |
| Chunk parsing, `stream/handler.go` | accumulator of tool calls | parse, serialize | - | parsing inverts serializing |
| Tool registry; model manager and local NER; server, logging; NER service, scripts, tests | - | - | I/O, numerics, demonstration | - |

`PROJECT.json` lists the same components with the files, the modules and what is left out of each,
and the hazards, each at the line where it bites.

## 2. Plan

Order of importance: what a conversation shares first, then what a client sees, then what survives.

| Module | Composes | State of the work |
|---|---|---|
| `Session` | - | done, with proofs in `SessionProofs` |
| `ChatProxy` | extends `Session`; hot and cold tier as two variables | done for non-streaming answers; refines `Session`; proofs in `ChatProxyProofs` |
| `StreamRestore` | - | done: content and tool-call arguments, with proofs in `StreamRestoreProofs` |
| `DiskStorage` | - | done for one session, with proofs in `DiskStorageProofs` |
| `LayeredStorage` | memory tier, disk tier, placeholder files, message history | done, with proofs in `LayeredProofs` |
| `CircuitBreaker`, `NERClient` | the first is the abstract specification of the second | done, with proofs in `NERClientProofs` |
| `TextMasking` | LocalMasker, built-in detector, `RestoreAll` on one text | done for the patterns that can run into each other, with proofs in `TextMaskingProofs` |
| `GracefulShutdown` | `LayeredStorage`'s `Close` | left: the code is not wired in |

Abstract specifications: `Session` is one for `ChatProxy` (property `UsesSessions`), `CircuitBreaker` one
for both clients of detection services (`ImplementsBreaker`), and "the stream is a prefix of the
restored answer" is the one behind `StreamsLikeWhole`.

No proof of a safety property is left: each invariant and each action property that a passing run
checks is also a theorem. What is left to TLC is liveness (section 6).

## 3. The modules and the code

### Session (`src/internal/session/manager.go`)

`heap` maps addresses to `Session` structs and `live` is the `sync.Map`; a struct stays as long as
the map or a request refers to it, then Go reclaims it and its address is free. A request goes
`idle -> touch -> cap -> open`: `LoadOrStore` and `Touch` are the two halves of `GetOrCreate`
(44-58), `SetMaxPlaceholders` is the handler's call at `proxy.go:666`. While it is open it may call
`AddPlaceholder` any number of times. One critical section of `Session.mu`, or one call on the
`sync.Map`, is one action. The cleanup is a goroutine with a program counter: `CleanStart` reads the
time, `CleanCheck` tests one session under its lock, `CleanDelete` deletes the key later.

`Evictions` is the number of rounds of the eviction loop (99-106): the least k after which the loop's
condition is false. It is a CHOOSE, no recursion, so that proofs can use it.

Abstracted: text of ids, values and placeholders; `MaskMetaMgr`. The clock is a counter, bounded by
`MaxTime`. `Get`, `Delete`, `Range`, `Close` and `Session.RestoreAll` are not called by the server.

### ChatProxy (`src/internal/proxy/proxy.go`, `src/internal/storage/layered.go`)

Extends `Session` and replaces its free use of `AddPlaceholder` by what the handler does. `chat[r]`
is the handler of request `r`: its stage, the text it works on, what is left to do in this stage, the
original between "put into the session" and "put into the storage" (`cur`), what it has masked so
far (`saved`), and the answer the client gets.

Stages: `local`, `builtin`, `extract` (`extractPlaceholders`, 851-883, which adds the built-in
originals to the session once more), `ner`; a tool's result goes through the detectors a second time
in `maskContent` (1195-1227), arguments of an earlier tool call only there; `dispatch`, `llm`,
`restore`, `lookup`, `backfill`. `FirstPassDone` has the condition under which the masked text is
written back (717, 745). `LookUp` is `LayeredStorage.GetPlaceholder` (read of both tiers and fill of the hot one in one step) and `Backfill` the
`AddPlaceholder` of `makeRestoreFunc` (640).

One message per request; a text is a set of originals and placeholders. The detectors are constants:
which originals each recognizes. The NER service may fail each time it is asked. The model repeats
any part of the placeholders it was sent; the client's message may hold placeholders it made up.
`TickBetweenRequests`: no clock tick falls into a request, because the HTTP client's timeout is a
minute (`proxy.go:307-312`) and a session lasts for hours by default; both caches expire between requests. Authentication, other
endpoints, logs and the metadata of masked messages, which nothing reads, are left out.

### StreamRestore (`src/internal/proxy/proxy.go`, `src/internal/pii/restore.go`)

An answer is a sequence of lexemes: `$`, `{`, `}`, two halves of a placeholder's body and other
text. Two halves are enough for a cut inside the body. `Chunk` is one SSE chunk with content
(966-1053), `Done` the flush at `[DONE]`, `Close` the end of the scanner. `RestoreAll` restores
a placeholder although its `$` or its `}` is missing, as `NormalizePlaceholders` does; `Normalizes`
is the condition under which the code looks for such placeholders at all.

`field` says which channel carries the answer: the content, or the arguments of a tool call. Deltas
of arguments are restored one by one and never held back (`ToolCallChunk`, 1032-1046); `cutInside`
remembers that one of them ended within what is restored.

`HeldBackRightly` is about placeholders. Text that only looks like the beginning of one, such as `${x}`, is
held back as well, until another dollar sign or the end of the stream; that is modelled, and not bounded.

Restricted to one placeholder whose hash begins with a letter (the legacy format's never does) and to a
single type (`IsCred` says which).

### DiskStorage (`src/internal/storage/disk.go`)

One session. `proc[p]` is a goroutine in an operation: `lock`, `lookup`, `load`, `fill`, `apply`,
`save` are the steps of `updateSession` and `getOrLoadSession` (113-156) between which other
goroutines can run, and a reader takes only `lookup`, `load`, `fill`. A goroutine works on its own
struct or, if `shared`, on the cached one, so that a change in place is seen by all who have the
pointer. `Save` may fail. `CacheExpires`/`CleanCache`, `FileExpires`/`SweepCheck`/`SweepRemove` and
`Restart` (at any point) are the environment. `acked` and `raced` are history variables: what must be
in the file, and whether one of the two known races has happened.

Messages, maskMetas and placeholders are one kind of items.

### LayeredStorage (`src/internal/storage/layered.go`, `memory.go`, `placeholder_storage.go`, `src/internal/proxy/messages.go`)

`hot`, `disk` and `files` are the memory tier, the sessions of the disk tier and the placeholder
files. A write changes the hot tier (`WriteHot`) and then starts a goroutine (`Spawn`), which is a
record in `jobs` until it has done the same to the cold tier (`WriteCold`), failed, or was lost in a
`Restart`. Jobs run in any order. The save of a placeholder has three steps, `LockFile`, `LoadFile`,
`StoreFile`, because the file is shared by all placeholders with its type and hash prefix
(`FileOf`); `LockAll`, `RemoveDir`, `Cleared` are `ClearAll`, whose lock only readers of all
placeholders take.

A read that misses in the hot tier goes on to `ReadCold` and copies what it found item by item
(`Refill`). `CountMessages` and `TruncateMessages` are the limit of `saveMessage` (24-36). Expiry is an
action of each tier: `TouchSession` reaches the hot one only. `Close` waits for `jobs`.

An operation on a session of one tier is one step. The memory tier locks the session for it. For the
disk tier this is an abstraction: only updates hold the mutex of the file, not readers, `DeleteSession`
and the cleanup (`disk.go:129`, `339`, `203`), and what they do to an update in progress is modelled in
`DiskStorage`, not here. A session expires only while nothing is under way for it (`Quiet`), although
the cleanups do not look: an operation is taken to last less than the TTL of hours. A directory of
placeholder files has one file, so that a `RemoveAll` that fails leaves all of it or nothing. `kept`, `dropped`, `keptPairs` and `wiped` are history
variables: what was saved and not deleted since, and the reverse. `flaws` records the five events
that the storage does not promise to survive:

| Flaw | Event |
|---|---|
| `failed` | a goroutine failed or was lost in a restart |
| `overtaken` | a goroutine ran before an older one that it does not commute with |
| `mixed` | a read filled the hot tier from a cold one that was behind, or together with another change |
| `swept` | the cold session expired under a hot one |
| `reborn` | the hot session was dropped and the cold one was not |

Each is reached, and each invariant names the ones it excludes. What they do to the data is real: a
save that overtakes a delete brings a deleted message back; a save into a session that expired in the
hot tier hides the older messages of the cold one from `GetMessages`; two readers that miss together
put every message twice into the hot tier.

### CircuitBreaker and NERClient (`src/internal/pii/ner_remote.go`, `ner_detector_nocgo.go`, `handler.go`)

`CircuitBreaker` is the promise: closed, open, half-open, and the failures since the last success.
`NERClient` has the two clients (`kind`), which keep the same state and differ in how a call asks.
The remote one reads the breaker under a read lock (`IsCircuitOpen`, 210-228) and closes it in a
step of its own (`Reset`), without forgetting the failures; the handler does both in one step and
forgets them (`CheckAndReset`, `handler.go:74-85`). A call of the remote client sends up to
`max_retry` requests without asking again (`Send`, `Fail`). `recent` says that the last failure is
less than 30 s ago; `Cooldown` ends that. `failCount` is counted up to the threshold, beyond which the
code does not look. `burst` and `late` are history variables for `PauseIsQuiet`.

The refinement reads the half-open state off: closed with the threshold reached. `Masked` is the
replacement of the entities from back to front (239-257), compared with the replacement of all at
once. Offsets may be any numbers; nothing is promised for an answer that is not in the order of the
text or leaves it (`InTextOrder`).

A request that cannot be built, because the configured endpoint is no address, is left out. The value that the
service sends with an entity is taken to be the text between its offsets.

Nothing in the proxy reads `healthy`. The handler's client is created with an empty URL and never
called. `MaxBurst` bounds a history variable only.

### TextMasking (`src/internal/pii/local_mask.go`, `pii_built_in.go`, `confidence.go`, `restore.go`)

A text is a sequence of lexemes, cut so that each pattern's character classes can be told apart: key
name, password label, `https://`, AWS key, telephone number, e-mail address, path, a short number, a
quote, a separator; and the four lexemes of a placeholder. A lexeme keeps its place in the client's
text, a body the value that it stands for: a hash without collisions. `FindAll` finds the matches of a
pattern from left to right, `Masked` replaces them from back to front (a recursive function of the
place, `ReplacedAt` is one round of the loop), `Skips` are the tests that leave
a match alone (a search goes on behind the end of the match it found, `RunsBehind`): key names test for a placeholder only, all others also `isInsidePlaceholder`, with its
last position one behind the brace (`local_mask.go:193`); its limits, the first three characters of a text and 60
characters behind `${`, are out of reach of the model's matches and placeholders. One pass is one step: `Mask` for the
LocalMasker's, `DetectAndMask` for those of the built-in detector. `MaskAgain` is the second run over a
tool's result (`proxy.go:1195-1227`).

Seven patterns are modelled, the ones that match across other matches or inside them. The server
always runs the built-in detector at the level "balanced"; "strict" is the other modelled value.
`Apart` excludes sequences of lexemes that no text is cut into, as the expressions would read something else
there: the one for e-mail addresses (`pii_built_in.go:75-78`) goes on into letters, the one for AWS keys
(`local_mask.go:81`) has word boundaries on both sides.

## 4. What is checked

| Run | Instance | Shows |
|---|---|---|
| `session` | 2 requests, 1 id, 2 structs, 3 placeholders, cap 2, TTL 1, time up to 3 | `OrderMatchesMap`, `WithinCap`, `EvictsOldestFirst`, `DropsOnlyCondemned`, `ExpiredIsDropped` |
| `chat` | 1 request at a time, a credential and a name only NER finds, all kinds of messages, cap 1 | `RoundTrip`, `AddedIsKept` at its smallest cap, `Restorable`, `PlaceholdersAreAnnounced`, `RequestsEnd`, and that the proxy implements `Session` (`UsesSessions`) |
| `chat_pair` | 2 concurrent requests, credential and e-mail address, cap 1, time up to 1 | `RoundTrip` while requests evict each other's placeholders, in one struct or in two of one id |
| `stream` | all answers of up to three units out of six, in the content or in tool-call arguments, all ways to cut them but one | `StreamsLikeWhole`, `ArgumentsLikeWhole`, `HeldBackRightly` |
| `disk` | 2 goroutines, 1 item, all failures, expiries and restarts | `LostOnlyByRaces`, `CacheHasAcked`, `OperationsEnd` |
| `layered` | 2 goroutines, 1 session, 2 placeholders in one file, 1 maskMeta, limit 1, 3 operations | `TiersAgree`, `KeptIsStored`, `DroppedIsGone`, `HistoryIsBounded`, `PairsAreKept`, `ClearedIsGone`, `CloseReturns` |
| `ner` | 3 callers, 3 attempts, threshold 2, both clients | `PauseIsQuiet`, `MasksEveryEntity`, `ImplementsBreaker`, `Recovers`, `CallsEnd` |
| `masking` | all texts of up to 4 of ten lexemes, texts of six key names, paths and quotes, both detectors on and off, masked once or twice | `NothingLeaks`, `FlatIsRestored`, `MaskedOnce` |
| `chat_masking` | 1 request | violated: see below |
| `stream_cut` | answers of one unit, cut anywhere | violated: see below |
| `disk_lost` | 2 goroutines, 2 items, no expiry of files | violated: see below |
| `masking_nested` | texts of up to 2 lexemes | violated: see below |

Each module also has one type invariant. The mutants in the modules (marked `Mutant of`) are
plausible errors at the same place of the code; each property is violated by the one listed
with it.

**Why the bounds are enough.** Sharing, eviction by the other and a stale pointer need two requests
of one id and two structs; eviction of more than one round and re-adding an evicted placeholder need
one placeholder more than the cap. A session expires, is touched during the scan and expires
again within three ticks at TTL 1. In the chat a cap of 1 below the 2 originals of a message makes every
masking and every restore evict. One tick lets the cleanup condemn the session before the first of two
requests touches it and drop it afterwards, so that the second request creates another struct. Three units let an unfinished, a whole and a foreign brace
follow each other in every order. Two goroutines give every pair of operations of the disk storage
all their interleavings; one item is enough for a loss.

In the layered storage, three operations are a save, a delete and a read whose goroutines overlap, or
two saves and a truncation; a limit of 1 is exceeded by the second message, and two placeholders in one
file can undo each other. Of the callers of a service, one opens the breaker, one is late and one is
let through by it. Four lexemes are a label, a value that is masked first, a third match over both
and a neighbour; with six, a value can hold a key name whose own value ends behind it or not.

**Deadlock** is checked, except for the streams, which stop when the scanner does, and for the
masking of a text, which ends.

**Fairness.** `Clean` is weakly fair: the ticker fires again and again and the goroutine is never
blocked for good. `Handle(r)` is weakly fair for each request: Go runs each goroutine that can go
on, and the call to the model has a timeout. `Step(p)` of the disk storage likewise; `Lock(p)` is
strongly fair because a `sync.Mutex` passes to a waiter that has waited for more than a millisecond.
In the layered storage some goroutine that can go on does, and `Close` sees that
none is left. The calls of a detection service are weakly fair one by one (its HTTP client has a
timeout), and so are the end of the cooldown and the health check. `Recovers` takes it as a premise
that the service is up for good and that texts keep coming; neither is assumed as fairness. Receiving requests, beginning operations, ticks, expiries and restarts have no fairness.

### Disagreements with the documents

- `chat_masking`: a text in which LocalMasker alone found something is not written back
  (`proxy.go:717`), so the credential is sent although `README.md:104` says it does not leak.
- `stream_cut`: `isPartialPlaceholder` asks for `${` (`proxy.go:1172`), so a chunk that ends with `$`
  is sent and the placeholder stays raw, against the comment at 1000-1001. `StreamsLikeWhole` holds
  for all other cuts.
- `disk_lost`: a reader caches what it read before a save; the next update overwrites the file
  with it (`disk.go:129`). `LostOnlyByRaces` shows that this and the removal of a file saved after the
  cleanup's check are the only ways to lose a saved item.
- `masking_nested`: a pattern that runs later takes an earlier placeholder, or its dollar sign, into
  the value that it masks (`local_mask.go:140`, `pii_built_in.go:90`), and `RestoreAll` looks at an
  answer once: `password="abcdefgh1"` comes back as `password="${CRED_...}"`, and the address
  `http://192.168.1.1:8080/` with a dollar sign in front of the number. `README.md:11` promises that
  originals are restored transparently. `FlatIsRestored` holds for all texts in which this does not
  happen.

Not disagreements with a line of a document, but worth knowing:

- The cleanup tests a session and deletes its key later (`manager.go:187`); a request that arrives
  between loses a session that is not expired. `DropsOnlyCondemned` says that only a
  session that was idle when the scan began is condemned, and only a condemned one is dropped. The request keeps its pointer, and `chat` shows that its answer is restored all the
  same; only the next request starts with an empty session and falls back to the storage.
- What stands directly behind a placeholder is not masked (`local_mask.go:193` counts that position as
  inside): in `13812345678user@example.com` the address stays, and so does the path of a
  URL whose host was masked. `NothingLeaks` says that nothing else stays.
- The breaker of `CHANGELOG.md:74` pauses for 30 seconds after 2 failures; calls that were let through
  before go on with their retries, and a late caller may close it again. `PauseIsQuiet` is the bound.
- The service adds dates behind the names and counts characters where Go counts bytes
  (`ner_service/ner_detector.py:189-202`, `ner_detector_nocgo.go:253`); `MasksEveryEntity` covers
  answers in the order of the text.
- The type `IPV6_ADDRESS` has a digit, which the syntax of a placeholder does not allow
  (`placeholder.go:26`): its placeholder would never be restored. The type is below the threshold of
  the level that the server uses.
- The cold placeholder store is shared by all sessions, against `docs-en/DESIGN.md:361`.
- `GracefulShutdown` asks its storage for `Flush`, which no storage has, and nothing creates it.

## 5. What is proved

All theorems hold for every value of the constants that satisfies the module's assumption; no run's
bound is among them.

### Sessions

`SessionProofs` proves about `SessionSpec`, for every number of requests, ids, structs,
placeholders, values, every cap and every TTL:

| Theorem | Statement |
|---|---|
| `SessionInvariant` | `SessionSpec => []SessionInv` |
| `SessionTypeCorrect` | `SessionSpec => []SessionTypeOK` |
| `OrderMatchesMapCorrect` | `SessionSpec => []OrderMatchesMap` |
| `WithinCapCorrect` | `SessionSpec => []WithinCap` |
| `OneSessionPerObjectCorrect` | `SessionSpec => []OneSessionPerObject` |
| `AddedIsKeptCorrect` | `SessionSpec => []AddedIsKept` |
| `EvictsOldestFirstCorrect` | `SessionSpec => EvictsOldestFirst` |
| `DropsOnlyCondemnedCorrect` | `SessionSpec => DropsOnlyCondemned` |

The only assumption is `SessionAssumption`: cap, TTL and the bound of the clock are natural numbers,
and `None` is no value, struct or id. No set is assumed to be finite.

`SessionInv` is the inductive invariant:

- `SessionTypeOK` and `OrderMatchesMap`, which are inductive together: the loop takes the head of
  the order, so it needs that the order lists the keys, each once (`EvictionKeepsMatching`).
- `CapInv`: the length of each order is within the struct's own `max`, which is 0 or the cap, and is
  the cap as soon as a request that holds the struct is open; a struct whose cap is not set yet is
  empty. `WithinCap` alone is not inductive: the struct is shared before its cap is set.
- `OwnerInv`: requests and the map agree with the id in the struct, and a free address is referred to
  by nobody. Without the second part a reused address could belong to two.
- `CleanerInv`: what the cleanup is about to delete is in the map and was idle at the start
  of the scan, or touched later.

`EvictionCount` shows that `Evictions` is the excess over the cap: 0 or `Len(order) - max`. From it
`AddedEffect` gives what `AddPlaceholder` does to a matching struct; the steps of
`NextInv` and the two theorems on eviction rest on it.

### The chat handler

`ChatProxyProofs`, for any number of requests and sessions, any cap, and any distribution of the
originals over the detectors. The assumption is `ChatAssumption`: placeholders of different originals
differ, which is the hash without collisions.

| Theorem | Statement |
|---|---|
| `ChatInvariant` | `ChatSpec => []ChatInv` |
| `UsesSessionsCorrect` | `ChatSpec => UsesSessions`: every step is a step of `Session` or a stutter |
| `SessionsInProxy` | with it, the theorems on sessions hold in the proxy: `WithinCap`, `OneSessionPerObject`, `AddedIsKept`, `OrderMatchesMap`, `EvictsOldestFirst`, `DropsOnlyCondemned` |
| `ChatTypeCorrect` | `ChatSpec => []ChatTypeOK` |
| `RoundTripCorrect` | `ChatSpec => []RoundTrip` |
| `RestorableCorrect` | `ChatSpec => []Restorable` |
| `AnnouncedCorrect` | `ChatSpec => []PlaceholdersAreAnnounced` |
| `NothingMixedUp` | `ChatSpec => []TiersHonest` |

`ChatInv == SessionInv /\ ChatTypes /\ TiersHonest /\ Handlers`. `RoundTrip` speaks of the answer that
a client gets. It is kept for two reasons, and each is a part of the invariant:

- `TiersHonest`: no session and no tier has another original under a placeholder than its own,
  so that a lookup returns the right one or none.
- `Served`, for every request at work: the hot session has all the originals it saved and is as
  young as the clock, so that none of them can be unrecoverable, whatever its in-memory session
  evicted. Its in-memory session is not empty as soon as it contributed to it, because an eviction
  never removes what was added in the same call (`AddedIsKept`); this gives `PlaceholdersAreAnnounced`.

`AtWork` says what each stage of a handler relies on; that nothing has been restored yet while it
masks had to be stated, without it the step that saves an original is not safe. The refinement
uses only that a handler adds to the session of its own request (`ChatStep`).

### Streaming answers

`StreamRestoreProofs`, for every set of answers of any length and every way to cut them:

| Theorem | Statement | Provided that |
|---|---|---|
| `StreamTypeCorrect` | `StreamSpec => []StreamTypeOK` | - |
| `HeldBackCorrect` | `StreamSpec => []HeldBackRightly` | no cut behind a dollar sign (`~CutsAnywhere`) |
| `StreamsCorrect` | `StreamSpec => []StreamsLikeWhole` | the same, and `DollarsKept` |
| `ArgumentsCorrect` | `StreamSpec => []ArgumentsLikeWhole` | every placeholder is recognised (`Recognised`) |

The hypotheses are what the run `stream` assumes, and they mark where the code really differs.
Cuts behind a dollar sign are what the run `stream_cut` refutes. `DollarsKept` says that the
model leaves out no dollar sign: `NormalizePlaceholders` looks for a placeholder without one
only if there is another `${` in the text (or the type is one that is always tried), so `{...} ${...}` has
both restored in one piece, and only the second in two. `Recognised` is the weaker form of it
that the arguments need.

The argument: `RestoreAll` of a text is the concatenation of what it makes of its parts
(`SplitRestore`), unless the place between them is inside a placeholder (`Cuts`). What was sent ends
at such a place (`WholeSoFar`, `DeltasSoFar`), because a cut inside a placeholder leaves a `${`
without a `}` behind the last one, which is what `isPartialPlaceholder` looks for (`CutHolds`), and
`CutIdxIs` shows that it is cut off at its dollar sign. `HeldSoFar` is the converse for
`HeldBackRightly`.

`SequenceLemmas` has what these proofs need of sequences: parts of parts, concatenation, and
`FlattenSeq`, which is a recursive definition. The induction theorems of the library cannot be
used, because they take an operator as a parameter. Their place is taken by `LeastNumber`: every
non-empty set of natural numbers has a least element, so that the set of lengths for which a
statement fails is empty (`AllNumbers`). The recursive function itself is shown to exist the
same way (`JoinsExists`).

### Disk storage

`DiskStorageProofs`: `DiskTypeCorrect` (`DiskTypeOK`), `OnlyRacesLose` (`LostOnlyByRaces`) and
`CacheKeepsUp` (`CacheHasAcked`), for any number of goroutines and items. The assumption is
`DiskAssumption`: items, operations and `None` are told apart.

`DiskInv == Types /\ Shape /\ (raced \/ Safe)`. `LostOnlyByRaces` speaks of the file at rest; it is
kept only because an update in progress has everything that was acknowledged in the struct it
will write (`UpdateHasAcked`), and because an update that works on a struct of its own excludes a
cached one (`OneStruct`) that could be ahead of it. Both need `Shape`: only the holder of the mutex
updates. A race sets `raced`, and from then on only types and shape are kept.

### Layered storage

All invariants of `LayeredStorage` are proved, for any number of requests, sessions, files and
placeholders, any `FileOf`, any limit of the history and any number of operations. The
assumption is `LayeredAssumption`; it tells `None`, messages (numbers) and maskMetas apart.

| Theorem of `LayeredProofs` | Statement |
|---|---|
| `PairsKept` | `LayeredSpec => []PairsAreKept` |
| `ClearedGone` | `LayeredSpec => []ClearedIsGone` |
| `FilesExclude` | no two goroutines are between reading and writing one placeholder file |
| `LayeredTypeCorrect` | `LayeredSpec => []LayeredTypeOK` |
| `KeptStored` | `LayeredSpec => []KeptIsStored` |
| `DroppedGone` | `LayeredSpec => []DroppedIsGone` |
| `TiersAgreeCorrect` | `LayeredSpec => []TiersAgree` |
| `HistoryBounded` | `LayeredSpec => []HistoryIsBounded` |

*Placeholders.* `LayeredInv` strengthens the two invariants by `MutexHeld`, by `DataCurrent` (what a
goroutine is about to write back has everything its file has), and by `WipedIsQuiet` (no goroutine
has a cleared placeholder in hand). `PairsAreKept` alone is not inductive: a goroutine past its
read could write an old file back. Jobs are told apart by the number of their operation, which
`JobsFit` and the types of the requests keep.

*Types.* `LayeredTypes` adds that no two operations have one number (`OwnNumbers`) and that a locked file
has its job (`MutexOwned`).

*Sessions.* The cold tier and the jobs on their way to it are seen together, as a queue: a message
is in `Stock` if the cold session has it or will get it, an item is `Stored` if it is there or a
job will put it there and no later job takes it out, and `Gone` if no job will bring it back.
Both depend only on the cold session and the set of its jobs, so that a job that runs in its turn
changes neither. The hot tier is the same queue with a job that runs at once. `SessionsInv` says of a
session, depending on its flaws:

- `PastAgrees`: messages are in the order of their numbers in both tiers, and the hot one has,
  above its oldest message, exactly the messages of the stock (`HotAbove`, `StockAbove`). From
  it `TiersAgree` follows, since of two increasing sequences with the same elements above a point
  one is a suffix of the other.
- `FillsRight`: a read that fills the hot tier has nothing on its way beside it, and what is
  copied with what is left to copy is the cold session.
- `KeptAndDropped`, `HotIsStored`: what was saved is stored; what was deleted is gone, also from what
  a read has in hand; what the hot tier has is stored. A truncation drops the same messages from
  both tiers because, by `PastAgrees`, both count the same newer ones (`Cuts`).
- `MissingIsGone`: as long as the hot session lives, what it misses is on its way out of the cold
  one. So a read finds no message there that it would copy, and cannot lengthen the history.
- `Bounded`: a history above its limit has a request that will truncate it.

### Clients of detection services

`NERClientProofs`: `NERTypeCorrect` (`NERTypeOK`), `ImplementsBreakerCorrect` (`ImplementsBreaker`:
initial states map to initial states and every step to a step of `CircuitBreaker` or a stutter),
`OpensAfterThreshold`, `LateBounded` (the second half of `PauseIsQuiet`) and `PauseQuiet` (the whole
of it), for any finite non-empty set of callers, any `max_retry` and any threshold.

`NERInv` adds to the types that a call about to send has an attempt left and that an open
breaker has reached its threshold; without the latter a step of `Reset` would have no counterpart.
For `LateBounded` the invariant counts late callers and those about to be late together
(`LateOnes`): the caller whose failure was the last one is neither. `Quiet` counts the requests of a
pause together with those that can still be sent without another failure opening the breaker
(`Chances`, a set of pairs of a caller and one of its attempts). A step of `Send` takes one from
the second to the first; a late caller, which closes the breaker and gives every other
caller all attempts again, raises the bound by as much (`AllowedGrows`).

`EntitiesMasked` (`MasksEveryEntity`) is about what a caller makes of the answer: for a text of any
length and any answer, of which `TextAssumption` says only that it is a list of records with a type
and two numbers. `MaskedAtOnce` is the induction over the entities from back to front, and `OneMore` its
step: the entity that comes next ends where the replaced ones begin or before that, so that its
offsets, which count bytes of the original, still hold in the text that has become longer or shorter
behind it. The text is compared piece by piece; `FlattenReplace` (in `SequenceLemmas`) turns one piece
of many into one replacement in the whole.

### Masking

`TextMaskingProofs`, for any set of texts of any length:

| Theorem | Statement |
|---|---|
| `MaskInvariant` | `MaskSpec => []MaskInv` |
| `MaskTypeCorrect` | `MaskSpec => []MaskTypeOK` |
| `FlatRestored` | `MaskSpec => []FlatIsRestored` |
| `DetectedIsMasked` | `MaskSpec => []NothingLeaks` |
| `OnceIsMaskedOnce` | `MaskSpec => []MaskedOnce` |

The assumptions are `TextAssumption`, texts are sequences of the known kinds of lexemes, and, for the last
theorem only, `ApartAssumption`: none of them is cut where it could not be (`Apart`, section 3).

`MaskInv == MaskTypes /\ Fits /\ Restores`, where `Fits` says that the text consists of lexemes of the
client, of marks, and of bodies that were passed to `addPlaceholder`, and `Restores` says that, as long
as the bodies are flat, every placeholder in the text is whole (`Whole`) and restoring it gives the
client's text. `FlatIsRestored` alone is not inductive: a pattern that cuts through a placeholder
(`https://` up to a brace, a password up to a blank) could take its body away and leave its braces.
With whole placeholders, restoring goes lexeme by lexeme (`RestoreParts`), so it can be done
part by part (`PartsConcat`), and a match whose value is the client's leaves the
placeholders in front of it and behind it whole (`MiddleOut`, `MiddleRestored`).

Within one pass several matches are replaced, with the offsets of the text before the pass.
`MatchesSeparate` shows that matches lie in the text and do not overlap, whatever the pattern
(`SearchFinds`: a search from left to right finds something definite), and `OneBack` that going
from back to front the ones in front stay where they were.

`DetectedIsMasked` needs a second invariant, `LeakInv`, with `MaskInv`. `NothingLeaks` says something of
the client's text only when all passes are done; the patterns, though, match in what the earlier ones have
left. `LeakInv` says where the two texts meet: what is left of the client's text is in its order, is side by
side where it was and only there (`InPlace`), the first mark behind something of the client's begins a whole
placeholder (`Starts`), and what a finished pass finds in the client's text is masked or stands behind
something masked (`Shadowed`). Unlike the flatness that `FlatIsRestored` assumes, this also holds when one
placeholder cuts through another. The step has two halves:

- `MaskedKept`: what a pass replaces is no longer seen, what it leaves alone was not the client's
  (`NotSkipped`), and a new placeholder preserves `InPlace` and `Starts` (`TokenInPlace`) because a match begins
  with something of the client's or behind it (`MatchesAnchored`).
- `PassHit`: as long as a value can be seen with its label, or with what is in front of it, a match in the
  masked text contains a part of it. `KeyHit` needs that a run of the client's text is still long enough
  (`RunKept`): all of it is there, or a placeholder follows, which has no quote and no blank. `URLHit` needs
  that an address in front that swallows this one would have done so in the client's text, as no placeholder
  lies between them (`RunInPlace`).

What can be seen only shrinks, so that what a pass has shadowed stays so (`LessSeen`), also when the text is
masked twice. That runs of lexemes are measured in characters (`Length`) is used through
`LengthOfStart` and `LengthOfParts` alone.

`OnceIsMaskedOnce` needs a third one, `OnceInv`, with `MaskInv` and `LeakInv`. That a pass finds nothing the
second time is not what the first time leaves behind as such: the passes in between change the text, and a pass
that replaces from back to front does not look again. So the invariant says of each finished pattern that whatever
opens a match is *settled* (`Settled`, `AllSettled`): the label is followed by nothing, by a value that is
too short, or by exactly one placeholder up to what ends a value. Three things are shown of that:

- a pattern that finds all settled leaves all it matches alone (`SettledSkipped`) and changes nothing
  (`SettledStays`): this is the second masking;
- a pass settles what it finds (`UnsettledFound`: what is not settled is in a match that is replaced;
  `NewSettled`: a placeholder that goes up to what ended the value settles it), match by match from back to front
  (`Stage`, `StageStep`, `MaskedStage`);
- a pass leaves settled what the ones before it have settled (`OtherSettled`): what is settled consists of kinds of
  lexemes that no match opens with (`SettledInert`), so that no match of another pattern begins within. Two
  patterns open with the password label; what the later one settles is settled for the earlier one (`LabelSettled`).

Where the hypothesis of `MaskedOnce` comes in is `NotBehindMark`: a pattern that also tests for
`isInsidePlaceholder` leaves alone what stands right behind a placeholder, settled or not. In a text where no
address stands behind a telephone number, and that is `Apart`, nothing that such a pattern looks for does (`Sparse`,
`TextSparse`); while the text is masked for the first time, `Follows` says what stands behind a placeholder instead.

## 6. What is only model-checked, and what is not modelled

Only checked: liveness (`ExpiredIsDropped`, `RequestsEnd`, `OperationsEnd`, `CloseReturns`, `Recovers`,
`CallsEnd`), which is out of reach of the prover.

Not modelled:

- Redis (`storage/storage.go`, `session/redis_manager.go`): thin calls of a server; the session
  manager is not wired into the proxy.
- `GracefulShutdown`: not wired in; its one connection to modelled state, `Close`, is in
  `LayeredStorage`.
- The tool registry, which is created and never executed; the accumulator of tool calls, no longer used.
- The download and evaluation of NER models and the Python service: I/O and numerics. What the
  proxy relies on is the list of entities in `NERClient`.
- The texts that the regular expressions match, the levels "aggressive" of both detectors, the hash
  and its collisions, the legacy placeholder format, JSON and HTTP, configuration, `/health` and logs.
- The order of two steps on one session of the memory tier (it holds the session's mutex).
