------------------------------ MODULE NERClient ------------------------------
(***************************************************************************)
(* The clients of the detection services and their circuit breakers: the   *)
(* remote NER detector (src/internal/pii/ner_remote.go, used by            *)
(* ner_detector_nocgo.go) and the OneAIFW handler (handler.go).            *)
(*                                                                         *)
(* The two keep the same state and differ in how a call asks the breaker.  *)
(* The remote detector reads it under a read lock and closes it in a step  *)
(* of its own, and repeats a failing request without asking again.  A text *)
(* is a sequence of bytes; offsets of entities are 0-based and exclude the *)
(* end, as in the code.                                                    *)
(***************************************************************************)
EXTENDS Integers, FiniteSets, SequencesExt

CONSTANTS
    Callers,    \* the requests that mask a text at the same time
    MaxRetry,   \* max_retry, the attempts of one call of the remote detector
    Threshold,  \* 2 in both clients: the failures that open the breaker
    Text,       \* the text that is masked
    Answers,    \* the entity lists that the service may answer with
    MaxBurst    \* a bound of the model: burst is counted up to here

ASSUME NERAssumption ==
    /\ IsFiniteSet(Callers) /\ Callers # {}
    /\ MaxRetry \in Nat \ {0}
    /\ Threshold \in Nat \ {0}
    /\ MaxBurst \in Nat

\* Offsets are numbers that the service may choose as it likes.
ASSUME TextAssumption ==
    /\ Text \in Seq(Range(Text))
    /\ \A answer \in Answers : answer \in Seq([type : STRING, from : Int, to : Int])

VARIABLES
    kind,         \* which client it is: "remote" or "handler"
    circuitOpen,
    failCount,    \* consecFails of the handler; counted up to Threshold
    recent,       \* whether lastFailTime is less than the cooldown of 30 s ago
    healthy,      \* what the last health check found
    up,           \* whether the service answers requests
    caller,       \* per caller: where it is, the attempts it has left, what it was answered
    burst,        \* history: the requests sent since the breaker opened, while the
                  \* failures are recent
    late          \* history: how often it was closed in that time

client == <<circuitOpen, failCount, recent>>
nerVars == <<kind, client, healthy, up, caller, burst, late>>

----------------------------------------------------------------------------
Idle == [pc |-> "idle", left |-> 0, found |-> <<>>]

NERInit ==
    /\ kind \in {"remote", "handler"}
    /\ circuitOpen = FALSE
    /\ failCount = 0
    /\ recent = FALSE
    /\ healthy = FALSE
    /\ up \in BOOLEAN
    /\ caller = [c \in Callers |-> Idle]
    /\ burst = 0
    /\ late = 0

Tripped == failCount >= Threshold

\* The attempts of one call.
Tries == IF kind = "remote" THEN MaxRetry ELSE 1

Sending == [Idle EXCEPT !.pc = "send", !.left = Tries]

Begin(c) ==
    /\ caller[c].pc = "idle"
    /\ caller' = [caller EXCEPT ![c].pc = "check"]
    /\ UNCHANGED <<kind, client, healthy, up, burst, late>>

\* Mutant of IsCircuitOpen: the cooldown is over as soon as it starts.
NoCooldown(c) ==
    /\ kind = "remote"
    /\ caller[c].pc = "check"
    /\ caller' = [caller EXCEPT ![c] = IF circuitOpen THEN [Idle EXCEPT !.pc = "reset"] ELSE Sending]
    /\ UNCHANGED <<kind, client, healthy, up, burst, late>>

\* isCircuitOpen under the read lock. A caller that is held back falls back on the
\* detectors that ran before it: its text stays as it is.
IsCircuitOpen(c) ==
    /\ kind = "remote"
    /\ caller[c].pc = "check"
    /\ caller' = [caller EXCEPT ![c] = IF ~circuitOpen THEN Sending
                                        ELSE IF recent THEN Idle
                                        ELSE [Idle EXCEPT !.pc = "reset"]]
    /\ UNCHANGED <<kind, client, healthy, up, burst, late>>

\* ... under the write lock: the cooldown was over when the caller looked. The
\* failures are not forgotten: the next one opens the breaker.
Reset(c) ==
    /\ caller[c].pc = "reset"
    /\ circuitOpen' = FALSE
    /\ late' = IF Tripped /\ recent /\ late < Cardinality(Callers) THEN late + 1 ELSE late
    /\ caller' = [caller EXCEPT ![c] = Sending]
    /\ UNCHANGED <<kind, failCount, recent, healthy, up, burst>>

\* doPost of the handler: one step under its lock, which forgets the failures.
CheckAndReset(c) ==
    LET over == circuitOpen /\ ~recent
    IN  /\ kind = "handler"
        /\ caller[c].pc = "check"
        /\ caller' = [caller EXCEPT ![c] = IF circuitOpen /\ recent THEN Idle ELSE Sending]
        /\ circuitOpen' = (circuitOpen /\ ~over)
        /\ failCount' = IF over THEN 0 ELSE failCount
        /\ UNCHANGED <<kind, recent, healthy, up, burst, late>>

Send(c) ==
    /\ caller[c].pc = "send"
    /\ caller' = [caller EXCEPT ![c].pc = "wait", ![c].left = @ - 1]
    /\ burst' = IF Tripped /\ recent /\ burst < MaxBurst THEN burst + 1 ELSE burst
    /\ UNCHANGED <<kind, client, healthy, up, late>>

\* Mutant of RecordFailure: opens the breaker one failure late.
RecordLate ==
    /\ failCount' = IF Tripped THEN failCount ELSE failCount + 1
    /\ circuitOpen' = (circuitOpen \/ Tripped)
    /\ recent' = TRUE

RecordFailure ==
    /\ failCount' = IF Tripped THEN failCount ELSE failCount + 1
    /\ circuitOpen' = (circuitOpen \/ failCount' >= Threshold)
    /\ recent' = TRUE

\* Mutant of RecordSuccess: the failures are not forgotten.
RecordOpen ==
    /\ circuitOpen' = FALSE
    /\ UNCHANGED <<failCount, recent>>

RecordSuccess ==
    /\ failCount' = 0
    /\ circuitOpen' = FALSE
    /\ UNCHANGED recent

\* Mutant of Fail: the call is repeated until it succeeds.
FailAndRepeat(c) ==
    /\ caller[c].pc = "wait"
    /\ ~up
    /\ RecordFailure
    /\ caller' = [caller EXCEPT ![c] = [@ EXCEPT !.pc = "send", !.left = 1]]
    /\ UNCHANGED <<kind, healthy, up, burst, late>>

\* Mutant of Fail: one attempt too many.
FailOneMore(c) ==
    /\ caller[c].pc = "wait"
    /\ ~up
    /\ RecordFailure
    /\ caller' = [caller EXCEPT ![c] = IF @.left >= 0 THEN [@ EXCEPT !.pc = "send"] ELSE Idle]
    /\ UNCHANGED <<kind, healthy, up, burst, late>>

\* No answer, an error status or a body that cannot be read or parsed; the remote
\* detector tries again. When all attempts failed the text stays as it is. A request
\* that cannot even be built (ner_remote.go:84, 96: the endpoint of the configuration
\* is no address) is not sent and not counted, and is left out.
Fail(c) ==
    /\ caller[c].pc = "wait"
    /\ ~up
    /\ RecordFailure
    /\ caller' = [caller EXCEPT ![c] = IF @.left > 0 THEN [@ EXCEPT !.pc = "send"] ELSE Idle]
    /\ UNCHANGED <<kind, healthy, up, burst, late>>

Succeed(c) ==
    /\ caller[c].pc = "wait"
    /\ up
    /\ RecordSuccess
    /\ \E answer \in Answers :
          caller' = [caller EXCEPT ![c] = [Idle EXCEPT !.pc = "done", !.found = answer]]
    /\ burst' = 0
    /\ late' = 0
    /\ UNCHANGED <<kind, healthy, up>>

Return(c) ==
    /\ caller[c].pc = "done"
    /\ caller' = [caller EXCEPT ![c] = Idle]
    /\ UNCHANGED <<kind, client, healthy, up, burst, late>>

Call(c) ==
    \/ IsCircuitOpen(c) \/ Reset(c) \/ CheckAndReset(c)
    \/ Send(c) \/ Fail(c) \/ Succeed(c) \/ Return(c)

----------------------------------------------------------------------------
(* Time, the service and the health check.                                 *)

Cooldown ==
    /\ recent
    /\ recent' = FALSE
    /\ burst' = 0
    /\ late' = 0
    /\ UNCHANGED <<kind, circuitOpen, failCount, healthy, up, caller>>

ServiceChanges == up' = ~up /\ UNCHANGED <<kind, client, healthy, caller, burst, late>>

\* healthCheckLoop asks every 10 s. Nothing in the proxy reads the result.
CheckHealth ==
    /\ kind = "remote"
    /\ healthy' = up
    /\ UNCHANGED <<kind, client, up, caller, burst, late>>

NERNext ==
    \/ \E c \in Callers : Begin(c) \/ Call(c)
    \/ Cooldown
    \/ ServiceChanges
    \/ CheckHealth

NERSpec == NERInit /\ [][NERNext]_nerVars

\* Goroutines run, time passes, and the health check is repeated.
FairNERSpec ==
    /\ NERSpec
    /\ \A c \in Callers : WF_nerVars(Call(c))
    /\ WF_nerVars(Cooldown)
    /\ WF_nerVars(CheckHealth)

----------------------------------------------------------------------------
(* DetectAndMaskWithNER: what a caller makes of the entities.              *)

\* MapNERTypeToPIIType knows the persons, places, organisations and dates.
MapNERTypeToPIIType(type) ==
    CASE type \in {"PER", "B-PER", "I-PER", "PERSON", "name", "NAME"} -> "USER_NAME"
      [] type \in {"ORG", "B-ORG", "I-ORG", "ORGANIZATION", "company", "COMPANY", "organization"} ->
            "ORGANIZATION"
      [] type \in {"LOC", "B-LOC", "I-LOC", "LOCATION", "GPE", "address", "ADDRESS"} ->
            "PHYSICAL_ADDRESS"
      [] type \in {"DATE", "TIME"} -> "DATE_TIME"
      [] OTHER -> ""

\* A placeholder is made of the type and the value. The service sends the value with
\* its offsets; here it is the text between them, as in every answer in which the
\* offsets are right.
Placeholder(e) == [type |-> MapNERTypeToPIIType(e.type), value |-> SubSeq(Text, e.from + 1, e.to)]

Replaced(t, e) ==
    IF MapNERTypeToPIIType(e.type) = "" THEN t
    ELSE SubSeq(t, 1, e.from) \o <<Placeholder(e)>> \o SubSeq(t, e.to + 1, Len(t))

\* Mutant of Masked: replaces from front to back.
MaskedForwards(entities) == FoldLeft(Replaced, Text, entities)

\* From back to front, so that the offsets of what is left to do stay right.
Masked(entities) ==
    LET behind[i \in 1 .. Len(entities) + 1] ==
            IF i > Len(entities) THEN Text ELSE Replaced(behind[i + 1], entities[i])
    IN  behind[1]

\* Entities within the text, in its order and none within another. The service puts the
\* dates that it finds itself behind the others, and its offsets count characters:
\* for such an answer nothing is promised.
InTextOrder(entities) ==
    /\ \A i \in DOMAIN entities : 0 <= entities[i].from /\ entities[i].from < entities[i].to /\ entities[i].to <= Len(Text)
    /\ \A i, j \in DOMAIN entities : i < j => entities[i].to <= entities[j].from

\* All entities replaced at once: a byte stays, or the first byte of an entity
\* becomes its placeholder and the others go.
ReplacedAtOnce(entities) ==
    LET masked == {entities[k] : k \in {i \in DOMAIN entities : MapNERTypeToPIIType(entities[i].type) # ""}}
        At(i) == {e \in masked : e.from < i /\ i <= e.to}
        Piece(i) == IF At(i) = {} THEN <<Text[i]>>
                    ELSE LET e == CHOOSE x \in At(i) : TRUE
                         IN  IF i = e.from + 1 THEN <<Placeholder(e)>> ELSE <<>>
    IN  FlattenSeq([i \in DOMAIN Text |-> Piece(i)])

----------------------------------------------------------------------------
(* Properties.                                                             *)

\* The types; the attempts a call has left are never negative and never more than max_retry.
NERTypeOK ==
    /\ kind \in {"remote", "handler"}
    /\ circuitOpen \in BOOLEAN
    /\ failCount \in 0 .. Threshold
    /\ recent \in BOOLEAN
    /\ healthy \in BOOLEAN
    /\ up \in BOOLEAN
    /\ caller \in [Callers -> [pc : {"idle", "check", "reset", "send", "wait", "done"},
                               left : 0 .. MaxRetry, found : Answers \cup {<<>>}]]
    /\ burst \in 0 .. MaxBurst
    /\ late \in 0 .. Cardinality(Callers)

\* Both clients are circuit breakers: whatever calls are under way, the breaker opens
\* with the failure that reaches the threshold, a single failure opens it again after
\* a probe, and every success closes it.
Breaker ==
    INSTANCE CircuitBreaker WITH
        state <- IF circuitOpen THEN "open" ELSE IF Tripped THEN "half" ELSE "closed",
        streak <- failCount

ImplementsBreaker == Breaker!BreakerSpec

\* The callers that found an earlier cooldown over, and close the breaker after it was
\* opened again, are never all of them: one has opened it.
LateIsBounded == late < Cardinality(Callers)

\* A service that failed twice in a row is left alone for 30 s, but for the attempts
\* of the calls that were let through before: those of every caller, less the one
\* that opened the breaker. Each of the late callers, which had none of them, lets
\* one more call of every caller through, and they are not all of them.
PauseIsQuiet ==
    /\ burst < Tries * (Cardinality(Callers) * (1 + late) - late)
    /\ LateIsBounded

\* Every entity of a known type is replaced, and nothing else is changed, when the
\* service names them in the order of the text.
MasksEveryEntity ==
    \A c \in Callers :
        InTextOrder(caller[c].found) => Masked(caller[c].found) = ReplacedAtOnce(caller[c].found)

\* When the service is back for good and texts keep coming, the breaker closes for good,
\* the failures are forgotten and the health check says so.
Recovers ==
    <>[]up /\ []<>(\E c \in Callers : caller[c].pc # "idle")
        => <>[](~circuitOpen /\ failCount = 0 /\ (kind = "remote" => healthy))

\* A call ends, with the entities or without.
CallsEnd == \A c \in Callers : caller[c].pc # "idle" ~> caller[c].pc = "idle"
=============================================================================
