-------------------------- MODULE NERClientProofs --------------------------
(***************************************************************************)
(* Proofs about NERClient, for any number of callers, attempts and         *)
(* failures that open the breaker: both clients implement CircuitBreaker,  *)
(* and a service that fails is left alone for the cooldown, but for the    *)
(* requests of the calls that were let through before.                     *)
(***************************************************************************)
EXTENDS NERClient, FiniteSetTheorems, SequenceLemmas

USE NERAssumption

----------------------------------------------------------------------------
(* The inductive invariant.                                                *)

\* A call that is about to send has an attempt left.
AttemptsLeft == \A c \in Callers : caller[c].pc = "send" => caller[c].left \in 1 .. MaxRetry

\* The breaker is open only after as many failures as open it.
OpenIsTripped == circuitOpen => failCount >= Threshold

Resetting == {c \in Callers : caller[c].pc = "reset"}

NERInv == NERTypeOK /\ AttemptsLeft /\ OpenIsTripped

\* What a caller can be.
CallerState == [pc : {"idle", "check", "reset", "send", "wait", "done"},
                left : 0 .. MaxRetry, found : Answers \cup {<<>>}]

----------------------------------------------------------------------------
\* The states of a call that is not answered, and of one that is.
LEMMA CallerStates ==
    ASSUME NEW pc \in {"idle", "check", "reset", "send", "wait", "done"},
           NEW left \in 0 .. MaxRetry, NEW found \in Answers \cup {<<>>}
    PROVE  [pc |-> pc, left |-> left, found |-> found] \in CallerState
<1> QED
    BY DEF CallerState

LEMMA IdleState == Idle \in CallerState
<1>1. <<>> \in Answers \cup {<<>>} /\ 0 \in 0 .. MaxRetry
    OBVIOUS
<1> QED
    BY <1>1, CallerStates DEF Idle

\* A caller is left with its answer and goes on elsewhere.
LEMMA Goes ==
    ASSUME NEW r \in CallerState, NEW pc \in {"idle", "check", "reset", "send", "wait", "done"}
    PROVE  /\ [r EXCEPT !.pc = pc] \in CallerState
           /\ [r EXCEPT !.pc = pc].pc = pc
           /\ [r EXCEPT !.pc = pc].left = r.left
<1> QED
    BY DEF CallerState

LEMMA TriesFit == Tries \in 1 .. MaxRetry
<1> QED
    BY DEF Tries

LEMMA SendingState == Sending \in CallerState /\ Sending.left \in 1 .. MaxRetry
<1>1. Idle \in CallerState /\ Tries \in 0 .. MaxRetry /\ Tries \in 1 .. MaxRetry
    BY IdleState, TriesFit
<1> QED
    BY <1>1 DEF Sending, CallerState

\* One caller moves to another state; the rest of the invariant is kept elsewhere.
LEMMA Moves ==
    ASSUME NEW c \in Callers, NEW r \in CallerState,
           caller \in [Callers -> CallerState], AttemptsLeft,
           caller' = [caller EXCEPT ![c] = r],
           r.pc = "send" => r.left \in 1 .. MaxRetry
    PROVE  caller' \in [Callers -> CallerState] /\ AttemptsLeft'
<1> QED
    BY DEF AttemptsLeft

----------------------------------------------------------------------------
\* The invariant holds at the start.
LEMMA NERInitInv == NERInit => NERInv
<1> SUFFICES ASSUME NERInit PROVE NERInv
    OBVIOUS
<1> USE DEF NERInit
<1>1. Cardinality(Callers) \in Nat
    BY FS_CardinalityType
<1>2. caller \in [Callers -> CallerState]
    BY IdleState
<1>3. NERTypeOK
  <2>1. late \in 0 .. Cardinality(Callers)
      BY <1>1
  <2>2. failCount \in 0 .. Threshold /\ burst \in 0 .. MaxBurst
      OBVIOUS
  <2>3. circuitOpen \in BOOLEAN /\ recent \in BOOLEAN /\ healthy \in BOOLEAN /\ up \in BOOLEAN
      OBVIOUS
  <2> QED
      BY <1>2, <2>1, <2>2, <2>3 DEF NERTypeOK, CallerState
<1>4. AttemptsLeft /\ OpenIsTripped
    BY DEF AttemptsLeft, OpenIsTripped, Idle
<1> QED
    BY <1>3, <1>4 DEF NERInv

\* A recorded failure keeps the types of the breaker.
LEMMA FailureInv ==
    ASSUME NERInv, RecordFailure
    PROVE  /\ circuitOpen' \in BOOLEAN /\ failCount' \in 0 .. Threshold /\ recent' \in BOOLEAN
           /\ OpenIsTripped'
<1> QED
    BY DEF NERInv, NERTypeOK, OpenIsTripped, RecordFailure, Tripped

\* Every step keeps it.
LEMMA NERNextInv == NERInv /\ [NERNext]_nerVars => NERInv'
<1> SUFFICES ASSUME NERInv, [NERNext]_nerVars PROVE NERInv'
    OBVIOUS
<1> DEFINE Rest ==
        /\ kind \in {"remote", "handler"} /\ circuitOpen \in BOOLEAN
        /\ failCount \in 0 .. Threshold /\ recent \in BOOLEAN
        /\ healthy \in BOOLEAN /\ up \in BOOLEAN
        /\ burst \in 0 .. MaxBurst /\ late \in 0 .. Cardinality(Callers)
        /\ OpenIsTripped
<1>1. caller \in [Callers -> CallerState] /\ AttemptsLeft /\ Rest
    BY DEF NERInv, NERTypeOK, CallerState
<1>2. ASSUME caller' \in [Callers -> CallerState], AttemptsLeft', Rest' PROVE NERInv'
    BY <1>2 DEF NERInv, NERTypeOK, CallerState
<1>3. Cardinality(Callers) \in Nat
    BY FS_CardinalityType
<1>4. ASSUME NEW c \in Callers, Begin(c) PROVE NERInv'
  <2>1. caller' \in [Callers -> CallerState] /\ AttemptsLeft'
      BY <1>1, <1>4, Goes, Moves, Zenon DEF Begin
  <2>2. Rest'
      BY <1>1, <1>4 DEF Begin, client, OpenIsTripped
  <2> QED
      BY <1>2, <2>1, <2>2
<1>5. ASSUME NEW c \in Callers, IsCircuitOpen(c) PROVE NERInv'
  <2>1. PICK r \in {Sending, Idle, [Idle EXCEPT !.pc = "reset"]} : caller' = [caller EXCEPT ![c] = r]
      BY <1>5 DEF IsCircuitOpen
  <2>2. r \in CallerState /\ (r.pc = "send" => r.left \in 1 .. MaxRetry)
    <3>1. CASE r = Sending
        BY <3>1, SendingState
    <3>2. CASE r = Idle
        BY <3>2, IdleState DEF Idle
    <3>3. CASE r = [Idle EXCEPT !.pc = "reset"]
      <4>1. [Idle EXCEPT !.pc = "reset"] \in CallerState /\ [Idle EXCEPT !.pc = "reset"].pc = "reset"
          BY IdleState DEF CallerState
      <4> QED
          BY <3>3, <4>1
    <3> QED
        BY <3>1, <3>2, <3>3
  <2>3. caller' \in [Callers -> CallerState] /\ AttemptsLeft'
      BY <1>1, <2>1, <2>2, Moves
  <2>4. Rest'
      BY <1>1, <1>5 DEF IsCircuitOpen, client, OpenIsTripped
  <2> QED
      BY <1>2, <2>3, <2>4
<1>6. ASSUME NEW c \in Callers, Reset(c) PROVE NERInv'
  <2>1. caller' \in [Callers -> CallerState] /\ AttemptsLeft'
      BY <1>1, <1>6, SendingState, Moves DEF Reset
  <2>2. Rest'
    <3>1. late' \in 0 .. Cardinality(Callers)
        BY <1>1, <1>3, <1>6 DEF Reset
    <3> QED
        BY <1>1, <1>6, <3>1 DEF Reset, OpenIsTripped
  <2> QED
      BY <1>2, <2>1, <2>2
<1>7. ASSUME NEW c \in Callers, CheckAndReset(c) PROVE NERInv'
  <2>1. PICK r \in {Sending, Idle} : caller' = [caller EXCEPT ![c] = r]
      BY <1>7 DEF CheckAndReset
  <2>2. r \in CallerState /\ (r.pc = "send" => r.left \in 1 .. MaxRetry)
      BY SendingState, IdleState DEF Idle
  <2>3. caller' \in [Callers -> CallerState] /\ AttemptsLeft'
      BY <1>1, <2>1, <2>2, Moves
  <2>4. Rest'
      BY <1>1, <1>7 DEF CheckAndReset, OpenIsTripped
  <2> QED
      BY <1>2, <2>3, <2>4
<1>8. ASSUME NEW c \in Callers, Send(c) PROVE NERInv'
  <2> DEFINE r == [caller[c] EXCEPT !.pc = "wait", !.left = @ - 1]
  <2>1. r \in CallerState /\ r.pc = "wait"
      BY <1>1, <1>8 DEF Send, CallerState, AttemptsLeft
  <2>2. caller' = [caller EXCEPT ![c] = r]
      BY <1>1, <1>8 DEF Send
  <2>3. caller' \in [Callers -> CallerState] /\ AttemptsLeft'
      BY <1>1, <2>1, <2>2, Moves
  <2>4. Rest'
      BY <1>1, <1>8 DEF Send, client, OpenIsTripped
  <2> QED
      BY <1>2, <2>3, <2>4
<1>9. ASSUME NEW c \in Callers, Fail(c) PROVE NERInv'
  <2> DEFINE r == IF caller[c].left > 0 THEN [caller[c] EXCEPT !.pc = "send"] ELSE Idle
  <2>1. caller[c] \in CallerState /\ caller[c].left \in 0 .. MaxRetry
      BY <1>1 DEF CallerState
  <2>2. r \in CallerState /\ (r.pc = "send" => r.left \in 1 .. MaxRetry)
    <3>1. CASE caller[c].left > 0
      <4>1. r = [caller[c] EXCEPT !.pc = "send"] /\ caller[c].left \in 1 .. MaxRetry
          BY <2>1, <3>1
      <4> QED
          BY <2>1, <4>1 DEF CallerState
    <3>2. CASE ~ caller[c].left > 0
        BY <3>2, IdleState DEF Idle
    <3> QED
        BY <3>1, <3>2
  <2>3. caller' = [caller EXCEPT ![c] = r]
      BY <1>1, <1>9 DEF Fail
  <2>4. caller' \in [Callers -> CallerState] /\ AttemptsLeft'
      BY <1>1, <2>2, <2>3, Moves
  <2>5. Rest'
      BY <1>1, <1>9, FailureInv DEF Fail
  <2> QED
      BY <1>2, <2>4, <2>5
<1>10. ASSUME NEW c \in Callers, Succeed(c) PROVE NERInv'
  <2>1. PICK answer \in Answers : caller' = [caller EXCEPT ![c] = [Idle EXCEPT !.pc = "done", !.found = answer]]
      BY <1>10 DEF Succeed
  <2> DEFINE r == [Idle EXCEPT !.pc = "done", !.found = answer]
  <2>2. r \in CallerState
      BY IdleState DEF CallerState
  <2>3. r.pc = "done"
      BY IdleState DEF CallerState
  <2>4. caller' \in [Callers -> CallerState] /\ AttemptsLeft'
      BY <1>1, <2>1, <2>2, <2>3, Moves
  <2>5. Rest'
    <3>1. late' \in 0 .. Cardinality(Callers)
        BY <1>3, <1>10 DEF Succeed
    <3>2. burst' \in 0 .. MaxBurst /\ failCount' \in 0 .. Threshold
        BY <1>10 DEF Succeed, RecordSuccess
    <3> QED
        BY <1>1, <1>10, <3>1, <3>2 DEF Succeed, RecordSuccess, OpenIsTripped
  <2> QED
      BY <1>2, <2>4, <2>5
<1>11. ASSUME NEW c \in Callers, Return(c) PROVE NERInv'
  <2>1. caller' \in [Callers -> CallerState] /\ AttemptsLeft'
      BY <1>1, <1>11, IdleState, Moves DEF Return, Idle
  <2>2. Rest'
      BY <1>1, <1>11 DEF Return, client, OpenIsTripped
  <2> QED
      BY <1>2, <2>1, <2>2
<1>12. CASE Cooldown \/ ServiceChanges \/ CheckHealth \/ UNCHANGED nerVars
  <2>1. caller' = caller
      BY <1>12 DEF Cooldown, ServiceChanges, CheckHealth, nerVars
  <2>2. caller' \in [Callers -> CallerState] /\ AttemptsLeft'
      BY <1>1, <2>1 DEF AttemptsLeft
  <2>3. Rest'
    <3>1. late' \in 0 .. Cardinality(Callers)
        BY <1>1, <1>3, <1>12 DEF Cooldown, ServiceChanges, CheckHealth, nerVars
    <3>2. burst' \in 0 .. MaxBurst
        BY <1>1, <1>12 DEF Cooldown, ServiceChanges, CheckHealth, nerVars
    <3>3. kind' = kind /\ circuitOpen' = circuitOpen /\ failCount' = failCount
        BY <1>12 DEF Cooldown, ServiceChanges, CheckHealth, nerVars, client
    <3>4. recent' \in BOOLEAN
        BY <1>1, <1>12 DEF Cooldown, ServiceChanges, CheckHealth, nerVars, client
    <3>5. healthy' \in BOOLEAN /\ up' \in BOOLEAN
        BY <1>1, <1>12 DEF Cooldown, ServiceChanges, CheckHealth, nerVars
    <3> QED
        BY <1>1, <3>1, <3>2, <3>3, <3>4, <3>5 DEF OpenIsTripped
  <2> QED
      BY <1>2, <2>2, <2>3
<1> QED
    BY <1>4, <1>5, <1>6, <1>7, <1>8, <1>9, <1>10, <1>11, <1>12 DEF NERNext, Call

\* In every state the variables have their types, a call that sends has an attempt
\* left, and the breaker is open only after enough failures.
THEOREM NERInvariant == NERSpec => []NERInv
<1> QED
    BY NERInitInv, NERNextInv, PTL DEF NERSpec

\* The variables of both clients keep their types: the attempts of a call never run
\* below zero, the counted failures not above the threshold.
THEOREM NERTypeCorrect == NERSpec => []NERTypeOK
<1>1. NERInv => NERTypeOK
    BY DEF NERInv
<1> QED
    BY <1>1, NERInvariant, PTL

----------------------------------------------------------------------------
(* The refinement.                                                         *)

\* A recorded failure counts, or opens the breaker.
LEMMA FailureStep == NERInv /\ RecordFailure => Breaker!BreakerNext
<1> SUFFICES ASSUME NERInv, RecordFailure PROVE Breaker!BreakerNext
    OBVIOUS
<1> USE DEF NERInv, NERTypeOK, OpenIsTripped, RecordFailure, Tripped
<1>1. CASE failCount + 1 < Threshold
  <2>1. failCount' = failCount + 1 /\ circuitOpen = FALSE /\ circuitOpen' = FALSE
      BY <1>1
  <2> QED
      BY <1>1, <2>1 DEF Breaker!BreakerNext, Breaker!CountFailure
<1>2. CASE failCount + 1 >= Threshold
  <2>1. failCount' = Threshold
      BY <1>2
  <2>2. failCount' >= Threshold
      BY <2>1
  <2>3. circuitOpen' = TRUE
      BY <2>2
  <2> QED
      BY <1>2, <2>1, <2>3 DEF Breaker!BreakerNext, Breaker!Trip
<1> QED
    BY <1>1, <1>2

\* Every step of a client is a step of the breaker, or leaves it as it is.
LEMMA RefinementStep == NERInv /\ [NERNext]_nerVars => [Breaker!BreakerNext]_(Breaker!breakerVars)
<1> SUFFICES ASSUME NERInv, [NERNext]_nerVars, ~ UNCHANGED <<circuitOpen, failCount>>
             PROVE  Breaker!BreakerNext
    BY DEF Breaker!breakerVars, Tripped
<1> USE DEF NERInv, NERTypeOK, OpenIsTripped
<1>1. ASSUME NEW c \in Callers, Reset(c) PROVE Breaker!BreakerNext
  <2>1. circuitOpen = TRUE /\ circuitOpen' = FALSE /\ failCount' = failCount /\ failCount >= Threshold
      BY <1>1 DEF Reset
  <2> QED
      BY <2>1 DEF Breaker!BreakerNext, Breaker!Probe, Tripped
<1>2. ASSUME NEW c \in Callers, CheckAndReset(c) PROVE Breaker!BreakerNext
  <2>1. circuitOpen = TRUE /\ circuitOpen' = FALSE /\ failCount' = 0
      BY <1>2 DEF CheckAndReset
  <2> QED
      BY <2>1 DEF Breaker!BreakerNext, Breaker!Forget, Tripped
<1>3. ASSUME NEW c \in Callers, Fail(c) PROVE Breaker!BreakerNext
    BY <1>3, FailureStep DEF Fail
<1>4. ASSUME NEW c \in Callers, Succeed(c) PROVE Breaker!BreakerNext
    BY <1>4 DEF Succeed, RecordSuccess, Breaker!BreakerNext, Breaker!Recover, Tripped
<1>5. ASSUME NEW c \in Callers, Begin(c) \/ IsCircuitOpen(c) \/ Send(c) \/ Return(c) PROVE FALSE
    BY <1>5 DEF Begin, IsCircuitOpen, Send, Return, client
<1>6. ~ (Cooldown \/ ServiceChanges \/ CheckHealth \/ UNCHANGED nerVars)
    BY DEF Cooldown, ServiceChanges, CheckHealth, nerVars, client
<1> QED
    BY <1>1, <1>2, <1>3, <1>4, <1>5, <1>6 DEF NERNext, Call

\* Both clients are circuit breakers, whatever calls are under way at the same time.
THEOREM ImplementsBreakerCorrect == NERSpec => ImplementsBreaker
<1>1. NERInit => Breaker!BreakerInit
    BY DEF NERInit, Breaker!BreakerInit, Tripped
<1> QED
    BY <1>1, NERInvariant, RefinementStep, PTL DEF NERSpec, ImplementsBreaker, Breaker!BreakerSpec

\* The breaker holds back or probes after Threshold failures in a row and at no other
\* time.
THEOREM OpensAfterThreshold == NERSpec => []Breaker!OpenAfterThreshold
<1>1. NERInv => Breaker!OpenAfterThreshold
    BY DEF NERInv, NERTypeOK, OpenIsTripped, Breaker!OpenAfterThreshold, Tripped
<1> QED
    BY <1>1, NERInvariant, PTL

----------------------------------------------------------------------------
(* The callers that close the breaker late.                                *)

\* Of the callers that closed the breaker late or still will, one is missing: the one
\* whose failure came last.
LateOnes ==
    /\ ~ (Tripped /\ recent) => late = 0
    /\ Tripped /\ recent => late + Cardinality(Resetting) < Cardinality(Callers)

\* Callers and those that are about to close the breaker are counted.
LEMMA Counted ==
    /\ Cardinality(Callers) \in Nat \ {0}
    /\ Cardinality(Resetting) \in Nat
    /\ IsFiniteSet(Resetting)
<1>1. IsFiniteSet(Resetting)
    BY FS_Subset DEF Resetting
<1> QED
    BY <1>1, FS_CardinalityType, FS_EmptySet

\* As long as one caller waits for an answer, not all are about to close the breaker.
LEMMA OneWaits ==
    ASSUME NEW c \in Callers, caller[c].pc # "reset"
    PROVE  Cardinality(Resetting) < Cardinality(Callers)
<1>1. Resetting \subseteq Callers /\ Resetting # Callers
    BY DEF Resetting
<1> QED
    BY <1>1, FS_Subset, FS_CardinalityType, Counted

\* A step that leaves the breaker, the pause and late alone and sends nobody to close
\* the breaker keeps the bound.
LEMMA NobodyMore ==
    ASSUME NERInv, LateOnes, Tripped' = Tripped, recent' = recent, late' = late,
           Tripped /\ recent => Resetting' \subseteq Resetting
    PROVE  LateOnes'
<1>1. CASE Tripped /\ recent
  <2>1. Cardinality(Resetting') <= Cardinality(Resetting) /\ Cardinality(Resetting') \in Nat
      BY <1>1, FS_Subset, FS_CardinalityType, Counted
  <2>2. late + Cardinality(Resetting) < Cardinality(Callers) /\ late \in Nat
      BY <1>1, Counted DEF LateOnes, NERInv, NERTypeOK
  <2>3. Cardinality(Resetting)' = Cardinality(Resetting')
      OBVIOUS
  <2>4. late' + Cardinality(Resetting') < Cardinality(Callers)
      BY <2>1, <2>2, Counted
  <2> QED
      BY <1>1, <2>3, <2>4 DEF LateOnes
<1>2. CASE ~ (Tripped /\ recent)
    BY <1>2 DEF LateOnes
<1> QED
    BY <1>1, <1>2

\* Every step keeps the bound on the late callers.
LEMMA LateNext == NERInv /\ LateOnes /\ [NERNext]_nerVars => LateOnes'
<1> SUFFICES ASSUME NERInv, LateOnes, [NERNext]_nerVars PROVE LateOnes'
    OBVIOUS
<1>1. caller \in [Callers -> CallerState] /\ late \in Nat
    BY Counted DEF NERInv, NERTypeOK, CallerState
<1>2. ASSUME NEW c \in Callers, Begin(c) \/ Send(c) \/ Return(c) PROVE LateOnes'
  <2>1. Tripped' = Tripped /\ recent' = recent /\ late' = late
      BY <1>2 DEF Begin, Send, Return, client, Tripped
  <2>2. Resetting' \subseteq Resetting
      BY <1>1, <1>2 DEF Begin, Send, Return, Resetting, CallerState, Idle
  <2> QED
      BY <2>1, <2>2, NobodyMore
<1>3. ASSUME NEW c \in Callers, IsCircuitOpen(c) PROVE LateOnes'
  <2>1. Tripped' = Tripped /\ recent' = recent /\ late' = late
      BY <1>3 DEF IsCircuitOpen, client, Tripped
  <2>2. recent => Resetting' \subseteq Resetting
    <3>1. Sending.pc # "reset" /\ Idle.pc # "reset"
        BY IdleState DEF Sending, Idle, CallerState
    <3> QED
        BY <1>1, <1>3, <3>1 DEF IsCircuitOpen, Resetting
  <2> QED
      BY <2>1, <2>2, NobodyMore
<1>4. ASSUME NEW c \in Callers, Reset(c) PROVE LateOnes'
  <2>1. Tripped' = Tripped /\ recent' = recent
      BY <1>4 DEF Reset, Tripped
  <2>2. Resetting' = Resetting \ {c} /\ c \in Resetting
    <3>1. Sending.pc = "send"
        BY IdleState DEF Sending, CallerState
    <3> QED
        BY <1>1, <1>4, <3>1 DEF Reset, Resetting
  <2>3. Cardinality(Resetting') = Cardinality(Resetting) - 1
      BY <2>2, FS_RemoveElement, Counted
  <2>4. CASE Tripped /\ recent
    <3>1. late + Cardinality(Resetting) < Cardinality(Callers)
        BY <2>4 DEF LateOnes
    <3>2. late' <= late + 1 /\ late' \in Nat
        BY <1>1, <1>4 DEF Reset
    <3>3. late' + Cardinality(Resetting') < Cardinality(Callers)
        BY <1>1, <2>3, <3>1, <3>2, Counted
    <3>4. Cardinality(Resetting)' = Cardinality(Resetting')
        OBVIOUS
    <3> QED
        BY <2>1, <2>4, <3>3, <3>4 DEF LateOnes
  <2>5. CASE ~ (Tripped /\ recent)
      BY <1>4, <2>1, <2>5 DEF LateOnes, Reset
  <2> QED
      BY <2>4, <2>5
<1>5. ASSUME NEW c \in Callers, CheckAndReset(c) PROVE LateOnes'
  <2>1. Sending.pc = "send" /\ Idle.pc = "idle"
      BY IdleState DEF Sending, CallerState, Idle
  <2>2. Resetting' \subseteq Resetting
      BY <1>1, <1>5, <2>1 DEF CheckAndReset, Resetting
  <2>3. CASE circuitOpen /\ ~recent
    <3>1. late' = 0 /\ ~ recent'
        BY <1>5, <2>3 DEF CheckAndReset, LateOnes
    <3> QED
        BY <3>1 DEF LateOnes
  <2>4. CASE ~ (circuitOpen /\ ~recent)
    <3>1. Tripped' = Tripped /\ recent' = recent /\ late' = late
        BY <1>5, <2>4 DEF CheckAndReset, Tripped
    <3> QED
        BY <2>2, <3>1, NobodyMore
  <2> QED
      BY <2>3, <2>4
<1>6. ASSUME NEW c \in Callers, Fail(c) PROVE LateOnes'
  <2>1. caller[c].pc = "wait" /\ late' = late /\ recent' = TRUE
      BY <1>6 DEF Fail, RecordFailure
  <2>2. Resetting' \subseteq Resetting
    <3>1. Idle.pc = "idle"
        BY DEF Idle
    <3>2. [caller[c] EXCEPT !.pc = "send"].pc = "send"
        BY <1>1 DEF CallerState
    <3> QED
        BY <1>1, <1>6, <3>1, <3>2 DEF Fail, Resetting
  <2>3. CASE Tripped /\ recent
    <3>1. Tripped' = Tripped
        BY <1>6, <2>3 DEF Fail, RecordFailure, Tripped
    <3> QED
        BY <2>1, <2>2, <2>3, <3>1, NobodyMore
  <2>4. CASE ~ (Tripped /\ recent)
    <3>1. late' = 0
        BY <2>1, <2>4 DEF LateOnes
    <3>2. Cardinality(Resetting) < Cardinality(Callers)
        BY <2>1, OneWaits
    <3>3. Cardinality(Resetting') <= Cardinality(Resetting) /\ Cardinality(Resetting') \in Nat
        BY <2>2, FS_Subset, FS_CardinalityType, Counted
    <3>4. late' + Cardinality(Resetting') < Cardinality(Callers)
        BY <3>1, <3>2, <3>3, Counted
    <3>5. Cardinality(Resetting)' = Cardinality(Resetting')
        OBVIOUS
    <3> QED
        BY <2>1, <3>1, <3>4, <3>5 DEF LateOnes
  <2> QED
      BY <2>3, <2>4
<1>7. ASSUME NEW c \in Callers, Succeed(c) PROVE LateOnes'
  <2>1. late' = 0 /\ failCount' = 0
      BY <1>7 DEF Succeed, RecordSuccess
  <2>2. ~ Tripped'
      BY <2>1 DEF Tripped
  <2> QED
      BY <2>1, <2>2 DEF LateOnes
<1>8. CASE Cooldown
    BY <1>8 DEF Cooldown, LateOnes
<1>9. CASE ServiceChanges \/ CheckHealth \/ UNCHANGED nerVars
  <2>1. Tripped' = Tripped /\ recent' = recent /\ late' = late /\ caller' = caller
      BY <1>9 DEF ServiceChanges, CheckHealth, nerVars, client, Tripped
  <2> QED
      BY <2>1, NobodyMore DEF Resetting
<1> QED
    BY <1>2, <1>3, <1>4, <1>5, <1>6, <1>7, <1>8, <1>9 DEF NERNext, Call

\* The callers that close the breaker late, after a failure that opened it, are never
\* all of them.
THEOREM LateBounded == NERSpec => []LateIsBounded
<1>1. NERInit => LateOnes
    BY DEF NERInit, LateOnes
<1>2. NERInv /\ LateOnes => LateIsBounded
  <2> SUFFICES ASSUME NERInv, LateOnes PROVE late < Cardinality(Callers)
      BY DEF LateIsBounded
  <2>1. late \in Nat
      BY Counted DEF NERInv, NERTypeOK
  <2>2. CASE Tripped /\ recent
      BY <2>1, <2>2, Counted DEF LateOnes
  <2>3. CASE ~ (Tripped /\ recent)
      BY <2>3, Counted DEF LateOnes
  <2> QED
      BY <2>2, <2>3
<1>3. NERSpec => [](NERInv /\ LateOnes)
    BY <1>1, NERInitInv, NERNextInv, LateNext, PTL DEF NERSpec
<1> QED
    BY <1>2, <1>3, PTL
----------------------------------------------------------------------------
(* The quiet of a pause.                                                   *)

\* A call keeps to its attempts: what it sends is one of them.
AttemptsFit ==
    \A c \in Callers :
        /\ caller[c].pc = "send" => caller[c].left <= Tries
        /\ caller[c].pc = "wait" => caller[c].left < Tries

\* The requests that a caller can still send while the breaker stays as it is.
Attempts(c) ==
    IF caller[c].pc \in {"send", "wait"} THEN caller[c].left
    ELSE IF caller[c].pc = "reset" \/ ~circuitOpen THEN Tries
    ELSE 0

\* All of them, and how many requests a pause may see.
Chances == {x \in Callers \X (1 .. Tries) : x[2] <= Attempts(x[1])}
Allowed == Tries * (Cardinality(Callers) * (1 + late) - late)

\* The requests of the pause and those that are still to come stay below the bound.
Quiet ==
    /\ ~ (Tripped /\ recent) => burst = 0
    /\ Tripped /\ recent => burst + Cardinality(Chances) < Allowed

\* Each late caller raises the bound by a call of every other caller.
LEMMA AllowedGrows ==
    ASSUME NEW t \in Nat, NEW n \in Nat, NEW l \in Nat
    PROVE  t * (n * (1 + (l + 1)) - (l + 1)) = t * (n * (1 + l) - l) + (n - 1) * t
<1>1. n * (1 + (l + 1)) - (l + 1) = (n * (1 + l) - l) + (n - 1)
    OBVIOUS
<1>2. \A x, y \in Int : t * (x + y) = t * x + y * t
    OBVIOUS
<1>3. n * (1 + l) - l \in Int /\ n - 1 \in Int
    OBVIOUS
<1> QED
    BY <1>1, <1>2, <1>3

\* The chances of all callers are no more than the attempts of a call for each.
LEMMA ChancesCounted ==
    ASSUME NEW S, S \subseteq Callers
    PROVE  /\ IsFiniteSet(S \X (1 .. Tries))
           /\ Cardinality(S \X (1 .. Tries)) = Cardinality(S) * Tries
           /\ Cardinality(S) \in Nat
<1>1. IsFiniteSet(S) /\ Cardinality(S) \in Nat
    BY FS_Subset, FS_CardinalityType
<1>2. IsFiniteSet(1 .. Tries) /\ Cardinality(1 .. Tries) = Tries
    BY TriesFit, FS_Interval
<1> QED
    BY <1>1, <1>2, FS_Product

LEMMA ChancesFinite == IsFiniteSet(Chances) /\ Cardinality(Chances) \in Nat
<1>1. Chances \subseteq Callers \X (1 .. Tries)
    BY DEF Chances
<1> QED
    BY <1>1, ChancesCounted, FS_Subset, FS_CardinalityType

\* Between none and all the attempts of a call.
LEMMA AttemptsBounded ==
    ASSUME NERInv, AttemptsFit, NEW c \in Callers
    PROVE  Attempts(c) \in 0 .. Tries
<1>1. caller[c] \in CallerState
    BY DEF NERInv, NERTypeOK, CallerState
<1>2. caller[c].left \in 0 .. MaxRetry
    BY <1>1 DEF CallerState
<1> QED
    BY <1>2, TriesFit DEF Attempts, AttemptsFit

\* Who gets no attempts adds no chances.
LEMMA ChancesShrink ==
    ASSUME NERInv, NERInv', AttemptsFit, AttemptsFit', kind' = kind,
           \A c \in Callers : Attempts(c)' <= Attempts(c)
    PROVE  Chances' \subseteq Chances
<1>1. Tries' = Tries
    BY DEF Tries
<1>2. \A c \in Callers : Attempts(c) \in Int /\ Attempts(c)' \in Int
  <2>1. \A c \in Callers : Attempts(c) \in 0 .. Tries
      BY AttemptsBounded
  <2>2. \A c \in Callers : Attempts(c)' \in 0 .. Tries
    <3>1. TAKE c \in Callers
    <3>2. caller'[c].left \in 0 .. MaxRetry
        BY DEF NERInv, NERTypeOK
    <3> QED
        BY <1>1, <3>2, TriesFit DEF Attempts, AttemptsFit
  <2> QED
      BY <2>1, <2>2, TriesFit
<1>3. ASSUME NEW x \in Chances' PROVE x \in Chances
  <2>1. x \in Callers \X (1 .. Tries) /\ x[2] <= Attempts(x[1])'
      BY <1>1, <1>3 DEF Chances
  <2>2. x[1] \in Callers /\ x[2] \in Int
      BY <2>1
  <2>3. Attempts(x[1])' <= Attempts(x[1]) /\ Attempts(x[1]) \in Int /\ Attempts(x[1])' \in Int
      BY <1>2, <2>2
  <2>4. x[2] <= Attempts(x[1])
      BY <2>1, <2>2, <2>3
  <2> QED
      BY <2>1, <2>4 DEF Chances
<1> QED
    BY <1>3

\* A step that sends nothing and leaves the pause alone keeps it quiet when nobody
\* gets more attempts.
LEMMA StaysQuiet ==
    ASSUME NERInv, NERInv', AttemptsFit, AttemptsFit', Quiet, kind' = kind,
           Tripped' = Tripped, recent' = recent, burst' = burst, late' = late,
           Tripped /\ recent => \A c \in Callers : Attempts(c)' <= Attempts(c)
    PROVE  Quiet'
<1>1. CASE Tripped /\ recent
  <2>1. Chances' \subseteq Chances
      BY <1>1, ChancesShrink
  <2>2. Cardinality(Chances') <= Cardinality(Chances) /\ Cardinality(Chances') \in Nat
      BY <2>1, ChancesFinite, FS_Subset, FS_CardinalityType
  <2>3. Cardinality(Chances)' = Cardinality(Chances')
      OBVIOUS
  <2>4. Allowed' = Allowed /\ Allowed \in Int
      BY TriesFit, Counted DEF Allowed, Tries, NERInv, NERTypeOK
  <2>5. burst \in Nat /\ burst + Cardinality(Chances) < Allowed
      BY <1>1 DEF Quiet, NERInv, NERTypeOK
  <2>6. burst' + Cardinality(Chances') < Allowed'
      BY <2>2, <2>4, <2>5, ChancesFinite
  <2> QED
      BY <1>1, <2>3, <2>6 DEF Quiet
<1>2. CASE ~ (Tripped /\ recent)
    BY <1>2 DEF Quiet
<1> QED
    BY <1>1, <1>2

\* A call never gets more attempts than it may make.
LEMMA FitNext == NERInv /\ AttemptsFit /\ [NERNext]_nerVars => AttemptsFit' /\ kind' = kind
<1> SUFFICES ASSUME NERInv, AttemptsFit, [NERNext]_nerVars PROVE AttemptsFit' /\ kind' = kind
    OBVIOUS
<1>1. caller \in [Callers -> CallerState]
    BY DEF NERInv, NERTypeOK, CallerState
<1>2. kind' = kind
    BY DEF NERNext, Call, Begin, IsCircuitOpen, Reset, CheckAndReset, Send, Fail, Succeed, Return,
           Cooldown, ServiceChanges, CheckHealth, nerVars
<1>3. Tries' = Tries /\ Tries \in Nat \ {0}
    BY <1>2, TriesFit DEF Tries
<1>4. Sending.pc = "send" /\ Sending.left = Tries /\ Idle.pc = "idle"
    BY IdleState DEF Sending, Idle, CallerState
<1>5. ASSUME NEW c \in Callers, NEW r \in CallerState, caller' = [caller EXCEPT ![c] = r],
             r.pc = "send" => r.left <= Tries, r.pc = "wait" => r.left < Tries
      PROVE  AttemptsFit'
    BY <1>1, <1>3, <1>5 DEF AttemptsFit
<1>6. ASSUME NEW c \in Callers, Begin(c) PROVE AttemptsFit'
    BY <1>1, <1>5, <1>6, Goes DEF Begin
<1>7. ASSUME NEW c \in Callers, IsCircuitOpen(c) \/ CheckAndReset(c) \/ Reset(c) PROVE AttemptsFit'
  <2>1. PICK r \in {Sending, Idle, [Idle EXCEPT !.pc = "reset"]} : caller' = [caller EXCEPT ![c] = r]
      BY <1>7 DEF IsCircuitOpen, CheckAndReset, Reset
  <2>2. [Idle EXCEPT !.pc = "reset"] \in CallerState /\ [Idle EXCEPT !.pc = "reset"].pc = "reset"
      BY IdleState DEF CallerState
  <2>3. r \in CallerState /\ (r.pc = "send" => r.left <= Tries) /\ (r.pc = "wait" => r.left < Tries)
    <3>1. CASE r = Sending
        BY <1>3, <1>4, <3>1, SendingState
    <3>2. CASE r = Idle
        BY <1>4, <3>2, IdleState
    <3>3. CASE r = [Idle EXCEPT !.pc = "reset"]
        BY <2>2, <3>3
    <3> QED
        BY <2>1, <3>1, <3>2, <3>3
  <2> QED
      BY <1>5, <2>1, <2>3
<1>8. ASSUME NEW c \in Callers, Send(c) PROVE AttemptsFit'
  <2> DEFINE r == [caller[c] EXCEPT !.pc = "wait", !.left = @ - 1]
  <2>1. r \in CallerState /\ r.pc = "wait" /\ r.left < Tries
      BY <1>1, <1>3, <1>8 DEF Send, CallerState, AttemptsFit, NERInv, AttemptsLeft
  <2>2. caller' = [caller EXCEPT ![c] = r]
      BY <1>1, <1>8 DEF Send
  <2> HIDE DEF r
  <2> QED
      BY <1>5, <2>1, <2>2
<1>9. ASSUME NEW c \in Callers, Fail(c) PROVE AttemptsFit'
  <2>1. PICK r \in {Idle, [caller[c] EXCEPT !.pc = "send"]} : caller' = [caller EXCEPT ![c] = r]
      BY <1>9 DEF Fail
  <2>2. caller[c].left < Tries /\ caller[c].left \in Nat
      BY <1>1, <1>9 DEF Fail, AttemptsFit, CallerState
  <2>3. /\ [caller[c] EXCEPT !.pc = "send"] \in CallerState
        /\ [caller[c] EXCEPT !.pc = "send"].pc = "send"
        /\ [caller[c] EXCEPT !.pc = "send"].left = caller[c].left
      BY <1>1, Goes
  <2>4. r \in CallerState /\ (r.pc = "send" => r.left <= Tries) /\ (r.pc = "wait" => r.left < Tries)
    <3>1. CASE r = Idle
        BY <1>4, <3>1, IdleState
    <3>2. CASE r = [caller[c] EXCEPT !.pc = "send"]
      <4>1. r \in CallerState /\ r.pc = "send" /\ r.left = caller[c].left
          BY <2>3, <3>2
      <4> QED
          BY <1>3, <2>2, <4>1
    <3> QED
        BY <2>1, <3>1, <3>2
  <2> QED
      BY <1>5, <2>1, <2>4
<1>10. ASSUME NEW c \in Callers, Succeed(c) PROVE AttemptsFit'
  <2>1. PICK answer \in Answers : caller' = [caller EXCEPT ![c] = [Idle EXCEPT !.pc = "done", !.found = answer]]
      BY <1>10 DEF Succeed
  <2> DEFINE r == [Idle EXCEPT !.pc = "done", !.found = answer]
  <2>2. r \in CallerState /\ r.pc = "done"
      BY IdleState DEF CallerState
  <2> HIDE DEF r
  <2>3. caller' = [caller EXCEPT ![c] = r]
      BY <2>1 DEF r
  <2> QED
      BY <1>5, <2>2, <2>3
<1>11. ASSUME NEW c \in Callers, Return(c) PROVE AttemptsFit'
    BY <1>4, <1>5, <1>11, IdleState DEF Return
<1>12. CASE Cooldown \/ ServiceChanges \/ CheckHealth \/ UNCHANGED nerVars
    BY <1>2, <1>3, <1>12 DEF Cooldown, ServiceChanges, CheckHealth, nerVars, AttemptsFit
<1> QED
    BY <1>2, <1>6, <1>7, <1>8, <1>9, <1>10, <1>11, <1>12 DEF NERNext, Call
\* A request takes one of the chances that its caller has.
LEMMA SendTakesOne ==
    ASSUME NERInv, NERInv', AttemptsFit, AttemptsFit', kind' = kind, NEW c \in Callers, Send(c)
    PROVE  Cardinality(Chances') = Cardinality(Chances) - 1
<1>1. caller \in [Callers -> CallerState] /\ Tries \in Nat \ {0} /\ Tries' = Tries
    BY TriesFit DEF NERInv, NERTypeOK, CallerState, Tries
<1>2. caller[c].pc = "send" /\ caller[c].left \in 1 .. Tries
    BY <1>1, TriesFit DEF Send, NERInv, AttemptsLeft, AttemptsFit
<1>3. caller'[c].pc = "wait" /\ caller'[c].left = caller[c].left - 1
    BY <1>1 DEF Send, CallerState
<1>4. \A d \in Callers : d # c => caller'[d] = caller[d]
    BY <1>1 DEF Send
<1>5. circuitOpen' = circuitOpen
    BY DEF Send, client
<1>6. Attempts(c) = caller[c].left /\ Attempts(c)' = caller[c].left - 1
    BY <1>2, <1>3 DEF Attempts
<1>7. \A d \in Callers : d # c => Attempts(d)' = Attempts(d)
    BY <1>1, <1>4, <1>5 DEF Attempts
<1> DEFINE last == <<c, caller[c].left>>
<1>8. last \in Chances
    BY <1>2, <1>6 DEF Chances
<1>9. Chances' = Chances \ {last}
  <2>1. ASSUME NEW x \in Callers \X (1 .. Tries)
        PROVE  x \in Chances' <=> x \in Chances /\ x # last
    <3>1. x \in Chances' <=> x[2] <= Attempts(x[1])'
        BY <1>1 DEF Chances
    <3>2. x \in Chances <=> x[2] <= Attempts(x[1])
        BY DEF Chances
    <3>3. CASE x[1] = c
      <4>1. x = last <=> x[2] = caller[c].left
          BY <3>3
      <4> HIDE DEF last
      <4> QED
          BY <1>2, <1>6, <3>1, <3>2, <3>3, <4>1
    <3>4. CASE x[1] # c
      <4>1. x # last /\ x[1] \in Callers
          BY <3>4
      <4> QED
          BY <1>7, <3>1, <3>2, <3>4, <4>1
    <3> QED
        BY <3>3, <3>4
  <2>2. Chances' \subseteq Callers \X (1 .. Tries) /\ Chances \subseteq Callers \X (1 .. Tries)
      BY <1>1 DEF Chances
  <2> HIDE DEF last
  <2> QED
      BY <2>1, <2>2
<1> HIDE DEF last
<1> QED
    BY <1>8, <1>9, ChancesFinite, FS_RemoveElement

\* Who opens the breaker has used one of its attempts; the others may have all theirs.
LEMMA PauseStarts ==
    ASSUME NERInv, NERInv', AttemptsFit, AttemptsFit', kind' = kind, NEW c \in Callers, Fail(c),
           circuitOpen'
    PROVE  Cardinality(Chances') < Tries * Cardinality(Callers)
<1>1. caller \in [Callers -> CallerState] /\ Tries \in Nat \ {0} /\ Tries' = Tries
    BY TriesFit DEF NERInv, NERTypeOK, CallerState, Tries
<1>2. Attempts(c)' < Tries /\ Attempts(c)' \in Int
  <2>1. caller[c] \in CallerState /\ caller[c].left < Tries /\ caller[c].left \in Nat
      BY <1>1 DEF Fail, AttemptsFit, CallerState
  <2>2. CASE caller[c].left > 0
    <3>1. caller'[c] = [caller[c] EXCEPT !.pc = "send"]
        BY <1>1, <2>2 DEF Fail
    <3>2. caller'[c].pc = "send" /\ caller'[c].left = caller[c].left
        BY <2>1, <3>1, Goes
    <3> QED
        BY <2>1, <3>2 DEF Attempts
  <2>3. CASE ~ caller[c].left > 0
    <3>1. caller'[c].pc = "idle"
        BY <1>1, <2>3 DEF Fail, Idle
    <3> QED
        BY <1>1, <3>1 DEF Attempts
  <2> QED
      BY <2>2, <2>3
<1> DEFINE all == Callers \X (1 .. Tries)
           first == <<c, Tries>>
<1>3. first \in all /\ IsFiniteSet(all) /\ Cardinality(all) = Cardinality(Callers) * Tries
    BY <1>1, ChancesCounted
<1>4. Chances' \subseteq all \ {first}
  <2>1. Chances' \subseteq all
      BY <1>1 DEF Chances
  <2>2. first \in Chances' => Tries <= Attempts(c)'
      BY <1>1 DEF Chances
  <2>3. first \notin Chances'
      BY <1>1, <1>2, <2>2
  <2> HIDE DEF first, all
  <2> QED
      BY <2>1, <2>3
<1> HIDE DEF first, all
<1>5. IsFiniteSet(all \ {first}) /\ Cardinality(all \ {first}) = Cardinality(all) - 1
    BY <1>3, FS_RemoveElement
<1>6. Cardinality(Chances') <= Cardinality(all \ {first}) /\ Cardinality(Chances') \in Nat
    BY <1>4, <1>5, FS_Subset, FS_CardinalityType
<1>7. Cardinality(Callers) * Tries = Tries * Cardinality(Callers) /\ Tries * Cardinality(Callers) \in Int
    BY <1>1, Counted
<1> QED
    BY <1>3, <1>5, <1>6, <1>7

\* A late caller gives every other one a call.
LEMMA LateAdds ==
    ASSUME NERInv, NERInv', AttemptsFit, AttemptsFit', kind' = kind, NEW c \in Callers, Reset(c)
    PROVE  Cardinality(Chances') <= Cardinality(Chances) + (Cardinality(Callers) - 1) * Tries
<1>1. caller \in [Callers -> CallerState] /\ Tries \in Nat \ {0} /\ Tries' = Tries
    BY TriesFit DEF NERInv, NERTypeOK, CallerState, Tries
<1>2. Attempts(c)' = Tries /\ Attempts(c) = Tries
  <2>1. caller'[c].pc = "send" /\ caller'[c].left = Tries /\ caller[c].pc = "reset"
      BY <1>1, IdleState DEF Reset, Sending, CallerState
  <2> QED
      BY <1>1, <2>1 DEF Attempts
<1> DEFINE others == (Callers \ {c}) \X (1 .. Tries)
<1>3. Chances' \subseteq Chances \cup others
  <2>1. ASSUME NEW x \in Chances' PROVE x \in Chances \cup others
    <3>1. x \in Callers \X (1 .. Tries) /\ x[2] <= Attempts(x[1])'
        BY <1>1, <2>1 DEF Chances
    <3>2. CASE x[1] = c
      <4>1. x[2] <= Attempts(x[1])
          BY <1>2, <3>1, <3>2
      <4> QED
          BY <3>1, <4>1 DEF Chances
    <3>3. CASE x[1] # c
        BY <3>1, <3>3
    <3> QED
        BY <3>2, <3>3
  <2> HIDE DEF others
  <2> QED
      BY <2>1
<1>4. IsFiniteSet(others) /\ Cardinality(others) = (Cardinality(Callers) - 1) * Tries
  <2>1. Cardinality(Callers \ {c}) = Cardinality(Callers) - 1
      BY FS_RemoveElement
  <2> QED
      BY <2>1, ChancesCounted
<1> HIDE DEF others
<1>5. /\ IsFiniteSet(Chances \cup others)
      /\ Cardinality(Chances \cup others) <= Cardinality(Chances) + Cardinality(others)
  <2>1. IsFiniteSet(Chances \cup others)
      BY <1>4, ChancesFinite, FS_Union
  <2>2. Cardinality(Chances \cup others)
            = Cardinality(Chances) + Cardinality(others) - Cardinality(Chances \cap others)
      BY <1>4, ChancesFinite, FS_Union
  <2>3. Cardinality(Chances \cap others) \in Nat
    <3>1. IsFiniteSet(Chances \cap others)
        BY <1>4, FS_Intersection
    <3> QED
        BY <3>1, FS_CardinalityType
  <2>4. Cardinality(others) \in Nat
      BY <1>4, FS_CardinalityType
  <2> QED
      BY <2>1, <2>2, <2>3, <2>4, ChancesFinite
<1>6. Cardinality(Chances') <= Cardinality(Chances \cup others) /\ Cardinality(Chances') \in Nat
    BY <1>3, <1>5, FS_Subset, FS_CardinalityType
<1>7. Cardinality(others) \in Nat /\ Cardinality(Chances \cup others) \in Nat
    BY <1>4, <1>5, FS_CardinalityType
<1> QED
    BY <1>4, <1>5, <1>6, <1>7, ChancesFinite
\* Every step keeps a pause quiet.
LEMMA QuietNext ==
    ASSUME NERInv, NERInv', LateOnes, AttemptsFit, AttemptsFit', Quiet, [NERNext]_nerVars, kind' = kind
    PROVE  Quiet'
<1>1. caller \in [Callers -> CallerState] /\ Tries \in Nat \ {0} /\ Tries' = Tries
    BY TriesFit DEF NERInv, NERTypeOK, CallerState, Tries
<1>2. burst \in Nat /\ late \in Nat /\ burst' \in Nat /\ Cardinality(Callers) \in Nat \ {0}
    BY Counted DEF NERInv, NERTypeOK
<1>3. \A c \in Callers : Attempts(c) \in 0 .. Tries
    BY AttemptsBounded
<1>4. Sending.pc = "send" /\ Sending.left = Tries /\ Idle.pc = "idle"
    BY IdleState DEF Sending, Idle, CallerState
\* Only one caller moves, the breaker stays as it is: that caller's attempts matter.
<1>5. ASSUME NEW c \in Callers, NEW r \in CallerState, caller' = [caller EXCEPT ![c] = r],
             circuitOpen' = circuitOpen,
             Tripped /\ recent => Attempts(c)' <= Attempts(c)
      PROVE  Tripped /\ recent => \A d \in Callers : Attempts(d)' <= Attempts(d)
  <2>1. ASSUME NEW d \in Callers, d # c PROVE Attempts(d)' <= Attempts(d)
    <3>1. caller'[d] = caller[d]
        BY <1>1, <1>5, <2>1
    <3>2. Attempts(d)' = Attempts(d)
        BY <1>1, <1>5, <3>1 DEF Attempts
    <3> QED
        BY <1>3, <3>2
  <2> QED
      BY <1>5, <2>1
<1>6. ASSUME NEW c \in Callers, Begin(c) \/ IsCircuitOpen(c) \/ Return(c) PROVE Quiet'
  <2>1. /\ Tripped' = Tripped /\ recent' = recent /\ burst' = burst /\ late' = late
        /\ circuitOpen' = circuitOpen
      BY <1>6 DEF Begin, IsCircuitOpen, Return, client, Tripped
  <2>2. caller'[c] \in CallerState /\ caller' = [caller EXCEPT ![c] = caller'[c]]
      BY <1>1, <1>6 DEF Begin, IsCircuitOpen, Return, NERInv, NERTypeOK, CallerState
  <2>3. recent => Attempts(c)' <= Attempts(c)
    <3>1. CASE Begin(c)
      <4>1. caller[c].pc = "idle" /\ caller'[c].pc = "check"
          BY <1>1, <3>1, Goes DEF Begin
      <4> QED
          BY <1>1, <2>1, <4>1 DEF Attempts
    <3>2. CASE IsCircuitOpen(c) /\ ~circuitOpen
      <4>1. caller[c].pc = "check" /\ caller'[c] = Sending
          BY <1>1, <3>2 DEF IsCircuitOpen
      <4> QED
          BY <1>1, <1>4, <3>2, <4>1 DEF Attempts
    <3>3. CASE IsCircuitOpen(c) /\ circuitOpen
      <4>1. caller[c].pc = "check" /\ (recent => caller'[c] = Idle)
          BY <1>1, <3>3 DEF IsCircuitOpen
      <4> QED
          BY <1>1, <1>4, <2>1, <3>3, <4>1 DEF Attempts
    <3>4. CASE Return(c)
      <4>1. caller[c].pc = "done" /\ caller'[c] = Idle
          BY <1>1, <3>4 DEF Return
      <4> QED
          BY <1>1, <1>4, <2>1, <4>1 DEF Attempts
    <3> QED
        BY <1>6, <3>1, <3>2, <3>3, <3>4
  <2>4. Tripped /\ recent => \A d \in Callers : Attempts(d)' <= Attempts(d)
      BY <1>5, <2>1, <2>2, <2>3
  <2> QED
      BY <2>1, <2>4, StaysQuiet
<1>7. ASSUME NEW c \in Callers, CheckAndReset(c) PROVE Quiet'
  <2>1. CASE circuitOpen /\ ~recent
    <3>1. ~recent' /\ burst' = 0
        BY <1>7, <2>1 DEF CheckAndReset, Quiet
    <3> QED
        BY <3>1 DEF Quiet
  <2>2. CASE ~ (circuitOpen /\ ~recent)
    <3>1. /\ Tripped' = Tripped /\ recent' = recent /\ burst' = burst /\ late' = late
          /\ circuitOpen' = circuitOpen
        BY <1>7, <2>2 DEF CheckAndReset, Tripped, NERInv, NERTypeOK
    <3>2. caller'[c] \in CallerState /\ caller' = [caller EXCEPT ![c] = caller'[c]]
        BY <1>1, <1>7 DEF CheckAndReset, NERInv, NERTypeOK, CallerState
    <3>3. Attempts(c)' <= Attempts(c)
      <4>1. CASE circuitOpen
        <5>1. caller[c].pc = "check" /\ caller'[c] = Idle
            BY <1>1, <1>7, <2>2, <4>1 DEF CheckAndReset
        <5> QED
            BY <1>4, <3>1, <4>1, <5>1 DEF Attempts
      <4>2. CASE ~circuitOpen
        <5>1. caller[c].pc = "check" /\ caller'[c] = Sending
            BY <1>1, <1>7, <4>2 DEF CheckAndReset
        <5> QED
            BY <1>1, <1>4, <4>2, <5>1 DEF Attempts
      <4> QED
          BY <4>1, <4>2
    <3>4. Tripped /\ recent => \A d \in Callers : Attempts(d)' <= Attempts(d)
        BY <1>5, <3>1, <3>2, <3>3
    <3> QED
        BY <3>1, <3>4, StaysQuiet
  <2> QED
      BY <2>1, <2>2
<1>8. ASSUME NEW c \in Callers, Reset(c) PROVE Quiet'
  <2>1. Tripped' = Tripped /\ recent' = recent /\ burst' = burst
      BY <1>8 DEF Reset, Tripped
  <2>2. CASE Tripped /\ recent
    <3>1. late < Cardinality(Callers)
        BY <1>2, <2>2, Counted DEF LateOnes
    <3>2. late' = late + 1
        BY <1>8, <2>2, <3>1 DEF Reset
    <3>3. Allowed' = Allowed + (Cardinality(Callers) - 1) * Tries
      <4>1. Allowed' = Tries * (Cardinality(Callers) * (1 + (late + 1)) - (late + 1))
          BY <1>1, <3>2 DEF Allowed
      <4> QED
          BY <1>1, <1>2, <4>1, AllowedGrows DEF Allowed
    <3>4. /\ Cardinality(Chances') <= Cardinality(Chances) + (Cardinality(Callers) - 1) * Tries
          /\ Cardinality(Chances') \in Nat /\ Cardinality(Chances) \in Nat
      <4>1. Cardinality(Chances') <= Cardinality(Chances) + (Cardinality(Callers) - 1) * Tries
          BY <1>8, LateAdds
      <4>2. Chances' \subseteq Callers \X (1 .. Tries)
          BY <1>1 DEF Chances
      <4>3. Cardinality(Chances') \in Nat
          BY <4>2, ChancesCounted, FS_Subset, FS_CardinalityType
      <4> QED
          BY <4>1, <4>3, ChancesFinite
    <3>5. (Cardinality(Callers) - 1) * Tries \in Int /\ Allowed \in Int
        BY <1>1, <1>2 DEF Allowed
    <3>6. burst + Cardinality(Chances) < Allowed
        BY <2>2 DEF Quiet
    <3>7. burst' + Cardinality(Chances') < Allowed'
        BY <1>2, <2>1, <3>3, <3>4, <3>5, <3>6
    <3>8. Cardinality(Chances)' = Cardinality(Chances')
        OBVIOUS
    <3> QED
        BY <2>1, <2>2, <3>7, <3>8 DEF Quiet
  <2>3. CASE ~ (Tripped /\ recent)
      BY <2>1, <2>3 DEF Quiet
  <2> QED
      BY <2>2, <2>3
<1>9. ASSUME NEW c \in Callers, Send(c) PROVE Quiet'
  <2>1. Tripped' = Tripped /\ recent' = recent /\ late' = late
      BY <1>9 DEF Send, client, Tripped
  <2>2. CASE Tripped /\ recent
    <3>1. Cardinality(Chances') = Cardinality(Chances) - 1 /\ Cardinality(Chances) \in Nat
        BY <1>9, SendTakesOne, ChancesFinite
    <3>2. Allowed' = Allowed /\ Allowed \in Int
        BY <1>1, <1>2, <2>1 DEF Allowed
    <3>3. burst' <= burst + 1
        BY <1>2, <1>9 DEF Send
    <3>4. burst + Cardinality(Chances) < Allowed
        BY <2>2 DEF Quiet
    <3>5. burst' + Cardinality(Chances') < Allowed'
        BY <1>2, <3>1, <3>2, <3>3, <3>4
    <3>6. Cardinality(Chances)' = Cardinality(Chances')
        OBVIOUS
    <3> QED
        BY <2>1, <2>2, <3>5, <3>6 DEF Quiet
  <2>3. CASE ~ (Tripped /\ recent)
    <3>1. burst' = 0
        BY <1>9, <2>3 DEF Send, Quiet
    <3> QED
        BY <2>1, <2>3, <3>1 DEF Quiet
  <2> QED
      BY <2>2, <2>3
<1>10. ASSUME NEW c \in Callers, Fail(c) PROVE Quiet'
  <2>1. burst' = burst /\ late' = late /\ recent' = TRUE /\ circuitOpen' = (circuitOpen \/ Tripped')
      BY <1>10 DEF Fail, RecordFailure, Tripped
  <2>2. CASE ~ Tripped'
    <3>1. ~ Tripped
        BY <1>10, <2>2 DEF Fail, RecordFailure, Tripped, NERInv, NERTypeOK
    <3> QED
        BY <2>1, <2>2, <3>1 DEF Quiet
  <2>3. CASE Tripped' /\ ~ (Tripped /\ recent)
    <3>1. burst' = 0 /\ late' = 0
        BY <2>1, <2>3 DEF Quiet, LateOnes
    <3>2. Cardinality(Chances') < Tries * Cardinality(Callers)
        BY <1>10, <2>1, <2>3, PauseStarts
    <3>3. Allowed' = Tries * Cardinality(Callers)
      <4>1. Allowed' = Tries * (Cardinality(Callers) * (1 + 0) - 0)
          BY <1>1, <3>1 DEF Allowed
      <4>2. Cardinality(Callers) * (1 + 0) - 0 = Cardinality(Callers)
          BY <1>2
      <4> QED
          BY <4>1, <4>2
    <3>4. Chances' \subseteq Callers \X (1 .. Tries)
        BY <1>1 DEF Chances
    <3>5. Cardinality(Chances') \in Nat
        BY <3>4, ChancesCounted, FS_Subset, FS_CardinalityType
    <3>6. Cardinality(Chances)' = Cardinality(Chances')
        OBVIOUS
    <3> QED
        BY <3>1, <3>2, <3>3, <3>5, <3>6, <2>1, <2>3 DEF Quiet
  <2>4. CASE Tripped /\ recent
    <3>1. Tripped' /\ circuitOpen'
        BY <1>10, <2>1, <2>4 DEF Fail, RecordFailure, Tripped
    <3>2. \A d \in Callers : Attempts(d)' <= Attempts(d)
      <4>1. TAKE d \in Callers
      <4>2. caller[d] \in CallerState /\ Attempts(d) \in 0 .. Tries
          BY <1>1, <1>3
      <4>3. CASE d # c
        <5>1. caller'[d] = caller[d]
            BY <1>1, <1>10, <4>3 DEF Fail
        <5> QED
            BY <1>1, <3>1, <4>2, <5>1 DEF Attempts
      <4>4. CASE d = c /\ caller[c].left > 0
        <5>1. caller'[c] = [caller[c] EXCEPT !.pc = "send"]
            BY <1>1, <1>10, <4>4 DEF Fail
        <5>2. caller[c] \in CallerState /\ caller[c].pc = "wait"
            BY <1>1, <1>10 DEF Fail
        <5>3. caller'[c].pc = "send" /\ caller'[c].left = caller[c].left
            BY <5>1, <5>2, Goes
        <5> QED
            BY <4>2, <4>4, <5>2, <5>3 DEF Attempts
      <4>5. CASE d = c /\ ~ caller[c].left > 0
        <5>1. caller'[c].pc = "idle"
            BY <1>1, <1>10, <4>5 DEF Fail, Idle
        <5> QED
            BY <1>1, <3>1, <4>2, <4>5, <5>1 DEF Attempts
      <4> QED
          BY <4>3, <4>4, <4>5
    <3> QED
        BY <2>1, <2>4, <3>1, <3>2, StaysQuiet
  <2> QED
      BY <2>2, <2>3, <2>4
<1>11. ASSUME NEW c \in Callers, Succeed(c) PROVE Quiet'
  <2>1. burst' = 0 /\ failCount' = 0
      BY <1>11 DEF Succeed, RecordSuccess
  <2> QED
      BY <2>1 DEF Quiet, Tripped
<1>12. CASE Cooldown
    BY <1>12 DEF Cooldown, Quiet
<1>13. CASE ServiceChanges \/ CheckHealth \/ UNCHANGED nerVars
  <2>1. /\ Tripped' = Tripped /\ recent' = recent /\ burst' = burst /\ late' = late
        /\ caller' = caller /\ circuitOpen' = circuitOpen
      BY <1>13 DEF ServiceChanges, CheckHealth, nerVars, client, Tripped
  <2>2. \A d \in Callers : Attempts(d)' <= Attempts(d)
      BY <1>1, <1>3, <2>1 DEF Attempts
  <2> QED
      BY <2>1, <2>2, StaysQuiet
<1> QED
    BY <1>6, <1>7, <1>8, <1>9, <1>10, <1>11, <1>12, <1>13 DEF NERNext, Call

\* A service that failed as often as opens the breaker is left alone until the cooldown
\* is over: the requests that still reach it are the attempts of the calls that were let
\* through before, and a call of every caller for each that closed the breaker late.
THEOREM PauseQuiet == NERSpec => []PauseIsQuiet
<1> DEFINE Inv == NERInv /\ LateOnes /\ AttemptsFit /\ Quiet
<1>1. NERInit => Inv
    BY NERInitInv DEF NERInit, LateOnes, AttemptsFit, Quiet, Idle
<1>2. Inv /\ [NERNext]_nerVars => Inv'
  <2> SUFFICES ASSUME Inv, [NERNext]_nerVars PROVE Inv'
      OBVIOUS
  <2>1. NERInv'
      BY NERNextInv
  <2>2. AttemptsFit' /\ kind' = kind
      BY FitNext
  <2>3. LateOnes'
      BY LateNext
  <2>4. Quiet'
      BY <2>1, <2>2, QuietNext
  <2> QED
      BY <2>1, <2>2, <2>3, <2>4
<1>3. Inv => PauseIsQuiet
  <2> SUFFICES ASSUME Inv PROVE PauseIsQuiet
      OBVIOUS
  <2>1. Tries \in Nat \ {0} /\ Cardinality(Callers) \in Nat \ {0} /\ burst \in Nat /\ late \in Nat
      BY TriesFit, Counted DEF NERInv, NERTypeOK
  <2>2. CASE Tripped /\ recent
    <3>1. burst + Cardinality(Chances) < Allowed /\ late + Cardinality(Resetting) < Cardinality(Callers)
        BY <2>2 DEF Quiet, LateOnes
    <3>2. Allowed \in Int
        BY <2>1 DEF Allowed
    <3>3. burst < Allowed /\ late < Cardinality(Callers)
        BY <2>1, <3>1, <3>2, ChancesFinite, Counted
    <3> QED
        BY <3>3 DEF PauseIsQuiet, LateIsBounded, Allowed
  <2>3. CASE ~ (Tripped /\ recent)
    <3>1. burst = 0 /\ late = 0
        BY <2>3 DEF Quiet, LateOnes
    <3>2. Cardinality(Callers) * (1 + 0) - 0 = Cardinality(Callers)
        BY <2>1
    <3>3. 0 < Tries * Cardinality(Callers)
        BY <2>1
    <3>4. 0 < Tries * (Cardinality(Callers) * (1 + 0) - 0)
        BY <3>2, <3>3
    <3> QED
        BY <2>1, <3>1, <3>4 DEF PauseIsQuiet, LateIsBounded
  <2> QED
      BY <2>2, <2>3
<1> HIDE DEF Inv
<1>4. NERSpec => []Inv
    BY <1>1, <1>2, PTL DEF NERSpec
<1> QED
    BY <1>3, <1>4, PTL
----------------------------------------------------------------------------
(* What a caller makes of an answer.                                       *)

HIDE NERAssumption

\* The text with the entities from the k-th on replaced, as a function of k.
Backward(entities, g) ==
    g = [i \in 1 .. Len(entities) + 1 |->
            IF i > Len(entities) THEN Text ELSE Replaced(g[i + 1], entities[i])]

BackwardFrom(entities, k, g) ==
    g = [i \in k .. Len(entities) + 1 |->
            IF i > Len(entities) THEN Text ELSE Replaced(g[i + 1], entities[i])]

\* There is such a function.
LEMMA BackwardExists ==
    ASSUME NEW entities, Len(entities) \in Nat
    PROVE  \E g : Backward(entities, g)
<1> DEFINE n == Len(entities)
           P == {k \in Nat : k <= n => \E g : BackwardFrom(entities, n + 1 - k, g)}
<1>1. 0 \in P
  <2> DEFINE h == [i \in n + 1 .. n + 1 |-> Text]
  <2>1. \A i \in n + 1 .. n + 1 : i > n
      OBVIOUS
  <2>2. h = [i \in n + 1 .. n + 1 |-> IF i > n THEN Text ELSE Replaced(h[i + 1], entities[i])]
      BY <2>1
  <2> HIDE DEF h
  <2>3. BackwardFrom(entities, n + 1, h)
      BY <2>2 DEF BackwardFrom
  <2>4. n + 1 - 0 = n + 1
      OBVIOUS
  <2> QED
      BY <2>3, <2>4
<1>2. ASSUME NEW k \in Nat, k \in P PROVE k + 1 \in P
  <2>1. SUFFICES ASSUME k + 1 <= n PROVE \E g : BackwardFrom(entities, n + 1 - (k + 1), g)
      OBVIOUS
  <2>2. PICK g : BackwardFrom(entities, n + 1 - k, g)
      BY <1>2, <2>1
  <2> DEFINE m == n - k
  <2>3. m \in Nat /\ n + 1 - k = m + 1 /\ n + 1 - (k + 1) = m /\ m \in 1 .. n
      BY <2>1
  <2> HIDE DEF m
  <2> DEFINE h == [i \in m .. n + 1 |-> IF i = m THEN Replaced(g[m + 1], entities[m]) ELSE g[i]]
  <2>4. g = [i \in m + 1 .. n + 1 |-> IF i > n THEN Text ELSE Replaced(g[i + 1], entities[i])]
      BY <2>2, <2>3 DEF BackwardFrom
  <2>5. ASSUME NEW i \in m .. n + 1
        PROVE  h[i] = IF i > n THEN Text ELSE Replaced(h[i + 1], entities[i])
    <3>1. CASE i = m
      <4>1. ~ (i > n) /\ i + 1 \in m .. n + 1 /\ i + 1 # m /\ i + 1 = m + 1
          BY <2>3, <3>1
      <4>2. h[i + 1] = g[m + 1] /\ h[i] = Replaced(g[m + 1], entities[m])
          BY <3>1, <4>1
      <4> QED
          BY <3>1, <4>1, <4>2
    <3>2. CASE i # m
      <4>1. i \in m + 1 .. n + 1
          BY <2>3, <3>2
      <4>2. h[i] = IF i > n THEN Text ELSE Replaced(g[i + 1], entities[i])
          BY <2>4, <3>2, <4>1
      <4>3. ~ (i > n) => i + 1 \in m .. n + 1 /\ i + 1 # m
          BY <2>3, <4>1
      <4>4. ~ (i > n) => h[i + 1] = g[i + 1]
          BY <4>3
      <4> QED
          BY <4>2, <4>4
    <3> QED
        BY <3>1, <3>2
  <2>6. h = [i \in m .. n + 1 |-> h[i]]
      OBVIOUS
  <2> HIDE DEF h
  <2>7. h = [i \in m .. n + 1 |-> IF i > n THEN Text ELSE Replaced(h[i + 1], entities[i])]
      BY <2>5, <2>6
  <2>8. BackwardFrom(entities, m, h)
      BY <2>7 DEF BackwardFrom
  <2> QED
      BY <2>3, <2>8
<1>3. n \in P
  <2> HIDE DEF P
  <2> QED
      BY <1>1, <1>2, AllNumbers
<1>4. n + 1 - n = 1
    OBVIOUS
<1>5. PICK g : BackwardFrom(entities, 1, g)
    BY <1>3, <1>4
<1>6. Backward(entities, g)
    BY <1>5, Zenon DEF BackwardFrom, Backward
<1> QED
    BY <1>6

LEMMA MaskedBackward ==
    ASSUME NEW entities, Len(entities) \in Nat
    PROVE  \E g : Backward(entities, g) /\ Masked(entities) = g[1]
<1> DEFINE g == CHOOSE x : x = [i \in 1 .. Len(entities) + 1 |->
                                   IF i > Len(entities) THEN Text ELSE Replaced(x[i + 1], entities[i])]
<1>1. PICK h : Backward(entities, h)
    BY BackwardExists
<1>2. g = [i \in 1 .. Len(entities) + 1 |->
              IF i > Len(entities) THEN Text ELSE Replaced(g[i + 1], entities[i])]
    BY <1>1, Zenon DEF Backward
<1>3. Masked(entities) = g[1]
    BY DEF Masked
<1> HIDE DEF g
<1>4. Backward(entities, g)
    BY <1>2, Zenon DEF Backward
<1> QED
    BY <1>3, <1>4

\* The entities from the k-th on that are replaced, and the text in pieces: a byte, the
\* placeholder of the entity that begins with it, or nothing.
Known(entities, k) ==
    {entities[i] : i \in {j \in k .. Len(entities) : MapNERTypeToPIIType(entities[j].type) # ""}}

Covers(entities, k, x) == {e \in Known(entities, k) : e.from < x /\ x <= e.to}

PieceFor(covers, x) ==
    IF covers = {} THEN <<Text[x]>>
    ELSE LET e == CHOOSE y \in covers : TRUE
         IN  IF x = e.from + 1 THEN <<Placeholder(e)>> ELSE <<>>

PieceOf(entities, k, x) == PieceFor(Covers(entities, k, x), x)

Pieces(entities, k) == [x \in DOMAIN Text |-> PieceOf(entities, k, x)]

\* What the masked text is made of.
Bytes(entities) == Range(Text) \cup {Placeholder(entities[i]) : i \in DOMAIN entities}

LEMMA AnswerFacts ==
    ASSUME NEW entities \in Seq([type : STRING, from : Int, to : Int])
    PROVE  /\ Len(entities) \in Nat /\ DOMAIN entities = 1 .. Len(entities)
           /\ \A i \in 1 .. Len(entities) : entities[i].from \in Int /\ entities[i].to \in Int
<1>1. Len(entities) \in Nat /\ DOMAIN entities = 1 .. Len(entities)
    BY LenProperties
<1>2. ASSUME NEW i \in 1 .. Len(entities) PROVE entities[i] \in [type : STRING, from : Int, to : Int]
    BY ElementOfSeq
<1> QED
    BY <1>1, <1>2

LEMMA TextFacts ==
    ASSUME NEW entities
    PROVE  /\ Text \in Seq(Bytes(entities)) /\ Len(Text) \in Nat /\ DOMAIN Text = 1 .. Len(Text)
           /\ \A x \in 1 .. Len(Text) : Text[x] \in Bytes(entities)
<1>1. Text \in Seq(Range(Text))
    BY TextAssumption
<1>2. Len(Text) \in Nat /\ DOMAIN Text = 1 .. Len(Text) /\ \A x \in 1 .. Len(Text) : Text[x] \in Range(Text)
    BY <1>1, LenProperties, ElementOfSeq
<1>3. \A x \in 1 .. Len(Text) : Text[x] \in Bytes(entities)
    BY <1>2 DEF Bytes
<1>4. Text = [x \in 1 .. Len(Text) |-> Text[x]]
    BY <1>1, LenProperties
<1>5. Text \in Seq(Bytes(entities))
    BY <1>2, <1>3, <1>4
<1> QED
    BY <1>2, <1>3, <1>5

LEMMA PiecesType ==
    ASSUME NEW entities \in Seq([type : STRING, from : Int, to : Int]), NEW k \in Nat \ {0}
    PROVE  Pieces(entities, k) \in Seq(Seq(Bytes(entities))) /\ Len(Pieces(entities, k)) = Len(Text)
<1>1. Len(Text) \in Nat /\ DOMAIN Text = 1 .. Len(Text)
      /\ \A x \in 1 .. Len(Text) : Text[x] \in Bytes(entities)
    BY TextFacts
<1>2. Len(entities) \in Nat /\ DOMAIN entities = 1 .. Len(entities)
    BY AnswerFacts
<1>3. ASSUME NEW x \in 1 .. Len(Text) PROVE PieceOf(entities, k, x) \in Seq(Bytes(entities))
  <2>1. CASE Covers(entities, k, x) = {}
    <3>1. Text[x] \in Bytes(entities)
        BY <1>1
    <3>2. PieceOf(entities, k, x) = <<Text[x]>>
        BY <2>1 DEF PieceOf, PieceFor
    <3> QED
        BY <3>1, <3>2
  <2>2. CASE Covers(entities, k, x) # {}
    <3> DEFINE e == CHOOSE y \in Covers(entities, k, x) : TRUE
    <3>1. e \in Covers(entities, k, x)
        BY <2>2
    <3>2. PieceOf(entities, k, x) = IF x = e.from + 1 THEN <<Placeholder(e)>> ELSE <<>>
        BY <2>2 DEF PieceOf, PieceFor
    <3> HIDE DEF e
    <3>3. PICK i \in k .. Len(entities) : e = entities[i]
        BY <3>1 DEF Covers, Known
    <3>4. Placeholder(e) \in Bytes(entities)
        BY <1>2, <3>3 DEF Bytes
    <3>5. <<Placeholder(e)>> \in Seq(Bytes(entities)) /\ <<>> \in Seq(Bytes(entities))
        BY <3>4
    <3> QED
        BY <3>2, <3>5
  <2> QED
      BY <2>1, <2>2
<1>4. Pieces(entities, k) = [x \in 1 .. Len(Text) |-> PieceOf(entities, k, x)]
    BY <1>1 DEF Pieces
<1>5. [x \in 1 .. Len(Text) |-> PieceOf(entities, k, x)] \in Seq(Seq(Bytes(entities)))
    BY <1>1, <1>3
<1> QED
    BY <1>1, <1>4, <1>5

\* One entity more is replaced: nothing in front of its end was before.
LEMMA OneMore ==
    ASSUME NEW entities \in Seq([type : STRING, from : Int, to : Int]), InTextOrder(entities),
           NEW k \in 1 .. Len(entities)
    PROVE  FlattenSeq(Pieces(entities, k)) = Replaced(FlattenSeq(Pieces(entities, k + 1)), entities[k])
<1> DEFINE e == entities[k]
           n == Len(entities)
<1>1. /\ n \in Nat /\ DOMAIN entities = 1 .. n
      /\ \A i \in 1 .. n : entities[i].from \in Int /\ entities[i].to \in Int
    BY AnswerFacts
<1>2. Len(Text) \in Nat /\ DOMAIN Text = 1 .. Len(Text)
    BY TextFacts
<1>3. /\ e.from \in Int /\ e.to \in Int /\ 0 <= e.from /\ e.from < e.to /\ e.to <= Len(Text)
      /\ \A j \in k + 1 .. n : j \in 1 .. n /\ entities[j].from \in Int /\ e.to <= entities[j].from
  <2>1. e.from \in Int /\ e.to \in Int /\ 0 <= e.from /\ e.from < e.to /\ e.to <= Len(Text)
      BY <1>1 DEF InTextOrder
  <2>2. \A j \in k + 1 .. n : j \in 1 .. n /\ k < j
      BY <1>1
  <2>3. \A j \in 1 .. n : k < j => e.to <= entities[j].from
      BY <1>1 DEF InTextOrder
  <2> QED
      BY <1>1, <2>1, <2>2, <2>3
<1>4. k .. n = {k} \cup (k + 1 .. n) /\ k \in Nat \ {0} /\ k + 1 \in Nat \ {0}
    BY <1>1
<1>5. CASE MapNERTypeToPIIType(e.type) = ""
  <2>1. {j \in k .. n : MapNERTypeToPIIType(entities[j].type) # ""}
            = {j \in k + 1 .. n : MapNERTypeToPIIType(entities[j].type) # ""}
      BY <1>4, <1>5
  <2>2. Known(entities, k) = Known(entities, k + 1)
      BY <2>1, Zenon DEF Known
  <2>3. Pieces(entities, k) = Pieces(entities, k + 1)
    <3>1. \A x : PieceOf(entities, k, x) = PieceOf(entities, k + 1, x)
        BY <2>2, Zenon DEF PieceOf, Covers
    <3> QED
        BY <3>1, Zenon DEF Pieces
  <2> QED
      BY <1>5, <2>3 DEF Replaced
<1>6. CASE MapNERTypeToPIIType(e.type) # ""
  <2>1. Known(entities, k) = {e} \cup Known(entities, k + 1)
    <3>1. {j \in k .. n : MapNERTypeToPIIType(entities[j].type) # ""}
            = {k} \cup {j \in k + 1 .. n : MapNERTypeToPIIType(entities[j].type) # ""}
        BY <1>4, <1>6
    <3> DEFINE J == {j \in k + 1 .. n : MapNERTypeToPIIType(entities[j].type) # ""}
    <3>2. Known(entities, k) = {entities[i] : i \in {k} \cup J} /\ Known(entities, k + 1) = {entities[i] : i \in J}
        BY <3>1, Zenon DEF Known
    <3> HIDE DEF J
    <3> QED
        BY <3>2
  <2>2. \A y \in Known(entities, k + 1) : e.to <= y.from /\ y.from \in Int
      BY <1>3 DEF Known
  <2> HIDE DEF e
  <2>3. ASSUME NEW x \in 1 .. e.to PROVE Covers(entities, k + 1, x) = {}
      BY <1>3, <2>2 DEF Covers
  <2>4. ASSUME NEW x \in 1 .. e.to
        PROVE  Covers(entities, k, x) = IF e.from < x THEN {e} ELSE {}
    <3>1. Covers(entities, k, x) = {y \in {e} : y.from < x /\ x <= y.to} \cup Covers(entities, k + 1, x)
        BY <2>1, Zenon DEF Covers
    <3>2. x <= e.to
        OBVIOUS
    <3> QED
        BY <2>3, <3>1, <3>2
  <2>5. ASSUME NEW x \in e.to + 1 .. Len(Text) PROVE Covers(entities, k, x) = Covers(entities, k + 1, x)
    <3>1. ~ (x <= e.to)
        BY <1>3
    <3>2. Covers(entities, k, x) = {y \in {e} : y.from < x /\ x <= y.to} \cup Covers(entities, k + 1, x)
        BY <2>1, Zenon DEF Covers
    <3> QED
        BY <3>1, <3>2
  <2> DEFINE p == Pieces(entities, k + 1)
             q == Pieces(entities, k)
             B == Bytes(entities)
  <2>6. p \in Seq(Seq(B)) /\ q \in Seq(Seq(B)) /\ Len(p) = Len(Text) /\ Len(q) = Len(Text)
      BY <1>4, PiecesType
  <2>7. /\ \A x \in 1 .. Len(Text) : p[x] = PieceOf(entities, k + 1, x)
        /\ \A x \in 1 .. Len(Text) : q[x] = PieceOf(entities, k, x)
      BY <1>2 DEF Pieces
  <2>8. \A x \in 1 .. e.to : x \in 1 .. Len(Text)
      BY <1>2, <1>3
  <2> HIDE DEF p, q
  <2>9. \A x \in 1 .. e.to : p[x] = <<Text[x]>>
      BY <2>3, <2>7, <2>8 DEF PieceOf, PieceFor
  <2>10. \A x \in 1 .. e.from : q[x] = <<Text[x]>>
    <3>1. ASSUME NEW x \in 1 .. e.from PROVE x \in 1 .. e.to /\ ~ (e.from < x)
        BY <1>3
    <3>2. \A x \in 1 .. e.from : Covers(entities, k, x) = {}
        BY <2>4, <3>1
    <3> QED
        BY <2>7, <2>8, <3>1, <3>2 DEF PieceOf, PieceFor
  <2>11. ASSUME NEW x \in e.from + 1 .. e.to
         PROVE  q[x] = IF x = e.from + 1 THEN <<Placeholder(e)>> ELSE <<>>
    <3>1. x \in 1 .. e.to /\ e.from < x
        BY <1>3
    <3>2. Covers(entities, k, x) = {e}
        BY <2>4, <3>1
    <3>3. {e} # {} /\ (CHOOSE y \in {e} : TRUE) = e
        OBVIOUS
    <3>4. PieceOf(entities, k, x) = PieceFor({e}, x)
        BY <3>2, Zenon DEF PieceOf
    <3>5. PieceFor({e}, x) = IF x = e.from + 1 THEN <<Placeholder(e)>> ELSE <<>>
        BY <3>3 DEF PieceFor
    <3> QED
        BY <2>7, <2>8, <3>1, <3>4, <3>5
  <2>12. q[e.from + 1] = <<Placeholder(e)>>
    <3>1. e.from + 1 \in e.from + 1 .. e.to
        BY <1>3
    <3> QED
        BY <2>11, <3>1
  <2>13. \A x \in e.from + 2 .. e.to : q[x] = <<>>
    <3>1. \A x \in e.from + 2 .. e.to : x \in e.from + 1 .. e.to /\ x # e.from + 1
        BY <1>3, SMTT(30)
    <3> QED
        BY <2>11, <3>1
  <2>14. \A x \in e.to + 1 .. Len(Text) : q[x] = p[x]
    <3>1. ASSUME NEW x \in e.to + 1 .. Len(Text) PROVE x \in 1 .. Len(Text)
        BY <1>2, <1>3
    <3>2. ASSUME NEW x \in e.to + 1 .. Len(Text) PROVE PieceOf(entities, k, x) = PieceOf(entities, k + 1, x)
        BY <2>5, Zenon DEF PieceOf
    <3> QED
        BY <2>7, <3>1, <3>2
  <2>15. Text \in Seq(B) /\ Placeholder(e) \in B
      BY <1>1, TextFacts DEF Bytes, e
  <2>16. e.from \in 0 .. Len(Text) /\ e.to \in e.from + 1 .. Len(Text)
      BY <1>2, <1>3
  <2>17. Replaces(Text, p, q, Placeholder(e), e.from, e.to)
      BY <2>6, <2>9, <2>10, <2>12, <2>13, <2>14 DEF Replaces
  <2> HIDE DEF B
  <2>18. FlattenSeq(q) = Spliced(FlattenSeq(p), Placeholder(e), e.from, e.to)
    <3> DEFINE new == Placeholder(e)
               from == e.from
               to == e.to
    <3>1. /\ Text \in Seq(B) /\ p \in Seq(Seq(B)) /\ q \in Seq(Seq(B)) /\ new \in B
          /\ from \in 0 .. Len(Text) /\ to \in from + 1 .. Len(Text)
          /\ Replaces(Text, p, q, new, from, to)
        BY <2>6, <2>15, <2>16, <2>17
    <3> HIDE DEF new, from, to
    <3>2. FlattenSeq(q) = Spliced(FlattenSeq(p), new, from, to)
        BY <3>1, FlattenReplace
    <3> QED
        BY <3>2, Zenon DEF new, from, to
  <2>19. Replaced(FlattenSeq(p), e) = Spliced(FlattenSeq(p), Placeholder(e), e.from, e.to)
      BY <1>6, Zenon DEF Replaced, Spliced, e
  <2> QED
      BY <2>18, <2>19 DEF p, q, e
<1> QED
    BY <1>5, <1>6
\* The service may answer with anything that has offsets. When they are in the order of
\* the text and within it, replacing the entities from back to front is replacing all of
\* them at once in the text that the service has seen.
LEMMA MaskedAtOnce ==
    ASSUME NEW entities \in Seq([type : STRING, from : Int, to : Int]), InTextOrder(entities)
    PROVE  Masked(entities) = ReplacedAtOnce(entities)
<1> DEFINE n == Len(entities)
<1>1. n \in Nat /\ DOMAIN entities = 1 .. n
    BY AnswerFacts
<1>2. PICK g : Backward(entities, g) /\ Masked(entities) = g[1]
    BY <1>1, MaskedBackward
<1>3. g = [i \in 1 .. n + 1 |-> IF i > n THEN Text ELSE Replaced(g[i + 1], entities[i])]
    BY <1>2, Zenon DEF Backward
<1> HIDE DEF n
<1>4. \A i \in 1 .. n + 1 : g[i] = IF i > n THEN Text ELSE Replaced(g[i + 1], entities[i])
    BY <1>3
<1> DEFINE P == {m \in Nat : m <= n => g[n + 1 - m] = FlattenSeq(Pieces(entities, n + 1 - m))}
<1>5. 0 \in P
  <2>1. Known(entities, n + 1) = {}
    <3>1. \A j \in n + 1 .. n : FALSE
        BY <1>1
    <3> QED
        BY <3>1 DEF Known, n
  <2>2. ASSUME NEW x PROVE PieceOf(entities, n + 1, x) = <<Text[x]>>
    <3>1. Covers(entities, n + 1, x) = {}
        BY <2>1 DEF Covers
    <3> QED
        BY <3>1 DEF PieceOf, PieceFor
  <2>3. Pieces(entities, n + 1) = [x \in DOMAIN Text |-> <<Text[x]>>]
      BY <2>2, Zenon DEF Pieces
  <2>4. FlattenSeq([x \in DOMAIN Text |-> <<Text[x]>>]) = Text
    <3>1. Text \in Seq(Bytes(entities))
        BY TextFacts
    <3> QED
        BY <3>1, FlattenSingles
  <2>5. n + 1 \in 1 .. n + 1 /\ n + 1 > n /\ n + 1 - 0 = n + 1
      BY <1>1
  <2>6. g[n + 1] = Text
      BY <1>4, <2>5
  <2> QED
      BY <2>3, <2>4, <2>5, <2>6
<1>6. ASSUME NEW m \in Nat, m \in P PROVE m + 1 \in P
  <2>1. SUFFICES ASSUME m + 1 <= n
                 PROVE  g[n + 1 - (m + 1)] = FlattenSeq(Pieces(entities, n + 1 - (m + 1)))
      OBVIOUS
  <2>2. g[n + 1 - m] = FlattenSeq(Pieces(entities, n + 1 - m))
      BY <1>1, <1>6, <2>1
  <2> DEFINE k == n - m
  <2>3. k \in 1 .. n /\ n + 1 - m = k + 1 /\ n + 1 - (m + 1) = k /\ ~ (k > n) /\ k \in 1 .. n + 1
      BY <1>1, <2>1
  <2> HIDE DEF k
  <2>4. g[k] = Replaced(g[k + 1], entities[k])
      BY <1>4, <2>3
  <2>5. FlattenSeq(Pieces(entities, k)) = Replaced(FlattenSeq(Pieces(entities, k + 1)), entities[k])
      BY <2>3, OneMore DEF n
  <2> QED
      BY <2>2, <2>3, <2>4, <2>5
<1>7. n \in P
  <2> HIDE DEF P
  <2> QED
      BY <1>1, <1>5, <1>6, AllNumbers
<1>8. g[1] = FlattenSeq(Pieces(entities, 1))
  <2>1. n + 1 - n = 1 /\ n <= n
      BY <1>1
  <2> QED
      BY <1>7, <2>1
<1>9. ReplacedAtOnce(entities) = FlattenSeq(Pieces(entities, 1))
  <2>1. Known(entities, 1) = {entities[j] : j \in {i \in DOMAIN entities : MapNERTypeToPIIType(entities[i].type) # ""}}
      BY <1>1, Zenon DEF Known, n
  <2> DEFINE masked == {entities[j] : j \in {i \in DOMAIN entities : MapNERTypeToPIIType(entities[i].type) # ""}}
             At(i) == {e \in masked : e.from < i /\ i <= e.to}
             Piece(i) == IF At(i) = {} THEN <<Text[i]>>
                         ELSE LET e == CHOOSE x \in At(i) : TRUE
                              IN  IF i = e.from + 1 THEN <<Placeholder(e)>> ELSE <<>>
  <2>2. ReplacedAtOnce(entities) = FlattenSeq([i \in DOMAIN Text |-> Piece(i)])
      BY Zenon DEF ReplacedAtOnce
  <2>3. ASSUME NEW x PROVE Piece(x) = PieceOf(entities, 1, x)
    <3>1. At(x) = Covers(entities, 1, x)
        BY <2>1, Zenon DEF Covers
    <3> HIDE DEF masked, At
    <3>2. Piece(x) = PieceFor(At(x), x)
        BY DEF PieceFor
    <3> HIDE DEF Piece
    <3> QED
        BY <3>1, <3>2, Zenon DEF PieceOf
  <2> HIDE DEF Piece
  <2>4. [i \in DOMAIN Text |-> Piece(i)] = Pieces(entities, 1)
      BY <2>3, Zenon DEF Pieces
  <2> QED
      BY <2>2, <2>4, Zenon
<1> QED
    BY <1>2, <1>8, <1>9

\* Every entity of a known type is replaced by its placeholder, and nothing else is
\* changed, for any text and any answer that names the entities in the text's order.
THEOREM EntitiesMasked == NERSpec => []MasksEveryEntity
<1>1. NERTypeOK => MasksEveryEntity
  <2>1. SUFFICES ASSUME NERTypeOK, NEW c \in Callers, InTextOrder(caller[c].found)
                 PROVE  Masked(caller[c].found) = ReplacedAtOnce(caller[c].found)
      BY DEF MasksEveryEntity
  <2>2. caller[c].found \in Answers \cup {<<>>}
      BY <2>1 DEF NERTypeOK
  <2>3. caller[c].found \in Seq([type : STRING, from : Int, to : Int])
    <3>1. <<>> \in Seq([type : STRING, from : Int, to : Int])
        OBVIOUS
    <3> QED
        BY <2>2, <3>1, TextAssumption
  <2> QED
      BY <2>1, <2>3, MaskedAtOnce
<1> QED
    BY <1>1, NERTypeCorrect, PTL
=============================================================================
