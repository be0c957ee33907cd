--------------------------- MODULE CircuitBreaker ---------------------------
(***************************************************************************)
(* What the circuit breakers of src/internal/pii promise: requests to a    *)
(* service that has failed Threshold times in a row are held back until a  *)
(* probe may go out; a probe that fails holds them back again at once, and *)
(* any success makes the breaker forget the failures.                      *)
(***************************************************************************)
EXTENDS Integers

CONSTANT Threshold  \* a positive number

VARIABLES
    state,   \* "closed", "open", or "half" when a probe may go out
    streak   \* the failures since the last success, counted up to Threshold

breakerVars == <<state, streak>>

BreakerInit == state = "closed" /\ streak = 0

\* A failure below the threshold is only counted; the one that reaches it opens the
\* breaker, and so does every failure from then on.
CountFailure ==
    /\ streak + 1 < Threshold
    /\ streak' = streak + 1
    /\ UNCHANGED state

Trip ==
    /\ streak + 1 >= Threshold
    /\ streak' = Threshold
    /\ state' = "open"

Recover == state' = "closed" /\ streak' = 0

Probe == state = "open" /\ state' = "half" /\ UNCHANGED streak

\* A breaker may also forget the failures when it lets the probe out.
Forget == state = "open" /\ state' = "closed" /\ streak' = 0

BreakerNext == CountFailure \/ Trip \/ Recover \/ Probe \/ Forget

BreakerSpec == BreakerInit /\ [][BreakerNext]_breakerVars

----------------------------------------------------------------------------
\* The breaker holds requests back, or tests the service with a probe, after
\* Threshold failures in a row and at no other time.
OpenAfterThreshold == state = "closed" <=> streak < Threshold
=============================================================================
