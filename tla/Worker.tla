------------------------------- MODULE Worker -------------------------------
(***************************************************************************)
(* What queue.Worker decides about a job (queue/queue.go, Worker.handle):  *)
(* drop it after MaxRetry attempts, or hand it back with an exponential    *)
(* delay.  The queue drivers' modules share these decisions.               *)
(***************************************************************************)
EXTENDS Integers

CONSTANTS
    MaxRetry,   \* Worker.maxRetry: attempts a failing job gets, the first included
    Backoff     \* Worker.backoff, in ticks of the models' clocks

ASSUME MaxRetryAssumption == MaxRetry \in Nat \ {0}
ASSUME BackoffAssumption == Backoff \in Nat

\* The clamp that keeps the shift from overflowing a time.Duration.
MaxShift == 16

\* 2^attempts, clamped at both ends.
backoffMultiplier(attempts) ==
    LET shift == IF attempts < 0 THEN 0
                 ELSE IF attempts > MaxShift THEN MaxShift ELSE attempts
    IN  2 ^ shift

\* A failed run of a job that was delivered with this many attempts is its last.
Exhausted_late(attempts) == attempts >= MaxRetry
Exhausted(attempts) == attempts + 1 >= MaxRetry

\* The delay handle passes to Nack.
RetryDelay(attempts) == Backoff * backoffMultiplier(attempts)
=============================================================================
