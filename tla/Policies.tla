------------------------------ MODULE Policies ------------------------------
(***************************************************************************)
(* The other resilience policies, composed with Wrap as                    *)
(*     Retry(Timeout(Bulkhead(RateLimiter(fn)))).                          *)
(* Timeout runs what it wraps in a goroutine that outlives the call when   *)
(* the deadline passes, so one call may have several attempts in progress. *)
(* fn returns on its own or not at all, but does when its context is       *)
(* cancelled.                                                              *)
(***************************************************************************)
EXTENDS Integers, FiniteSets

CONSTANTS
    Calls,
    MaxAttempts,        \* RetryConfig.MaxAttempts
    MaxConcurrent, MaxQueue,    \* BulkheadConfig
    Burst,              \* RateLimiterConfig.Burst
    Cancellable         \* calls whose caller may give up

VARIABLES
    call,       \* call[c]: Retry.Execute: [pc, attempt]; pc "idle", "try", "backoff" or "returned"
    job,        \* job[c][a]: attempt a of c inside Timeout: [pc, ticket, cancelled, out]
    tokens,     \* RateLimiter.tokens
    gone        \* calls whose own context is cancelled

polVars == <<call, job, tokens, gone>>

Attempts == 1 .. MaxAttempts
\* NewRateLimiter: the bucket starts full, and refill never fills it beyond.
fullBucket == Burst
NoJob == [pc |-> "none", ticket |-> FALSE, cancelled |-> FALSE, out |-> "none"]

Init ==
    /\ call = [c \in Calls |-> [pc |-> "idle", attempt |-> 0]]
    /\ job = [c \in Calls |-> [a \in Attempts |-> NoJob]]
    /\ tokens = fullBucket /\ gone = {}

-----------------------------------------------------------------------------
Jobs == Calls \X Attempts
Pc(j) == job[j[1]][j[2]].pc
Cancelled(j) == job[j[1]][j[2]].cancelled \/ j[1] \in gone

\* Who holds a running slot, and who holds a queue ticket: the ticket is given back
\* by a defer, after fn.
holdsSlot(j) == Pc(j) \in {"limit", "run"}
holdsTicket(j) == job[j[1]][j[2]].ticket /\ Pc(j) # "done"
slots == Cardinality({j \in Jobs : holdsSlot(j)})
queue == Cardinality({j \in Jobs : holdsTicket(j)})

Put(j, f) == job' = [job EXCEPT ![j[1]][j[2]] = f]
Done(j, v) == Put(j, [job[j[1]][j[2]] EXCEPT !.pc = "done", !.out = v])

\* Bulkhead.Execute: a free slot, else a ticket, else rejected.
bulkheadFast(j) ==
    /\ Pc(j) = "enter" /\ slots < MaxConcurrent
    /\ Put(j, [job[j[1]][j[2]] EXCEPT !.pc = "limit"])
    /\ UNCHANGED <<call, tokens, gone>>

bulkheadQueue(j) ==
    /\ Pc(j) = "enter" /\ slots >= MaxConcurrent
    /\ IF queue < MaxQueue THEN Put(j, [job[j[1]][j[2]] EXCEPT !.pc = "queued", !.ticket = TRUE])
                           ELSE Done(j, "err")
    /\ UNCHANGED <<call, tokens, gone>>

bulkheadWaited(j) ==
    /\ Pc(j) = "queued"
    /\ \/ slots < MaxConcurrent /\ Put(j, [job[j[1]][j[2]] EXCEPT !.pc = "limit"])
       \/ Cancelled(j) /\ Done(j, "err")
    /\ UNCHANGED <<call, tokens, gone>>

\* RateLimiter.Execute: the context first, then reserve; it polls until a token is there.
reserve_deaf(j) ==
    /\ Pc(j) = "limit" /\ tokens >= 1
    /\ tokens' = tokens - 1
    /\ Put(j, [job[j[1]][j[2]] EXCEPT !.pc = "run"])
    /\ UNCHANGED <<call, gone>>
reserve(j) ==
    /\ Pc(j) = "limit"
    /\ \/ Cancelled(j) /\ Done(j, "err") /\ UNCHANGED tokens
       \/ /\ ~Cancelled(j) /\ tokens >= 1
          /\ tokens' = tokens - 1
          /\ Put(j, [job[j[1]][j[2]] EXCEPT !.pc = "run"])
    /\ UNCHANGED <<call, gone>>

refill ==
    /\ tokens < fullBucket
    /\ tokens' = tokens + 1
    /\ UNCHANGED <<call, job, gone>>

fnReturns(j) ==
    /\ Pc(j) = "run"
    /\ \E v \in {"ok", "err"} : Done(j, v)
    /\ UNCHANGED <<call, tokens, gone>>

-----------------------------------------------------------------------------
\* Retry.Execute: the next attempt starts, unless the context is gone.
attempt(c) ==
    /\ call[c].pc \in {"idle", "backoff"}
    /\ IF c \in gone
       THEN call' = [call EXCEPT ![c].pc = "returned"] /\ UNCHANGED job
       ELSE /\ call' = [call EXCEPT ![c] = [pc |-> "try", attempt |-> @.attempt + 1]]
            /\ job' = [job EXCEPT ![c][call[c].attempt + 1] = [NoJob EXCEPT !.pc = "enter"]]
    /\ UNCHANGED <<tokens, gone>>

\* An attempt ended with v: return it, or back off for another one.
hasAttempts(c) == call[c].attempt < MaxAttempts
retryOrReturn(c, v) ==
    call' = [call EXCEPT ![c].pc = IF v = "ok" \/ ~hasAttempts(c) THEN "returned" ELSE "backoff"]

\* Timeout.Execute: the result, or the deadline (or the caller's cancellation), which
\* cancels the attempt's context and leaves its goroutine behind.
attemptDone(c) ==
    /\ call[c].pc = "try" /\ Pc(<<c, call[c].attempt>>) = "done"
    /\ retryOrReturn(c, job[c][call[c].attempt].out)
    /\ UNCHANGED <<job, tokens, gone>>

abandon_running(c) == UNCHANGED job
abandon(c) == job' = [job EXCEPT ![c][call[c].attempt].cancelled = TRUE]
deadline(c) ==
    /\ call[c].pc = "try"
    /\ abandon(c)
    /\ retryOrReturn(c, "err")
    /\ UNCHANGED <<tokens, gone>>

\* The caller's own context is cancelled.
cancelCall(c) ==
    /\ c \in Cancellable \ gone /\ call[c].pc \in {"try", "backoff"}
    /\ gone' = gone \cup {c}
    /\ UNCHANGED <<call, job, tokens>>

JobStep(j) == bulkheadFast(j) \/ bulkheadQueue(j) \/ bulkheadWaited(j) \/ reserve(j)
CallStep(c) == attempt(c) \/ attemptDone(c) \/ deadline(c)

Next ==
    \/ \E j \in Jobs : JobStep(j) \/ fnReturns(j)
    \/ \E c \in Calls : CallStep(c) \/ cancelCall(c)
    \/ refill

\* Goroutines run, timers fire, and fn returns once its context is cancelled.
Fair ==
    /\ \A c \in Calls : WF_polVars(CallStep(c))
    /\ \A j \in Jobs : WF_polVars(JobStep(j)) /\ WF_polVars(Cancelled(j) /\ fnReturns(j))

-----------------------------------------------------------------------------
\* At most MaxConcurrent executions of fn are in progress, counting those whose
\* call has timed out, been retried or returned.
FnBounded == Cardinality({j \in Jobs : Pc(j) \in {"limit", "run"}}) <= MaxConcurrent

\* A call that retries after a timeout never has two attempts with a live context.
OneLiveAttempt ==
    \A c \in Calls : Cardinality({a \in Attempts : Pc(<<c, a>>) \notin {"none", "done"} /\ ~Cancelled(<<c, a>>)}) <= 1

\* What the chain promises in every state while calls time out and retry.
PoliciesSafe == FnBounded /\ OneLiveAttempt

\* When every call has returned, every slot and every ticket comes back, though
\* attempts were abandoned while running, waiting for a token or queued.
SlotsComeBack == (\A c \in Calls : call[c].pc = "returned") ~> (slots = 0 /\ queue = 0)
=============================================================================
