------------------------------ MODULE SqlQueue ------------------------------
(***************************************************************************)
(* The database queue and the workers on it (queue/sqlqueue/sqlqueue.go,   *)
(* queue/queue.go).  Every SQL statement is one atomic step and the claim  *)
(* is a transaction of two: the SELECT locks a row, the COMMIT reserves    *)
(* it.  Workers may crash, lose a COMMIT, have an Ack or a Nack fail (the  *)
(* worker ignores those errors), outlive the visibility timeout, or be     *)
(* cancelled.  Time is relative: due[j] is the time left until             *)
(* available_at, age[j] the time since reserved_at.                        *)
(***************************************************************************)
EXTENDS Worker, FiniteSets

CONSTANTS
    Jobs,       \* values of job_id
    Workers,    \* Worker.Run loops, in any number of processes
    Unhandled,  \* jobs whose Name no handler is registered for
    Serial,     \* TRUE on SQLite: BEGIN IMMEDIATE admits one writer at a time
    VisTout,    \* Queue.visTout in ticks
    HandlerMax, \* longest time from a claim to the worker's Ack or Nack
    MaxDelay,   \* bound: the longest delay a producer asks for
    MaxFaults,  \* bound: crashes and failed statements
    MaxCancels, \* bound: cancelled Run contexts
    LateCap,    \* bound: how far past available_at ORDER BY still tells jobs apart
    None        \* no job

ASSUME JobsAssumption == Unhandled \subseteq Jobs /\ None \notin Jobs
ASSUME TimesAssumption == VisTout \in Nat /\ HandlerMax \in Nat /\ LateCap \in Nat
ASSUME BoundsAssumption == MaxFaults \in Nat /\ MaxCancels \in Nat /\ MaxDelay \in Nat

VARIABLES
    rows,           \* job_ids in the table, and their columns:
    attempts, due, age,
    pc, job, tries, \* each worker's position, job and the attempts it was told
    held,           \* time since the now of the worker's claim
    ctxDone,        \* workers whose Run context is cancelled
    faults, cancels,
    pushed,         \* history: jobs pushed
    concluded,      \* history: jobs some delivery of which was concluded
    starts,         \* history: handler runs of each job
    last            \* history: attempts of the job's latest delivery, -1 before

tvars == <<rows, attempts, due, age>>
wvars == <<pc, job, tries, held>>
fvars == <<ctxDone, faults, cancels>>
hvars == <<pushed, concluded, starts, last>>
vars == <<tvars, wvars, fvars, hvars>>

-----------------------------------------------------------------------------
\* age of a row whose reserved_at is NULL.
NotReserved == -1

\* Ages beyond the timeout are all alike.
AgeCap == VisTout + 1

PC == {"down", "idle", "reserve", "commit", "run", "ack", "nack"}

\* The worker has been given a job and has neither acked nor nacked it.
Holding == {"run", "ack", "nack"}

Holds(w, j) == pc[w] \in Holding /\ job[w] = j

\* An open claim transaction of w; it has row job[w] locked.
InTx(w) == pc[w] = "commit"

\* A statement on row j need not wait for a claim transaction.
Unlocked(j) == \A w \in Workers : InTx(w) => ~Serial /\ job[w] # j

\* A statement on no locked row need not wait, except on SQLite.
CanWrite == \A w \in Workers : InTx(w) => ~Serial

Init ==
    /\ rows = {}
    /\ attempts = [j \in Jobs |-> 0]
    /\ due = [j \in Jobs |-> 0]
    /\ age = [j \in Jobs |-> NotReserved]
    /\ pc = [w \in Workers |-> "idle"]
    /\ job = [w \in Workers |-> None]
    /\ tries = [w \in Workers |-> 0]
    /\ held = [w \in Workers |-> 0]
    /\ ctxDone = {}
    /\ faults = 0
    /\ cancels = 0
    /\ pushed = {}
    /\ concluded = {}
    /\ starts = [j \in Jobs |-> 0]
    /\ last = [j \in Jobs |-> -1]

-----------------------------------------------------------------------------
\* INSERT of a new row.
Push(j, delay) ==
    /\ j \notin pushed
    /\ CanWrite
    /\ rows' = rows \cup {j}
    /\ due' = [due EXCEPT ![j] = delay]
    /\ pushed' = pushed \cup {j}
    /\ UNCHANGED <<attempts, age, wvars, fvars, concluded, starts, last>>

\* reserved_at IS NOT NULL AND reserved_at < now - visTout
Orphan_never(j) == j \in rows /\ age[j] > AgeCap
Orphan(j) == j \in rows /\ age[j] > VisTout

\* attempts of an orphan that is recovered.
recoveredAttempts_kept(j) == attempts[j]
recoveredAttempts(j) == attempts[j] + 1

\* tryReserve begins by freeing every expired reservation ...
recoverOrphans(w) ==
    /\ pc[w] = "idle" /\ w \notin ctxDone
    /\ CanWrite
    /\ age' = [j \in Jobs |-> IF Orphan(j) THEN NotReserved ELSE age[j]]
    /\ attempts' = [j \in Jobs |-> IF Orphan(j) THEN recoveredAttempts(j) ELSE attempts[j]]
    /\ pc' = [pc EXCEPT ![w] = "reserve"]
    /\ UNCHANGED <<rows, due, job, tries, held, fvars, hvars>>

\* ... and ignores the error when that fails.
recoverOrphansFails(w) ==
    /\ pc[w] = "idle" /\ w \notin ctxDone
    /\ faults < MaxFaults
    /\ faults' = faults + 1
    /\ pc' = [pc EXCEPT ![w] = "reserve"]
    /\ UNCHANGED <<tvars, job, tries, held, ctxDone, cancels, hvars>>

\* WHERE reserved_at IS NULL AND available_at <= now, minus the rows that
\* SKIP LOCKED passes over.
Eligible_reserved(j) == j \in rows /\ due[j] <= 0 /\ Unlocked(j)
Eligible(j) == j \in rows /\ age[j] = NotReserved /\ due[j] <= 0 /\ Unlocked(j)

\* claim: SELECT ... ORDER BY available_at LIMIT 1 [FOR UPDATE SKIP LOCKED].
claim(w, j) ==
    /\ pc[w] = "reserve" /\ w \notin ctxDone
    /\ CanWrite
    /\ Eligible(j)
    /\ \A k \in Jobs : Eligible(k) => due[j] <= due[k]
    /\ pc' = [pc EXCEPT ![w] = "commit"]
    /\ job' = [job EXCEPT ![w] = j]
    /\ tries' = [tries EXCEPT ![w] = attempts[j]]
    /\ held' = [held EXCEPT ![w] = 0]
    /\ UNCHANGED <<tvars, fvars, hvars>>

\* claim finds no row: ErrEmpty, Pop sleeps and tries again, or Run calls it again.
claimEmpty(w) ==
    /\ pc[w] = "reserve" /\ w \notin ctxDone
    /\ CanWrite
    /\ \A j \in Jobs : ~Eligible(j)
    /\ pc' = [pc EXCEPT ![w] = "idle"]
    /\ UNCHANGED <<tvars, job, tries, held, fvars, hvars>>

\* The UPDATE of reserved_at takes effect.
reserve(w) == age' = [age EXCEPT ![job[w]] = held[w]]

\* The claim commits and Pop hands the job to handle, which runs it or, for a
\* job without a handler, goes straight on to Ack.
reserveOnce(w) ==
    /\ InTx(w) /\ w \notin ctxDone
    /\ reserve(w)
    /\ last' = [last EXCEPT ![job[w]] = tries[w]]
    /\ IF job[w] \in Unhandled
       THEN /\ pc' = [pc EXCEPT ![w] = "ack"]
            /\ concluded' = concluded \cup {job[w]}
            /\ UNCHANGED starts
       ELSE /\ pc' = [pc EXCEPT ![w] = "run"]
            /\ starts' = [starts EXCEPT ![job[w]] = @ + 1]
            /\ UNCHANGED concluded
    /\ UNCHANGED <<rows, attempts, due, job, tries, held, fvars, pushed>>

\* The claim fails and is rolled back, or its COMMIT takes effect although the
\* worker sees an error: Run logs the error and polls again.
reserveFails(w) ==
    /\ InTx(w)
    /\ faults < MaxFaults
    /\ faults' = faults + 1
    /\ reserve(w) \/ UNCHANGED age
    /\ pc' = [pc EXCEPT ![w] = "idle"]
    /\ job' = [job EXCEPT ![w] = None]
    /\ UNCHANGED <<rows, attempts, due, tries, held, ctxDone, cancels, hvars>>

\* The handler returned nil.
handleSucceeds(w) ==
    /\ pc[w] = "run"
    /\ pc' = [pc EXCEPT ![w] = "ack"]
    /\ concluded' = concluded \cup {job[w]}
    /\ UNCHANGED <<tvars, job, tries, held, fvars, pushed, starts, last>>

\* The handler failed: the last attempt is dropped, another one handed back.
handleFails(w) ==
    /\ pc[w] = "run"
    /\ IF Exhausted(tries[w])
       THEN /\ pc' = [pc EXCEPT ![w] = "ack"]
            /\ concluded' = concluded \cup {job[w]}
       ELSE /\ pc' = [pc EXCEPT ![w] = "nack"]
            /\ UNCHANGED concluded
    /\ UNCHANGED <<tvars, job, tries, held, fvars, pushed, starts, last>>

\* The worker is done with its job and goes on polling.
Release(w) ==
    /\ pc' = [pc EXCEPT ![w] = "idle"]
    /\ job' = [job EXCEPT ![w] = None]
    /\ UNCHANGED <<tries, held>>

\* DELETE ... WHERE job_id = ?, whoever holds the row now.
Ack(w) ==
    /\ pc[w] = "ack" /\ w \notin ctxDone
    /\ Unlocked(job[w])
    /\ rows' = rows \ {job[w]}
    /\ Release(w)
    /\ UNCHANGED <<attempts, due, age, fvars, hvars>>

\* attempts of a row that is nacked.
nackedAttempts_told(w) == tries[w] + 1
nackedAttempts(w) == attempts[job[w]] + 1

\* UPDATE ... WHERE job_id = ?: of no effect once the row is gone.
Nack_deletes(w) ==
    /\ pc[w] = "nack"
    /\ rows' = rows \ {job[w]}
    /\ Release(w)
    /\ UNCHANGED <<attempts, due, age, fvars, hvars>>
Nack(w) ==
    /\ pc[w] = "nack" /\ w \notin ctxDone
    /\ Unlocked(job[w])
    /\ IF job[w] \in rows
       THEN /\ age' = [age EXCEPT ![job[w]] = NotReserved]
            /\ attempts' = [attempts EXCEPT ![job[w]] = nackedAttempts(w)]
            /\ due' = [due EXCEPT ![job[w]] = RetryDelay(tries[w])]
       ELSE UNCHANGED <<age, attempts, due>>
    /\ Release(w)
    /\ UNCHANGED <<rows, fvars, hvars>>

\* The statement fails and handle ignores it ("_ ="): at random, or because it
\* runs under a Run context that has been cancelled.
SettleFails(w) ==
    /\ pc[w] \in {"ack", "nack"}
    /\ IF w \in ctxDone
       THEN UNCHANGED faults
       ELSE faults < MaxFaults /\ faults' = faults + 1
    /\ Release(w)
    /\ UNCHANGED <<tvars, ctxDone, cancels, hvars>>

\* The process dies; the server rolls its open transaction back.
Crash(w) ==
    /\ pc[w] # "down"
    /\ faults < MaxFaults
    /\ faults' = faults + 1
    /\ pc' = [pc EXCEPT ![w] = "down"]
    /\ job' = [job EXCEPT ![w] = None]
    /\ UNCHANGED <<tvars, tries, held, ctxDone, cancels, hvars>>

\* The Run context is cancelled, by a shutdown signal for instance.
Cancel(w) ==
    /\ pc[w] # "down" /\ w \notin ctxDone
    /\ cancels < MaxCancels
    /\ cancels' = cancels + 1
    /\ ctxDone' = ctxDone \cup {w}
    /\ UNCHANGED <<tvars, wvars, faults, hvars>>

\* A statement of Pop fails on the cancelled context, an open claim is rolled
\* back, and Pop returns ctx.Err().
PopCancelled(w) ==
    /\ pc[w] \in {"reserve", "commit"} /\ w \in ctxDone
    /\ Release(w)
    /\ UNCHANGED <<tvars, fvars, hvars>>

\* Run sees the cancelled context at the top of its loop and returns.
RunExit(w) ==
    /\ pc[w] = "idle" /\ w \in ctxDone
    /\ pc' = [pc EXCEPT ![w] = "down"]
    /\ UNCHANGED <<tvars, job, tries, held, fvars, hvars>>

\* The process, and Run with a fresh context, start again.
RunStart(w) ==
    /\ pc[w] = "down"
    /\ pc' = [pc EXCEPT ![w] = "idle"]
    /\ ctxDone' = ctxDone \ {w}
    /\ UNCHANGED <<tvars, job, tries, held, faults, cancels, hvars>>

\* One unit of time passes; nobody keeps a claimed job longer than HandlerMax.
Tick ==
    /\ \A w \in Workers : InTx(w) \/ pc[w] \in Holding => held[w] < HandlerMax
    /\ due' = [j \in Jobs |-> IF due[j] > -LateCap /\ j \in rows THEN due[j] - 1 ELSE due[j]]
    /\ age' = [j \in Jobs |-> IF age[j] # NotReserved /\ age[j] < AgeCap /\ j \in rows
                              THEN age[j] + 1 ELSE age[j]]
    /\ held' = [w \in Workers |-> IF (InTx(w) \/ pc[w] \in Holding) /\ held[w] < AgeCap
                                  THEN held[w] + 1 ELSE held[w]]
    /\ UNCHANGED <<rows, attempts, pc, job, tries, fvars, hvars>>

Work(w) ==
    \/ recoverOrphans(w) \/ (\E j \in Jobs : claim(w, j)) \/ claimEmpty(w)
    \/ reserveOnce(w)
    \/ handleSucceeds(w) \/ handleFails(w)
    \/ Ack(w) \/ Nack(w)
    \/ (w \in ctxDone /\ SettleFails(w))
    \/ PopCancelled(w) \/ RunExit(w) \/ RunStart(w)

Fault(w) ==
    recoverOrphansFails(w) \/ reserveFails(w) \/ SettleFails(w) \/ Crash(w) \/ Cancel(w)

Next ==
    \/ \E j \in Jobs, delay \in 0..MaxDelay : Push(j, delay)
    \/ \E w \in Workers : Work(w) \/ Fault(w)
    \/ Tick

\* Processes that can run do run and are restarted when they died, handlers
\* return, statements without a fault complete, and time passes.
Fairness ==
    /\ \A w \in Workers : WF_vars(Work(w))
    /\ WF_vars(Tick)

Spec == Init /\ [][Next]_vars /\ Fairness
-----------------------------------------------------------------------------
\* Every variable holds a value of its type; a worker that has or is claiming a
\* job has a pushed one, and the others none.
TypeOK ==
    /\ rows \subseteq pushed /\ pushed \subseteq Jobs
    /\ attempts \in [Jobs -> Nat]
    /\ due \in [Jobs -> Int]
    /\ age \in [Jobs -> NotReserved..AgeCap]
    /\ pc \in [Workers -> PC]
    /\ job \in [Workers -> Jobs \cup {None}]
    /\ tries \in [Workers -> Nat]
    /\ held \in [Workers -> 0..AgeCap]
    /\ ctxDone \subseteq Workers
    /\ faults \in 0..MaxFaults /\ cancels \in 0..MaxCancels
    /\ concluded \subseteq pushed
    /\ starts \in [Jobs -> Nat]
    /\ last \in [Jobs -> Nat \cup {-1}]
    /\ \A w \in Workers :
          IF InTx(w) \/ pc[w] \in Holding THEN job[w] \in pushed ELSE job[w] = None

\* Attempts identify a delivery: even when a slow worker, a crash or a failed
\* Ack makes the queue deliver a job again, no two workers are ever given it
\* with the same attempts, so the retry count and the backoff each of them
\* derives from it are its own.
DistinctDeliveries ==
    \A v, w \in Workers : \A j \in Jobs :
        v # w /\ Holds(v, j) /\ Holds(w, j) => tries[v] # tries[w]

\* What claim, Ack, Nack and recoverOrphans keep of the table and the workers.
Deliveries == TypeOK /\ DistinctDeliveries

\* The same across time: every delivery to a handler carries more attempts than
\* the one before it, so no redelivery goes uncounted.
AttemptsGrow == [][\A j \in Jobs : starts'[j] # starts[j] => last'[j] > last[j]]_vars

\* Reservation is exclusive as long as handlers finish within the visibility
\* timeout: no two workers handle a job at the same time.
Exclusive ==
    \A v, w \in Workers : \A j \in Jobs : Holds(v, j) /\ Holds(w, j) => v = w

\* A job runs at most MaxRetry times, plus once for each crash, failed
\* statement and cancelled context.
RetryBudget == \A j \in Jobs : starts[j] <= MaxRetry + faults + cancels

C == INSTANCE QueueContract WITH live <- rows

\* At-least-once through every crash and failed statement: a row leaves the
\* table only after a delivery of it was concluded.
AtLeastOnce == C!Spec

\* Every pushed job leaves the table in the end: orphans are recovered.
EventuallySettled == C!Settles

-----------------------------------------------------------------------------
(* Claims of the repository that the code does not keep.                   *)

\* "concurrent workers cannot pick it up": a job is not delivered to a second
\* worker while a first one is still inside its visibility timeout.
ReservationHolds ==
    \A v, w \in Workers : \A j \in Jobs :
        Holds(v, j) /\ Holds(w, j) /\ held[v] <= VisTout /\ held[w] <= VisTout => v = w
=============================================================================
