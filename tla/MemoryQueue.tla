----------------------------- MODULE MemoryQueue ----------------------------
(***************************************************************************)
(* queue.MemoryQueue and the workers that drain it (queue/queue.go).       *)
(* Steps are the code's critical sections: Pop promotes the delayed jobs   *)
(* in one section and takes the head of the ready list in another, Nack    *)
(* takes the job out of the in-flight map in one and puts it back in       *)
(* another, so a job is in nobody's list in between.  Time is relative: a  *)
(* job carries the ticks left until its AvailableAt, and Tick counts them  *)
(* down.                                                                   *)
(***************************************************************************)
EXTENDS Worker, Sequences, FiniteSets, Functions

CONSTANTS
    Jobs,       \* job IDs; Dispatch gives every push an ID of its own
    Workers,    \* goroutines inside Worker.Run on this queue
    Unhandled,  \* jobs whose Name no handler is registered for
    MaxDelay,   \* bound: the longest delay a producer asks for
    MaxExits,   \* bound: how often Run returns and is started again
    RestCap,    \* bound: the longest wait that the history variables tell apart
    None        \* no job

ASSUME JobsAssumption == Unhandled \subseteq Jobs /\ None \notin Jobs
ASSUME BoundsAssumption ==
    /\ MaxDelay \in Nat /\ MaxExits \in Nat /\ RestCap \in Nat
    /\ MaxDelay <= RestCap /\ \A a \in 0..(MaxRetry - 2) : RetryDelay(a) <= RestCap

VARIABLES
    ready, delayed,     \* the two job lists
    in,                 \* jobs between Pop and Ack/Nack, keyed by ID
    signal,             \* a token is in the wake-up channel (capacity 1)
    pc, hold,           \* where each worker is, and the job it works on
    exits,              \* how often a worker's Run has returned
    order,              \* history: the jobs pushed, in the order of their pushes
    asked,              \* history: the delay the producer asked for
    concluded,          \* history: jobs whose handling has been concluded
    starts,             \* history: handler runs of each job
    failedCalls,        \* history: onFailed calls for each job
    rest                \* history: ticks since the job was pushed or last failed

qvars == <<ready, delayed, in, signal>>
wvars == <<pc, hold, exits>>
hvars == <<order, asked, concluded, starts, failedCalls, rest>>
vars == <<qvars, wvars, hvars>>

-----------------------------------------------------------------------------
\* A Job as the queue keeps it; due is the time left until AvailableAt.
Entry == [id : Jobs, attempts : Nat, due : Nat]

pushed == Range(order)

\* Where a worker can be inside Run, Pop, handle and Nack.
PC == {"exited", "pop", "take", "wait", "run", "ack", "nack", "requeue"}

\* Jobs a worker has popped and neither acked nor started to nack.
Handling == {"run", "ack", "nack"}

\* Operations on the in-flight map: delete(q.in, id) and q.in[e.id] = e.
Without_kept(f, id) == f
Without(f, id) == [x \in DOMAIN f \ {id} |-> f[x]]
With(f, e) == [x \in DOMAIN f \cup {e.id} |-> IF x = e.id THEN e ELSE f[x]]

Init ==
    /\ ready = <<>>
    /\ delayed = <<>>
    /\ in = <<>>
    /\ signal = FALSE
    /\ pc = [w \in Workers |-> "pop"]
    /\ hold = [w \in Workers |-> None]
    /\ exits = 0
    /\ order = <<>>
    /\ asked = [j \in Jobs |-> 0]
    /\ concluded = {}
    /\ starts = [j \in Jobs |-> 0]
    /\ failedCalls = [j \in Jobs |-> 0]
    /\ rest = [j \in Jobs |-> 0]

-----------------------------------------------------------------------------
\* promoteDelayed's test on AvailableAt, and what it keeps.
isDue_inverted(e) == e.due > 0
isDue(e) == e.due = 0
isKept_none(e) == FALSE
isKept(e) == ~isDue(e)

\* promoteDelayed's loop after i delayed jobs: the ready list and the kept jobs.
promoted[i \in 0..Len(delayed)] ==
    IF i = 0 THEN [ready |-> ready, kept |-> <<>>]
    ELSE LET e == delayed[i]
             done == promoted[i - 1]
         IN  [ready |-> IF isDue(e) THEN Append(done.ready, e) ELSE done.ready,
              kept |-> IF isKept(e) THEN Append(done.kept, e) ELSE done.kept]

\* Put e behind the jobs of the list its delay selects, and wake a popper.
enqueue(e) ==
    /\ IF e.due > 0
       THEN delayed' = Append(delayed, e) /\ UNCHANGED ready
       ELSE ready' = Append(ready, e) /\ UNCHANGED delayed
    /\ signal' = TRUE

\* Dispatch (delay 0) and DispatchAfter.
Push(j, delay) ==
    /\ j \notin pushed
    /\ enqueue([id |-> j, attempts |-> 0, due |-> delay])
    /\ order' = Append(order, j)
    /\ asked' = [asked EXCEPT ![j] = delay]
    /\ UNCHANGED <<in, wvars, concluded, starts, failedCalls, rest>>

\* Pop, first section: jobs whose time has come join the ready list in order.
promoteDelayed(w) ==
    /\ pc[w] = "pop"
    /\ ready' = promoted[Len(delayed)].ready
    /\ delayed' = promoted[Len(delayed)].kept
    /\ pc' = [pc EXCEPT ![w] = "take"]
    /\ UNCHANGED <<in, signal, hold, exits, hvars>>

\* Pop, second section: take the head, or go to sleep.  The handler starts
\* right after Pop returns; a job without a handler is acknowledged unrun.
PopTake(w) ==
    /\ pc[w] = "take"
    /\ ready # <<>>
    /\ LET e == Head(ready)
       IN  /\ ready' = Tail(ready)
           /\ in' = With(in, e)
           /\ hold' = [hold EXCEPT ![w] = e]
           /\ IF e.id \in Unhandled
              THEN /\ pc' = [pc EXCEPT ![w] = "ack"]
                   /\ concluded' = concluded \cup {e.id}
                   /\ UNCHANGED starts
              ELSE /\ pc' = [pc EXCEPT ![w] = "run"]
                   /\ starts' = [starts EXCEPT ![e.id] = @ + 1]
                   /\ UNCHANGED concluded
    /\ UNCHANGED <<delayed, signal, exits, order, asked, failedCalls, rest>>

PopEmpty(w) ==
    /\ pc[w] = "take"
    /\ ready = <<>>
    /\ pc' = [pc EXCEPT ![w] = "wait"]
    /\ UNCHANGED <<qvars, hold, exits, hvars>>

\* The sleeper takes the wake-up token ...
PopSignal(w) ==
    /\ pc[w] = "wait"
    /\ signal
    /\ signal' = FALSE
    /\ pc' = [pc EXCEPT ![w] = "pop"]
    /\ UNCHANGED <<ready, delayed, in, hold, exits, hvars>>

\* ... or its 50ms slice or its whole wait ends (ErrEmpty: Run calls Pop again).
PopTimer(w) ==
    /\ pc[w] = "wait"
    /\ pc' = [pc EXCEPT ![w] = "pop"]
    /\ UNCHANGED <<qvars, hold, exits, hvars>>

\* The handler returned nil.
handleSucceeds(w) ==
    /\ pc[w] = "run"
    /\ pc' = [pc EXCEPT ![w] = "ack"]
    /\ concluded' = concluded \cup {hold[w].id}
    /\ UNCHANGED <<qvars, hold, exits, order, asked, starts, failedCalls, rest>>

\* The handler returned an error or panicked (invoke turns a panic into one).
handleFails(w) ==
    /\ pc[w] = "run"
    /\ LET e == hold[w]
       IN  IF Exhausted(e.attempts)
           THEN /\ pc' = [pc EXCEPT ![w] = "ack"]
                /\ concluded' = concluded \cup {e.id}
                /\ failedCalls' = [failedCalls EXCEPT ![e.id] = @ + 1]
                /\ UNCHANGED rest
           ELSE /\ pc' = [pc EXCEPT ![w] = "nack"]
                /\ rest' = [rest EXCEPT ![e.id] = 0]
                /\ UNCHANGED <<concluded, failedCalls>>
    /\ UNCHANGED <<qvars, hold, exits, order, asked, starts>>

Ack(w) ==
    /\ pc[w] = "ack"
    /\ in' = Without(in, hold[w].id)
    /\ pc' = [pc EXCEPT ![w] = "pop"]
    /\ hold' = [hold EXCEPT ![w] = None]
    /\ UNCHANGED <<ready, delayed, signal, exits, hvars>>

\* Nack, first section.  What goes back is the entry of the in-flight map.
NackTakeOut(w) ==
    /\ pc[w] = "nack"
    /\ LET id == hold[w].id
       IN  /\ in' = Without(in, id)
           /\ IF id \in DOMAIN in
              THEN /\ pc' = [pc EXCEPT ![w] = "requeue"]
                   /\ hold' = [hold EXCEPT ![w] = in[id]]
              ELSE /\ pc' = [pc EXCEPT ![w] = "pop"]
                   /\ hold' = [hold EXCEPT ![w] = None]
    /\ UNCHANGED <<ready, delayed, signal, exits, hvars>>

\* Nack, second section: one attempt more, behind the delay handle chose.
NackPutBack(w) ==
    /\ pc[w] = "requeue"
    /\ LET e == hold[w]
       IN  enqueue([e EXCEPT !.attempts = @ + 1, !.due = RetryDelay(e.attempts)])
    /\ pc' = [pc EXCEPT ![w] = "pop"]
    /\ hold' = [hold EXCEPT ![w] = None]
    /\ UNCHANGED <<in, exits, hvars>>

\* Run returns, between jobs or out of Pop's sleep, on Stop or a cancelled ctx.
RunExit(w) ==
    /\ pc[w] \in {"pop", "wait"}
    /\ exits < MaxExits
    /\ exits' = exits + 1
    /\ pc' = [pc EXCEPT ![w] = "exited"]
    /\ UNCHANGED <<qvars, hold, hvars>>

RunStart(w) ==
    /\ pc[w] = "exited"
    /\ pc' = [pc EXCEPT ![w] = "pop"]
    /\ UNCHANGED <<qvars, hold, exits, hvars>>

\* One unit of time passes.
Tick ==
    /\ \/ \E i \in DOMAIN delayed : delayed[i].due > 0
       \/ \E j \in pushed : rest[j] < RestCap
    /\ delayed' = [i \in DOMAIN delayed |->
                     [delayed[i] EXCEPT !.due = IF @ > 0 THEN @ - 1 ELSE 0]]
    /\ rest' = [j \in Jobs |-> IF rest[j] < RestCap /\ j \in pushed
                               THEN rest[j] + 1 ELSE rest[j]]
    /\ UNCHANGED <<ready, in, signal, wvars, order, asked, concluded, starts, failedCalls>>

Work(w) ==
    \/ promoteDelayed(w) \/ PopTake(w) \/ PopEmpty(w) \/ PopSignal(w) \/ PopTimer(w)
    \/ handleSucceeds(w) \/ handleFails(w)
    \/ Ack(w) \/ NackTakeOut(w) \/ NackPutBack(w)
    \/ RunStart(w)

Next ==
    \/ \E j \in Jobs, delay \in 0..MaxDelay : Push(j, delay)
    \/ \E w \in Workers : Work(w) \/ RunExit(w)
    \/ Tick

\* Goroutines that can run do run, handlers return, time passes, and a worker
\* that was stopped is started again.
Fairness ==
    /\ \A w \in Workers : WF_vars(Work(w))
    /\ WF_vars(Tick)

Spec == Init /\ [][Next]_vars /\ Fairness

-----------------------------------------------------------------------------
\* Every variable holds a value of its type, and no list keeps a job whose
\* attempts are used up: handle drops those instead of returning them.
TypeOK ==
    LET Unspent == {e \in UNION {Range(ready), Range(delayed), Range(in)} :
                      e \in Entry /\ e.attempts < MaxRetry}
    IN  /\ Range(ready) \cup Range(delayed) \cup Range(in) \subseteq Unspent
        /\ DOMAIN in \subseteq Jobs
        /\ signal \in BOOLEAN
        /\ pc \in [Workers -> PC]
        /\ \A w \in Workers :
              IF pc[w] \in Handling \cup {"requeue"} THEN hold[w] \in Entry ELSE hold[w] = None
        /\ exits \in 0..MaxExits
        /\ pushed \subseteq Jobs /\ concluded \subseteq pushed
        /\ asked \in [Jobs -> 0..MaxDelay] /\ rest \in [Jobs -> 0..RestCap]
        /\ starts \in [Jobs -> Nat] /\ failedCalls \in [Jobs -> Nat]

Holders(j) == {w \in Workers : pc[w] \in Handling \cup {"requeue"} /\ hold[w].id = j}
Listed(list, j) == Cardinality({i \in DOMAIN list : list[i].id = j})

\* How many copies of j the lists and the workers have between them.
Copies(j) == Listed(ready, j) + Listed(delayed, j) + Cardinality(Holders(j))

\* No job is lost or duplicated by the split critical sections of Pop and
\* Nack: until its handling is concluded there is exactly one copy of it, in
\* one list or with one worker, never more than one afterwards, and the
\* in-flight map lists exactly the jobs that workers are handling.
Custody ==
    /\ \A j \in pushed : Copies(j) <= 1 /\ (j \notin concluded => Copies(j) = 1)
    /\ DOMAIN in = {hold[w].id : w \in {v \in Workers : pc[v] \in Handling}}

\* MaxRetry counts handler runs exactly, the first included: no job runs more
\* often, onFailed is called at most once per job, and only for a job that
\* has used up all of its runs.
RetryBudget ==
    \A j \in Jobs :
        /\ starts[j] <= MaxRetry
        /\ failedCalls[j] > 0 => failedCalls[j] = 1 /\ starts[j] = MaxRetry

\* What a delivery has to wait for: the producer's delay, or after a failure the
\* backoff, doubled with every attempt up to the clamp.
Wait(e) ==
    IF e.attempts = 0 THEN asked[e.id]
    ELSE Backoff * 2 ^ (IF e.attempts > MaxShift THEN MaxShift ELSE e.attempts - 1)

\* A handler never starts before the producer's delay, or the doubling backoff
\* after the last failure, has passed.
NeverEarly == \A w \in Workers : pc[w] = "run" => rest[hold[w].id] >= Wait(hold[w])

\* FIFO: jobs pushed without a delay get their first delivery in the order of
\* their pushes, whatever retries and delayed jobs come in between.
FirstDeliveryInOrder ==
    LET delivered(j) == starts[j] > 0 \/ j \in concluded
    IN  \A a, b \in DOMAIN order :
            (a < b /\ asked[order[a]] = 0 /\ asked[order[b]] = 0 /\ delivered(order[b]))
                => delivered(order[a])

\* The queue's safety, whatever workers do between the critical sections of Pop
\* and Nack: no job is lost, doubled, retried too often, hurried or overtaken.
Safety == TypeOK /\ Custody /\ RetryBudget /\ NeverEarly /\ FirstDeliveryInOrder

\* The jobs the queue still has: those of the three lists and the one that a
\* Nack has taken out and not yet put back.
live == {j \in Jobs : Copies(j) > 0}

C == INSTANCE QueueContract

\* At-least-once: the queue implements the Queue interface's contract.
AtLeastOnce == C!Spec

\* Every pushed job leaves the queue in the end, concluded.
EventuallySettled == C!Settles
=============================================================================
