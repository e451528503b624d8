----------------------------- MODULE RedisQueue -----------------------------
(***************************************************************************)
(* The Redis queue and the workers on it (drivers/redis/queue.go,          *)
(* queue/queue.go).  One Redis command is one atomic step, and every       *)
(* operation is several: Pop scans the delayed and the reserved sets and   *)
(* moves what is due to the ready list with ZREM and LPUSH, pops with RPOP *)
(* and reserves with ZADD; Ack and Nack scan the reserved set for the job  *)
(* ID before they change anything.  A job on its way between two commands  *)
(* is only in the worker's memory.  Members of the sets are encoded jobs,  *)
(* so copies that differ in their attempts are different members.  Time is *)
(* relative: a set maps each member to the time left until its score.      *)
(***************************************************************************)
EXTENDS Worker, Sequences, FiniteSets, Functions

CONSTANTS
    Jobs,       \* job IDs
    Workers,    \* Worker.Run loops, in any number of processes
    VisTout,    \* Queue.visTout in ticks
    HandlerMax, \* longest time from a reservation to the end of Ack or Nack
    MaxDelay,   \* bound: the longest delay a producer asks for
    MaxFaults,  \* bound: crashes and failed commands
    MaxAttempts,\* bound: handlers fail while no copy has more attempts
    MaxCopies,  \* bound: handlers fail while fewer copies are stored
    None        \* no member

ASSUME TimesAssumption == VisTout \in Nat \ {0} /\ HandlerMax \in Nat
ASSUME BoundsAssumption ==
    MaxDelay \in Nat /\ MaxFaults \in Nat /\ MaxAttempts \in Nat /\ MaxCopies \in Nat

VARIABLES
    ready,          \* the LIST, oldest first: LPUSH appends, RPOP takes the head
    zset,           \* the sorted sets, zset.delayed and zset.reserved
    pc, job,        \* each worker's position and the job Pop returned to it
    stage, todo,    \* promote: the set it works on and the members it has read
    member,         \* the member a worker carries from one command to the next
    held,           \* time since the worker's reservation, 0 without one
    faults,
    pushed,         \* history: jobs pushed
    concluded       \* history: jobs some delivery of which was concluded

svars == <<ready, zset>>
wvars == <<pc, job, stage, todo, member, held>>
hvars == <<pushed, concluded>>
vars == <<svars, wvars, faults, hvars>>

-----------------------------------------------------------------------------
Member == [id : Jobs, attempts : Nat]
ASSUME NoneAssumption == None \notin Member

ZAdd(z, m, score) == [x \in DOMAIN z \cup {m} |-> IF x = m THEN score ELSE z[x]]
ZRem(z, m) == [x \in DOMAIN z \ {m} |-> z[x]]

\* Members scored <= now.
dueMembers_late(z) == {m \in DOMAIN z : z[m] < 0}
dueMembers(z) == {m \in DOMAIN z : z[m] = 0}

\* Positions between Pop and the end of Ack or Nack.
Holding == {"run", "ack", "ackRem", "nack", "nackPush", "nackRem"}

Init ==
    /\ ready = <<>>
    /\ zset = [delayed |-> <<>>, reserved |-> <<>>]
    /\ pc = [w \in Workers |-> "promote"]
    /\ job = [w \in Workers |-> None]
    /\ stage = [w \in Workers |-> "delayed"]
    /\ todo = [w \in Workers |-> {}]
    /\ member = [w \in Workers |-> None]
    /\ held = [w \in Workers |-> 0]
    /\ faults = 0
    /\ pushed = {}
    /\ concluded = {}

\* Worker w goes on at p, carrying m.
Goto(w, p, m) ==
    /\ pc' = [pc EXCEPT ![w] = p]
    /\ member' = [member EXCEPT ![w] = m]

\* Put m where its delay belongs.
store(m, delay) ==
    IF delay > 0
    THEN zset' = [zset EXCEPT !.delayed = ZAdd(@, m, delay)] /\ UNCHANGED ready
    ELSE ready' = Append(ready, m) /\ UNCHANGED zset

-----------------------------------------------------------------------------
Push(j, delay) ==
    /\ j \notin pushed
    /\ store([id |-> j, attempts |-> 0], delay)
    /\ pushed' = pushed \cup {j}
    /\ UNCHANGED <<wvars, faults, concluded>>

\* promote reads the due members of one set ...
promoteScan(w) ==
    /\ pc[w] = "promote"
    /\ todo' = [todo EXCEPT ![w] = dueMembers(zset[stage[w]])]
    /\ Goto(w, "move", None)
    /\ UNCHANGED <<svars, job, stage, held, faults, hvars>>

\* A member that ZREM did not find was moved by somebody else.
moveOn(w, m) == m \in DOMAIN zset[stage[w]]

\* ... removes each of them by a command of its own ...
scanned_all(w, m) == todo[w]
scanned(w, m) == {m}

promoteRem(w, m) ==
    /\ pc[w] = "move"
    /\ todo' = [todo EXCEPT ![w] = @ \ {m}]
    /\ zset' = [zset EXCEPT ![stage[w]] = [x \in DOMAIN @ \ scanned(w, m) |-> @[x]]]
    /\ IF moveOn(w, m) THEN Goto(w, "lpush", m) ELSE UNCHANGED <<pc, member>>
    /\ UNCHANGED <<ready, job, stage, held, faults, hvars>>

\* ... and puts it on the ready list, its attempts as they were.
promotePush(w) ==
    /\ pc[w] = "lpush"
    /\ ready' = Append(ready, member[w])
    /\ Goto(w, "move", None)
    /\ UNCHANGED <<zset, job, stage, todo, held, faults, hvars>>

\* The delayed set is done first, then the reserved one, then Pop goes on.
promoteDone(w) ==
    /\ pc[w] = "move"
    /\ todo[w] = {}
    /\ stage' = [stage EXCEPT ![w] = IF @ = "delayed" THEN "reserved" ELSE "delayed"]
    /\ Goto(w, IF stage[w] = "delayed" THEN "promote" ELSE "rpop", None)
    /\ UNCHANGED <<svars, job, todo, held, faults, hvars>>

\* Pop takes the oldest member off the list, or sleeps and starts over.
PopTake(w) ==
    /\ pc[w] = "rpop"
    /\ ready # <<>>
    /\ ready' = Tail(ready)
    /\ Goto(w, "reserve", Head(ready))
    /\ UNCHANGED <<zset, job, stage, todo, held, faults, hvars>>

PopEmpty(w) ==
    /\ pc[w] = "rpop"
    /\ ready = <<>>
    /\ Goto(w, "promote", None)
    /\ UNCHANGED <<svars, job, stage, todo, held, faults, hvars>>

\* The member enters the reserved set and its handler runs.
reserve(w) ==
    /\ pc[w] = "reserve"
    /\ zset' = [zset EXCEPT !.reserved = ZAdd(@, member[w], VisTout)]
    /\ job' = [job EXCEPT ![w] = member[w]]
    /\ Goto(w, "run", None)
    /\ UNCHANGED <<ready, stage, todo, held, faults, hvars>>

\* The handler returned nil.
handleSucceeds(w) ==
    /\ pc[w] = "run"
    /\ Goto(w, "ack", None)
    /\ concluded' = concluded \cup {job[w].id}
    /\ UNCHANGED <<svars, job, stage, todo, held, faults, pushed>>

\* The members that the keys hold, and those on their way between two keys.
stored == Range(ready) \cup DOMAIN zset.delayed \cup DOMAIN zset.reserved
carried == {member[w] : w \in {v \in Workers : pc[v] \in {"lpush", "reserve"}}}

\* The handler failed: the last attempt is dropped, another one handed back.
handleFails(w) ==
    /\ pc[w] = "run"
    /\ Len(ready) + Cardinality(DOMAIN zset.delayed) + Cardinality(DOMAIN zset.reserved) < MaxCopies
    /\ \A m \in stored \cup carried : m.attempts <= MaxAttempts
    /\ IF Exhausted(job[w].attempts)
       THEN Goto(w, "ack", None) /\ concluded' = concluded \cup {job[w].id}
       ELSE Goto(w, "nack", None) /\ UNCHANGED concluded
    /\ UNCHANGED <<svars, job, stage, todo, held, faults, pushed>>

\* The worker is done with its job and polls again.
Release(w) ==
    /\ Goto(w, "promote", None)
    /\ job' = [job EXCEPT ![w] = None]
    /\ held' = [held EXCEPT ![w] = 0]

\* removeReserved reads the reserved set in score order and settles on the
\* first member with the job's ID, whoever reserved it, if there is one.
Found(w) == {m \in DOMAIN zset.reserved : m.id = job[w].id}

removeReserved(w, next) ==
    /\ \/ \E m \in Found(w) :
            /\ \A n \in Found(w) : zset.reserved[m] <= zset.reserved[n]
            /\ Goto(w, next, m)
            /\ UNCHANGED <<job, held>>
       \/ Found(w) = {} /\ Release(w)
    /\ UNCHANGED <<svars, stage, todo, faults, hvars>>

AckScan(w) == pc[w] = "ack" /\ removeReserved(w, "ackRem")

NackScan(w) == pc[w] = "nack" /\ removeReserved(w, "nackPush")

\* Nack stores the found copy with one attempt more ...
NackPush(w) ==
    /\ pc[w] = "nackPush"
    /\ store([member[w] EXCEPT !.attempts = @ + 1], RetryDelay(job[w].attempts))
    /\ Goto(w, "nackRem", member[w])
    /\ UNCHANGED <<job, stage, todo, held, faults, hvars>>

\* ... before it removes it, as Ack does, from the reserved set.
SettleRem(w) ==
    /\ pc[w] \in {"ackRem", "nackRem"}
    /\ zset' = [zset EXCEPT !.reserved = ZRem(@, member[w])]
    /\ Release(w)
    /\ UNCHANGED <<ready, stage, todo, faults, hvars>>

\* The worker's process dies with what it carries and starts again, or the
\* command it is about to send fails: Pop returns the error, promote, Ack and
\* Nack give up, and Run polls again.
Fault(w) ==
    /\ faults < MaxFaults
    /\ faults' = faults + 1
    /\ Release(w)
    /\ stage' = [stage EXCEPT ![w] = "delayed"]
    /\ todo' = [todo EXCEPT ![w] = {}]
    /\ UNCHANGED <<svars, hvars>>

\* One unit of time passes; nobody keeps a reserved job longer than HandlerMax.
Tick ==
    LET older(z) == [m \in DOMAIN z |-> IF z[m] > 0 THEN z[m] - 1 ELSE 0]
    IN  /\ \A w \in Workers : pc[w] \in Holding => held[w] < HandlerMax
        /\ zset' = [s \in DOMAIN zset |-> older(zset[s])]
        /\ held' = [w \in Workers |-> IF pc[w] \in Holding /\ held[w] <= VisTout
                                      THEN held[w] + 1 ELSE held[w]]
        /\ UNCHANGED <<ready, pc, job, stage, todo, member, faults, hvars>>

Work(w) ==
    \/ promoteScan(w) \/ (\E m \in todo[w] : promoteRem(w, m)) \/ promotePush(w) \/ promoteDone(w)
    \/ PopTake(w) \/ PopEmpty(w) \/ reserve(w)
    \/ handleSucceeds(w) \/ handleFails(w)
    \/ AckScan(w) \/ NackScan(w) \/ NackPush(w) \/ SettleRem(w)

Next ==
    \/ \E j \in Jobs, delay \in 0..MaxDelay : Push(j, delay)
    \/ \E w \in Workers : Work(w) \/ Fault(w)
    \/ Tick

\* Processes run, handlers return, commands complete and time passes.
Fairness ==
    /\ \A w \in Workers : WF_vars(Work(w))
    /\ WF_vars(Tick)

Spec == Init /\ [][Next]_vars /\ Fairness
-----------------------------------------------------------------------------
\* Every variable holds a value of its type, and a worker has a job exactly
\* between its reservation and the end of its Ack or Nack.
TypeOK ==
    /\ Range(ready) \subseteq Member
    /\ \A s \in {"delayed", "reserved"} : DOMAIN zset[s] \subseteq Member
    /\ stage \in [Workers -> {"delayed", "reserved"}]
    /\ todo \in [Workers -> SUBSET Member]
    /\ \A w \in Workers : member[w] \in Member \cup {None} /\ job[w] \in Member \cup {None}
    /\ \A w \in Workers : pc[w] \in Holding <=> job[w] # None
    /\ pushed \subseteq Jobs /\ concluded \subseteq pushed

\* Every holder of a job ends its Ack or Nack before its reservation expires,
\* and before the backoff of the copy that its Nack stored has passed.
Prompt == HandlerMax < VisTout /\ HandlerMax < Backoff

\* While nothing fails, prompt workers never handle a job two at a time, a Nack finds the copy its
\* own worker reserved, and no copy with its attempts used up is ever stored.
\* (With a shorter backoff the copy that a Nack stored can be popped before the
\* Nack removes the old one: the scan of the next Ack or Nack then settles the
\* old copy in place of its own, and a job may run more than MaxRetry times.)
OneDelivery ==
    Prompt /\ faults = 0 =>
              /\ \A v, w \in Workers :
                    pc[v] \in Holding /\ pc[w] \in Holding /\ job[v].id = job[w].id => v = w
              /\ \A m \in stored : m.attempts < MaxRetry

\* The jobs that are in Redis or on their way between two of its keys.
live == {m.id : m \in stored \cup carried}

C == INSTANCE QueueContract

\* At-least-once up to faults: a crash or failed command costs at most the one
\* job that its worker carried between two keys, and while there was none no
\* job is lost before a delivery of it was concluded, whatever two promoters,
\* an expired reservation and a late Ack or Nack do to each other.  (A late
\* Nack may bring a concluded job back, so the driver keeps this much of the
\* contract and not all of the contract's steps.)
LossPerFault ==
    /\ Cardinality((pushed \ concluded) \ live) <= faults
    /\ faults = 0 => C!NothingLost

\* The driver's safety, whatever crashes and failed commands come in between.
Safety == TypeOK /\ OneDelivery /\ LossPerFault

\* Every pushed job is settled in the end when workers are prompt and nothing
\* fails.  (A fault between the two commands of Nack leaves two copies, which
\* can keep each other in the queue for good.)
EventuallySettled == Prompt /\ [](faults = 0) => C!Settles
=============================================================================
