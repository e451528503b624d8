----------------------------- MODULE FailedJobs -----------------------------
(***************************************************************************)
(* queue/dashboard: MemoryFailedJobs behind the inspector's actions, with  *)
(* a worker that runs the retried jobs and records those that fail again.  *)
(* Retry and Forget look the record up and remove it under two separate    *)
(* locks; Retry re-enqueues in between.                                    *)
(***************************************************************************)
EXTENDS Integers, Sequences, FiniteSets

CONSTANTS
    Jobs,
    Operators,      \* requests to the dashboard
    MaxFailures     \* bound: how often jobs fail

VARIABLES
    items,      \* MemoryFailedJobs.items: the failure a record is about, 0 for no record
    order,      \* MemoryFailedJobs.order
    queued,     \* queued[j]: copies of j in the queue
    running,    \* running[j]: copies of j a worker holds
    op,         \* op[o]: [pc, job, todo]
    failures,
    retried,    \* Stats.retried
    settled,    \* jobs that were processed or forgotten
    overlapped  \* jobs on which two actions, or an action and a failure, have overlapped

fjVars == <<items, order, queued, running, op, failures, retried, settled, overlapped>>

Doing(pc, j, todo) == [pc |-> pc, job |-> j, todo |-> todo]
NoOp == Doing("idle", "none", <<>>)

Init ==
    /\ items = [j \in Jobs |-> 0] /\ order = <<>>
    /\ queued = [j \in Jobs |-> 1] /\ running = [j \in Jobs |-> 0]
    /\ op = [o \in Operators |-> NoOp]
    /\ failures = 0 /\ retried = 0 /\ settled = {} /\ overlapped = {}

-----------------------------------------------------------------------------
ActsOn(o, j) == op[o].pc # "idle" /\ op[o].job = j
Busy(j) == \E o \in Operators : ActsOn(o, j)
Marked(js) == overlapped' = overlapped \cup js

\* The worker: Pop, then Ack after success or Record from OnFailed.
Take(j) ==
    /\ queued[j] > 0
    /\ queued' = [queued EXCEPT ![j] = @ - 1] /\ running' = [running EXCEPT ![j] = @ + 1]
    /\ UNCHANGED <<items, order, op, failures, retried, settled, overlapped>>
Succeed(j) ==
    /\ running[j] > 0
    /\ running' = [running EXCEPT ![j] = @ - 1]
    /\ settled' = settled \cup {j}
    /\ UNCHANGED <<items, order, queued, op, failures, retried, overlapped>>

\* add: one entry in order for every entry in items.
added(j) == IF items[j] = 0 THEN Append(order, j) ELSE order
Record(j) ==
    /\ running[j] > 0 /\ failures < MaxFailures
    /\ running' = [running EXCEPT ![j] = @ - 1]
    /\ failures' = failures + 1
    /\ order' = added(j)
    /\ items' = [items EXCEPT ![j] = failures + 1]
    /\ Marked(IF Busy(j) THEN {j} ELSE {})
    /\ UNCHANGED <<queued, op, retried, settled>>

\* Retry and Forget: the look-up.
LookUp(o, j, action) ==
    /\ op[o].pc = "idle" /\ items[j] > 0
    /\ op' = [op EXCEPT ![o] = Doing(action, j, <<>>)]
    /\ Marked(IF Busy(j) THEN {j} ELSE {})
    /\ UNCHANGED <<items, order, queued, running, failures, retried, settled>>

\* requeue, which may fail: then the record stays.
Requeue(o) ==
    /\ op[o].pc = "retry"
    /\ \/ /\ queued' = [queued EXCEPT ![op[o].job] = @ + 1]
          /\ op' = [op EXCEPT ![o].pc = "remove"]
       \/ op' = [op EXCEPT ![o] = NoOp] /\ UNCHANGED queued
    /\ UNCHANGED <<items, order, running, failures, retried, settled, overlapped>>

indexOf(j) == CHOOSE i \in DOMAIN order : order[i] = j /\ \A k \in 1 .. i - 1 : order[k] # j
without(j) ==
    IF \E i \in DOMAIN order : order[i] = j
    THEN SubSeq(order, 1, indexOf(j) - 1) \o SubSeq(order, indexOf(j) + 1, Len(order))
    ELSE order
removed(o) == items' = [items EXCEPT ![op[o].job] = 0] /\ order' = without(op[o].job)

\* The last part of Retry.
Remove(o) ==
    /\ op[o].pc = "remove"
    /\ removed(o)
    /\ retried' = retried + 1
    /\ op' = [op EXCEPT ![o] = NoOp]
    /\ UNCHANGED <<queued, running, failures, settled, overlapped>>

Flushing(todo) == IF todo = <<>> THEN NoOp ELSE Doing("flush", "none", todo)

\* The last part of Forget, alone or as one of FlushFailed's.
Drop(o) ==
    /\ op[o].pc = "forget"
    /\ removed(o)
    /\ settled' = settled \cup {op[o].job}
    /\ op' = [op EXCEPT ![o] = Flushing(@.todo)]
    /\ UNCHANGED <<queued, running, failures, retried, overlapped>>

\* List: the records, the latest failure first.
List == {s \in [DOMAIN order -> Jobs] :
            /\ {s[i] : i \in DOMAIN s} = {order[i] : i \in DOMAIN order}
            /\ \A i, k \in DOMAIN s : i < k => items[s[i]] >= items[s[k]]}
\* FlushFailed: List, then Forget of each; a record gone by then is skipped.
FlushFailed(o) ==
    /\ op[o].pc = "idle" /\ order # <<>>
    /\ \E todo \in List : op' = [op EXCEPT ![o] = Flushing(todo)]
    /\ UNCHANGED <<items, order, queued, running, failures, retried, settled, overlapped>>
FlushNext(o) ==
    /\ op[o].pc = "flush"
    /\ LET j == Head(op[o].todo)
           rest == Tail(op[o].todo)
       IN  IF items[j] > 0
           THEN /\ op' = [op EXCEPT ![o] = Doing("forget", j, rest)]
                /\ Marked(IF Busy(j) THEN {j} ELSE {})
           ELSE /\ op' = [op EXCEPT ![o] = Flushing(rest)]
                /\ UNCHANGED overlapped
    /\ UNCHANGED <<items, order, queued, running, failures, retried, settled>>

Next ==
    \/ \E j \in Jobs : Take(j) \/ Succeed(j) \/ Record(j)
    \/ \E o \in Operators :
          \/ \E j \in Jobs, a \in {"retry", "forget"} : LookUp(o, j, a)
          \/ Requeue(o) \/ Remove(o) \/ Drop(o) \/ FlushFailed(o) \/ FlushNext(o)

-----------------------------------------------------------------------------
\* The list and the map of the store agree: every record is listed once.
ListedOnce ==
    /\ {order[i] : i \in DOMAIN order} = {j \in Jobs : items[j] > 0}
    /\ \A i, k \in DOMAIN order : order[i] = order[k] => i = k

\* A job is never in two places, and never in none before it is processed or forgotten,
\* unless two actions on it, or an action and a new failure, overlapped.
InOnePlace ==
    \A j \in Jobs \ overlapped :
        LET held == queued[j] + running[j] + (IF items[j] > 0 /\ ~Busy(j) THEN 1 ELSE 0)
        IN  held <= 1 /\ (held = 0 => j \in settled \/ Busy(j))
-----------------------------------------------------------------------------
(* The inductive invariants of the properties above (InnerServicesProofs). *)
Ops == [pc : {"idle", "retry", "remove", "forget", "flush"}, job : Jobs \cup {"none"}, todo : Seq(Jobs)]
TypeOK ==
    /\ items \in [Jobs -> Nat] /\ order \in Seq(Jobs) /\ failures \in Nat
    /\ queued \in [Jobs -> Nat] /\ running \in [Jobs -> Nat] /\ op \in [Operators -> Ops]
    /\ \A o \in Operators : /\ op[o].pc \in {"retry", "remove", "forget"} => op[o].job \in Jobs
                            /\ op[o].pc = "flush" => op[o].todo # <<>> /\ op[o].job = "none"
\* Where a job is that no two actions, and no action and failure, overlapped on: an action holds
\* its record, and once the job is back in the queue the record may outlive it.
Gone(j) == queued[j] + running[j] = 0
Alive(j) == queued[j] + running[j] = 1 \/ (Gone(j) /\ j \in settled)
Placed(j) ==
    /\ \A o, p \in Operators : ActsOn(o, j) /\ ActsOn(p, j) => o = p
    /\ \A o \in Operators : ActsOn(o, j) =>
          items[j] > 0 /\ (IF op[o].pc = "remove" THEN Alive(j) ELSE Gone(j))
    /\ ~Busy(j) => (IF items[j] > 0 THEN Gone(j) ELSE Alive(j))
Inv == TypeOK /\ ListedOnce /\ \A j \in Jobs \ overlapped : Placed(j)
=============================================================================
