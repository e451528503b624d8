---------------------------- MODULE QueueContract ---------------------------
(***************************************************************************)
(* What the Queue interface promises a producer (queue/queue.go, the       *)
(* comments of Push, Pop, Ack and Nack): a job that was pushed stays in    *)
(* the queue until some delivery of it has been concluded, however often   *)
(* it is delivered before that, and it leaves the queue in the end.  A     *)
(* delivery is concluded when the handler succeeds, when it fails for the  *)
(* last time, or when the worker has no handler for the job.               *)
(***************************************************************************)
CONSTANT Jobs

VARIABLES
    pushed,     \* jobs a producer has put into the queue
    concluded,  \* jobs some delivery of which has been concluded
    live        \* jobs the queue still owes a delivery or a removal

vars == <<pushed, concluded, live>>

Init ==
    /\ pushed = {}
    /\ concluded = {}
    /\ live = {}

Push(j) ==
    /\ j \notin pushed
    /\ pushed' = pushed \cup {j}
    /\ live' = live \cup {j}
    /\ UNCHANGED concluded

Conclude(j) ==
    /\ j \in pushed
    /\ concluded' = concluded \cup {j}
    /\ UNCHANGED <<pushed, live>>

Remove(j) ==
    /\ j \in live \cap concluded
    /\ live' = live \ {j}
    /\ UNCHANGED <<pushed, concluded>>

Next == \E j \in Jobs : Push(j) \/ Conclude(j) \/ Remove(j)

\* At-least-once delivery: nothing leaves the queue unconcluded.
Spec == Init /\ [][Next]_vars

\* What a producer relies on, whatever else a queue does with concluded jobs:
\* a job that is not concluded is still in the queue.
NothingLost == pushed \ concluded \subseteq live

\* Progress: a job that is in the queue leaves it in the end.
Settles == \A j \in Jobs : j \in live ~> j \notin live
=============================================================================
