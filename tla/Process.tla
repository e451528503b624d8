------------------------------ MODULE Process -------------------------------
(***************************************************************************)
(* process.Cmd.Run: a command with a timeout, whose child may leave        *)
(* grandchildren behind that hold the output pipes.                        *)
(***************************************************************************)
EXTENDS Integers, FiniteSets

CONSTANTS Grandchildren, HasTimeout

VARIABLES
    run,        \* "idle", "running", "waiting" for the pipes, or "returned"
    child,      \* "none", "alive", "exited", "failed" or "killed"
    group,      \* members of the child's process group that are alive, without the child
    strays,     \* processes that left the group
    ctx,        \* "open", "deadline" or "cancelled": the context Run waits on
    delay,      \* WaitDelay has passed
    result      \* [code, err] of Run

prVars == <<run, child, group, strays, ctx, delay, result>>
NoResult == [code |-> "none", err |-> "none"]
Init ==
    /\ run = "idle" /\ child = "none" /\ group = {} /\ strays = {} /\ ctx = "open" /\ delay = FALSE
    /\ result = NoResult

-----------------------------------------------------------------------------
\* Run up to Start: a program that cannot be started is an error without an exit code.
Run ==
    /\ run = "idle"
    /\ \/ run' = "running" /\ child' = "alive" /\ UNCHANGED result
       \/ run' = "returned" /\ result' = [code |-> "none", err |-> "run"] /\ UNCHANGED child
    /\ UNCHANGED <<group, strays, ctx, delay>>

\* What the child does: start helpers in its group, let one leave it, end.
Spawn(g) ==
    /\ child = "alive" /\ g \notin group \cup strays
    /\ group' = group \cup {g}
    /\ UNCHANGED <<run, child, strays, ctx, delay, result>>
Leaves(g) ==
    /\ g \in group
    /\ group' = group \ {g} /\ strays' = strays \cup {g}
    /\ UNCHANGED <<run, child, ctx, delay, result>>
Ends(g) ==
    /\ g \in group \cup strays
    /\ group' = group \ {g} /\ strays' = strays \ {g}
    /\ UNCHANGED <<run, child, ctx, delay, result>>
Exits ==
    /\ child = "alive"
    /\ child' \in {"exited", "failed"}
    /\ UNCHANGED <<run, group, strays, ctx, delay, result>>

\* The timeout, the caller's deadline or cancellation: Cancel kills the whole group.
killProcessTree_child == group
killProcessTree == {}
Cancel(why) ==
    /\ run = "running" /\ ctx = "open" /\ (why = "deadline" => HasTimeout)
    /\ ctx' = why
    /\ child' = IF child = "alive" THEN "killed" ELSE child
    /\ group' = killProcessTree
    /\ UNCHANGED <<run, strays, delay, result>>

\* Wait: the child is gone, then the pipes are closed by the last holder or after WaitDelay.
Wait ==
    /\ run = "running" /\ child # "alive"
    /\ run' = "waiting"
    /\ UNCHANGED <<child, group, strays, ctx, delay, result>>
WaitDelay ==
    /\ run = "waiting" /\ ~delay
    /\ delay' = TRUE
    /\ UNCHANGED <<run, child, group, strays, ctx, result>>
pipesClosed == group \cup strays = {} \/ delay
timedOut == ctx = "deadline"
Returns ==
    /\ run = "waiting" /\ pipesClosed
    /\ run' = "returned"
    /\ LET clean == child = "exited" /\ group \cup strays = {} /\ ctx = "open"
           err == IF clean THEN "none" ELSE IF timedOut THEN "timeout"
                  ELSE IF child \in {"failed", "killed"} THEN "exit" ELSE "run"
       IN  result' = [code |-> IF child = "exited" THEN "0" ELSE "nonzero", err |-> err]
    /\ UNCHANGED <<child, group, strays, ctx, delay>>

Next ==
    \/ Run \/ Exits \/ Wait \/ WaitDelay \/ Returns
    \/ \E why \in {"deadline", "cancelled"} : Cancel(why)
    \/ \E g \in Grandchildren : Spawn(g) \/ Leaves(g) \/ Ends(g)

Fair == WF_prVars(Wait) /\ WF_prVars(WaitDelay) /\ WF_prVars(Returns)

-----------------------------------------------------------------------------
\* A command that was killed leaves nobody of its process group behind.
GroupGone == child = "killed" => group = {}

\* Once the child is gone, Run returns, whatever grandchildren hold the pipes.
RunReturns == (run # "idle" /\ child # "alive") ~> (run = "returned")
=============================================================================
