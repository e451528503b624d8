-------------------------- MODULE WorkerLifecycle ---------------------------
(***************************************************************************)
(* Worker.Run and Worker.Stop (queue/queue.go): the running flag and the   *)
(* two channels through which Stop asks Run to leave its loop and Run      *)
(* tells Stop that it has.  Run replaces the pair of channels when it      *)
(* finds stop closed, so a pair is a generation; a call works on the       *)
(* generation it read under runMu.  One Run is active at a time, any       *)
(* number of Stops may overlap it.                                         *)
(***************************************************************************)
EXTENDS Integers

CONSTANTS
    Stoppers,       \* goroutines that call Stop
    MaxRuns,        \* bound: how often Run is called
    MaxStops,       \* bound: how often Stop is called
    CancelAllowed   \* TRUE: Run may also end because its context is cancelled

ASSUME BoundsAssumption == MaxRuns \in Nat /\ MaxStops \in Nat
ASSUME CancelAssumption == CancelAllowed \in BOOLEAN

VARIABLES
    running,        \* Worker.running
    gen,            \* generation of Worker.stop and Worker.stopped
    stopClosed,     \* generations whose stop channel is closed
    stoppedClosed,  \* generations whose stopped channel is closed
    rpc, rgen,      \* Run: its position and the generation it captured
    runs,           \* history: calls of Run; the active one is the latest
    spc, sgen,      \* Stop: position and captured generation of each caller
    target,         \* history: the Run that was active when Stop was called, 0 for none
    stops,          \* history: calls of Stop
    closedTwice     \* generations whose stopped channel was closed again: a panic

lvars == <<running, gen, stopClosed, stoppedClosed, closedTwice>>
vars == <<lvars, rpc, rgen, runs, spc, sgen, target, stops>>

Init ==
    /\ running = FALSE
    /\ gen = 0
    /\ stopClosed = {}
    /\ stoppedClosed = {}
    /\ rpc = "off"
    /\ rgen = 0
    /\ runs = 0
    /\ spc = [s \in Stoppers |-> "off"]
    /\ sgen = [s \in Stoppers |-> 0]
    /\ target = [s \in Stoppers |-> 0]
    /\ stops = 0
    /\ closedTwice = {}

-----------------------------------------------------------------------------
\* Run, under runMu: mark running, and replace the channels after a Stop.
startGen == IF gen \in stopClosed THEN gen + 1 ELSE gen

RunEnter ==
    /\ rpc = "off"
    /\ runs < MaxRuns
    /\ runs' = runs + 1
    /\ running' = TRUE
    /\ gen' = startGen
    /\ rgen' = startGen
    /\ rpc' = "loop"
    /\ UNCHANGED <<stopClosed, stoppedClosed, closedTwice, spc, sgen, target, stops>>

\* The loop sees its stop channel closed, or a cancelled context.
RunLeave ==
    /\ rpc = "loop"
    /\ rgen \in stopClosed \/ CancelAllowed
    /\ rpc' = "leaving"
    /\ UNCHANGED <<lvars, rgen, runs, spc, sgen, target, stops>>

\* The deferred function: clear running under runMu ...
RunUnmark ==
    /\ rpc = "leaving"
    /\ running' = FALSE
    /\ rpc' = "closing"
    /\ UNCHANGED <<gen, stopClosed, stoppedClosed, closedTwice, rgen, runs, spc, sgen, target, stops>>

\* ... and close the captured stopped channel outside of it.
RunReturn ==
    /\ rpc = "closing"
    /\ closedTwice' = closedTwice \cup ({rgen} \cap stoppedClosed)
    /\ stoppedClosed' = stoppedClosed \cup {rgen}
    /\ rpc' = "off"
    /\ UNCHANGED <<running, gen, stopClosed, rgen, runs, spc, sgen, target, stops>>

\* Stop waits for Run only if it found it running.
stopWaits_never == FALSE
stopWaits_always == TRUE
stopWaits == running

\* Stop, under runMu: close stop unless it is closed, capture stopped.
StopSignal(s) ==
    /\ spc[s] = "off"
    /\ stops < MaxStops
    /\ stops' = stops + 1
    /\ stopClosed' = stopClosed \cup {gen}
    /\ sgen' = [sgen EXCEPT ![s] = gen]
    /\ spc' = [spc EXCEPT ![s] = IF stopWaits THEN "waiting" ELSE "returned"]
    /\ target' = [target EXCEPT ![s] = IF rpc = "loop" THEN runs ELSE 0]
    /\ UNCHANGED <<running, gen, stoppedClosed, closedTwice, rpc, rgen, runs>>

\* <-stopped
StopWake(s) ==
    /\ spc[s] = "waiting"
    /\ sgen[s] \in stoppedClosed
    /\ spc' = [spc EXCEPT ![s] = "returned"]
    /\ UNCHANGED <<lvars, rpc, rgen, runs, sgen, target, stops>>

\* The caller goes on and may call Stop again.
StopAgain(s) ==
    /\ spc[s] = "returned"
    /\ spc' = [spc EXCEPT ![s] = "off"]
    /\ UNCHANGED <<lvars, rpc, rgen, runs, sgen, target, stops>>

RunStep == RunUnmark \/ RunReturn \/ (rgen \in stopClosed /\ RunLeave)

Next ==
    \/ RunEnter \/ RunLeave \/ RunUnmark \/ RunReturn
    \/ \E s \in Stoppers : StopSignal(s) \/ StopWake(s) \/ StopAgain(s)

\* A Run that was told to stop gets there (its handlers return), and a Stop
\* whose channel is closed wakes up.  Nobody has to call Run or Stop.
Fairness == WF_vars(RunStep) /\ \A s \in Stoppers : WF_vars(StopWake(s))

Spec == Init /\ [][Next]_vars /\ Fairness
-----------------------------------------------------------------------------
\* Every variable holds a value of its type, and running tells whether a Run
\* has entered and not yet left.
TypeOK ==
    /\ running \in BOOLEAN /\ (running <=> rpc \in {"loop", "leaving"})
    /\ gen \in Nat /\ rgen \in Nat
    /\ stopClosed \subseteq Nat /\ stoppedClosed \subseteq Nat
    /\ rpc \in {"off", "loop", "leaving", "closing"}
    /\ runs \in 0..MaxRuns /\ stops \in 0..MaxStops
    /\ spc \in [Stoppers -> {"off", "waiting", "returned"}]
    /\ sgen \in [Stoppers -> Nat]
    /\ target \in [Stoppers -> 0..MaxRuns]
    /\ closedTwice \subseteq Nat

\* A Worker that is only ever ended by Stop can be restarted: no Run closes a
\* channel that an earlier Run has closed.
NoDoubleClose == closedTwice = {}

\* "Stop ... blocks until Run returns": when Stop returns, the Run that was in
\* its loop when Stop was called has left the loop.
StopBlocks ==
    \A s \in Stoppers :
        spc[s] = "returned" /\ target[s] > 0 => runs > target[s] \/ rpc # "loop"

\* What makes Run and Stop safe to call in any order and again.
RestartSound == TypeOK /\ NoDoubleClose /\ StopBlocks

\* Stop never hangs, whether or not a Run is active, restarted or leaving.
StopReturns == \A s \in Stoppers : spc[s] = "waiting" ~> spc[s] = "returned"
=============================================================================
