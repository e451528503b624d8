----------------------------- MODULE QueueStats -----------------------------
(***************************************************************************)
(* queue/dashboard: the counters and the rolling window of Stats, and the  *)
(* Sampler that reads them from a goroutine of its own, for one queue.     *)
(* windowSize is 60 in the code.                                           *)
(***************************************************************************)
EXTENDS Integers, FiniteSets

CONSTANTS
    windowSize,
    Stoppers,       \* goroutines that call Stop once
    MaxSeconds,     \* bound: seconds that pass
    MaxJobs         \* bound: jobs pushed

VARIABLES
    now,
    counters,   \* queueCounters: pushed, processed, failed
    buckets, epoch,
    log,        \* log[s]: jobs processed in second s (what the window is about)
    sampler,    \* Sampler: [started, stop, done, prev], prev -1 before the first reading
    loop,       \* the goroutine of the sampler: "none", "prime", "wait" or "gone"
    rates,      \* what the sampler has recorded
    spc         \* spc[s]: "idle", "close", "wait" or "returned"

qsVars == <<now, counters, buckets, epoch, log, sampler, loop, rates, spc>>

Slots == 0 .. windowSize - 1

Init ==
    /\ now = windowSize
    /\ counters = [pushed |-> 0, processed |-> 0, failed |-> 0]
    /\ buckets = [s \in Slots |-> 0] /\ epoch = [s \in Slots |-> 0]
    /\ log = [s \in 0 .. windowSize + MaxSeconds |-> 0]
    /\ sampler = [started |-> FALSE, stop |-> FALSE, done |-> FALSE, prev |-> -1]
    /\ loop = "none" /\ rates = 0 /\ spc = [s \in Stoppers |-> "idle"]

-----------------------------------------------------------------------------
OnPushed ==
    /\ counters.pushed < MaxJobs
    /\ counters' = [counters EXCEPT !.pushed = @ + 1]
    /\ UNCHANGED <<now, buckets, epoch, log, sampler, loop, rates, spc>>

pending == counters.pushed - counters.processed - counters.failed

\* The slot of this second, emptied when it still holds an older one.
slotCount_stale(slot) == buckets[slot]
slotCount(slot) == IF epoch[slot] = now THEN buckets[slot] ELSE 0
OnProcessed ==
    LET slot == now % windowSize IN
    /\ pending > 0
    /\ counters' = [counters EXCEPT !.processed = @ + 1]
    /\ buckets' = [buckets EXCEPT ![slot] = slotCount(slot) + 1]
    /\ epoch' = [epoch EXCEPT ![slot] = now]
    /\ log' = [log EXCEPT ![now] = @ + 1]
    /\ UNCHANGED <<now, sampler, loop, rates, spc>>

OnFailed ==
    /\ pending > 0
    /\ counters' = [counters EXCEPT !.failed = @ + 1]
    /\ UNCHANGED <<now, buckets, epoch, log, sampler, loop, rates, spc>>

Second ==
    /\ now < windowSize + MaxSeconds
    /\ now' = now + 1
    /\ UNCHANGED <<counters, buckets, epoch, log, sampler, loop, rates, spc>>

\* throughputLocked, before the division by windowSize.
Sum(f, S) == LET Acc[T \in SUBSET S] == IF T = {} THEN 0 ELSE LET x == CHOOSE y \in T : TRUE IN f[x] + Acc[T \ {x}]
             IN  Acc[S]
inWindow(slot) == epoch[slot] >= now - windowSize + 1 /\ epoch[slot] <= now
throughput == Sum(buckets, {slot \in Slots : inWindow(slot)})

-----------------------------------------------------------------------------
Start ==
    /\ ~sampler.started
    /\ sampler' = [sampler EXCEPT !.started = TRUE]
    /\ loop' = "prime"
    /\ UNCHANGED <<now, counters, buckets, epoch, log, rates, spc>>

\* sample, from the loop: the first reading is only the baseline.
sample ==
    /\ loop \in {"prime", "wait"}
    /\ sampler' = [sampler EXCEPT !.prev = counters.processed]
    /\ rates' = rates + (IF sampler.prev = -1 THEN 0 ELSE counters.processed - sampler.prev)
    /\ loop' = "wait"
    /\ UNCHANGED <<now, counters, buckets, epoch, log, spc>>

loopEnds ==
    /\ loop = "wait" /\ sampler.stop
    /\ loop' = "gone"
    /\ sampler' = [sampler EXCEPT !.done = TRUE]
    /\ UNCHANGED <<now, counters, buckets, epoch, log, rates, spc>>

\* Stop: started is read first, then stop is closed once, then done awaited.
awaits(s) == sampler.started
Stop(s) ==
    /\ spc[s] = "idle"
    /\ spc' = [spc EXCEPT ![s] = IF awaits(s) THEN "closeWait" ELSE "close"]
    /\ UNCHANGED <<now, counters, buckets, epoch, log, sampler, loop, rates>>
closeStop(s) ==
    /\ spc[s] \in {"close", "closeWait"}
    /\ sampler' = [sampler EXCEPT !.stop = TRUE]
    /\ spc' = [spc EXCEPT ![s] = IF @ = "close" THEN "returned" ELSE "wait"]
    /\ UNCHANGED <<now, counters, buckets, epoch, log, loop, rates>>
stopDone(s) ==
    /\ spc[s] = "wait" /\ sampler.done
    /\ spc' = [spc EXCEPT ![s] = "returned"]
    /\ UNCHANGED <<now, counters, buckets, epoch, log, sampler, loop, rates>>

StopStep(s) == closeStop(s) \/ stopDone(s)
Next ==
    \/ OnPushed \/ OnProcessed \/ OnFailed \/ Second
    \/ Start \/ sample \/ loopEnds
    \/ \E s \in Stoppers : Stop(s) \/ StopStep(s)

\* Goroutines run; in a select with a ready stop channel the loop does not take the
\* ticker's case for ever.
Fair == WF_qsVars(loop = "prime" /\ sample) /\ SF_qsVars(loopEnds) /\ \A s \in Stoppers : WF_qsVars(StopStep(s))

-----------------------------------------------------------------------------
\* The ring gives the jobs of exactly the last windowSize seconds: a slot that was
\* last used a lap ago counts for nothing.
WindowExact == throughput = Sum(log, {s \in now - windowSize + 1 .. now : s >= 0})

\* Stop returns whether or not the sampler was started, and a sampler that was started
\* does not outlive it.
StopEnds == \A s \in Stoppers : (spc[s] # "idle") ~> (spc[s] = "returned" /\ loop \in {"none", "gone"})
=============================================================================
