------------------------------ MODULE MCRuntime -----------------------------
(***************************************************************************)
(* The parts with goroutines of their own for TLC: the worker's lifecycle, *)
(* the scheduler and its calendar rules, the two broadcasters, the         *)
(* dashboard's statistics and the external commands.  They share no state, *)
(* so each behaviour is about one of them, chosen in the initial state.    *)
(***************************************************************************)
EXTENDS WorkerLifecycle

CONSTANTS Tasks, Runs, Interval, Minute, Hour, Day, Week, Month, Every, AtHour, AtMinute, MaxRun, Horizon,
          Subs, Publishers, Buffer, MaxPublish, windowSize, MaxSeconds, MaxJobs, Grandchildren
VARIABLES part,
          age, busy, schPc, myStop, stopCh, closedCh, cancelled, flight,
          rule, instant, lastRun, firing, idleFrom,
          subs, bClosed, closing, cancel, runner, ch, pub, count, got, dropped,
          active, rClosed, rClosing, subPc, inbox, listening, sent, seen, wedged,
          now, counters, buckets, epoch, log, sampler, loop, rates, samplerPc,
          command, child, group, strays, ctx, delay, result

\* The units of the calendar and the window of the statistics are positive.
ASSUME CalendarAssumption == {Minute, Hour, Day, Week, Month} \subseteq Nat \ {0}
ASSUME WindowAssumption == windowSize \in Nat \ {0} /\ MaxSeconds \in Nat

D == INSTANCE Scheduler WITH MaxStops <- 2, running <- busy, rpc <- schPc, now <- instant
B == INSTANCE Broadcasting WITH ChannelOf <- [s \in Subs |-> "orders"]
R == INSTANCE RedisBroadcaster WITH spc <- subPc
Q == INSTANCE QueueStats WITH spc <- samplerPc
X == INSTANCE Process WITH HasTimeout <- TRUE, run <- command

schVars == <<age, busy, schPc, myStop, stopCh, closedCh, cancelled, flight>>
calVars == <<rule, instant, lastRun, firing, idleFrom>>
bcVars == <<subs, bClosed, closing, cancel, runner, ch, pub, count, got, dropped>>
rbVars == <<active, rClosed, rClosing, subPc, inbox, listening, sent, seen, wedged>>
qsVars == <<now, counters, buckets, epoch, log, sampler, loop, rates, samplerPc>>
exVars == <<command, child, group, strays, ctx, delay, result>>
mcVars == <<part, vars, schVars, calVars, bcVars, rbVars, qsVars, exVars>>

InWorker == part = "worker" /\ UNCHANGED <<part, schVars, calVars, bcVars, rbVars, qsVars, exVars>>
InScheduler == part = "scheduler" /\ UNCHANGED <<part, vars, calVars, bcVars, rbVars, qsVars, exVars>>
InCalendar == part = "calendar" /\ UNCHANGED <<part, vars, schVars, bcVars, rbVars, qsVars, exVars>>
InMemory == part = "memory" /\ UNCHANGED <<part, vars, schVars, calVars, rbVars, qsVars, exVars>>
InRedis == part = "redis" /\ UNCHANGED <<part, vars, schVars, calVars, bcVars, qsVars, exVars>>
InStats == part = "stats" /\ UNCHANGED <<part, vars, schVars, calVars, bcVars, rbVars, exVars>>
InProcess == part = "process" /\ UNCHANGED <<part, vars, schVars, calVars, bcVars, rbVars, qsVars>>

NoCalendar == rule = "none" /\ instant = 0 /\ lastRun = 0 /\ firing = FALSE /\ idleFrom = 0

MCInit ==
    /\ part \in {"worker", "scheduler", "calendar", "memory", "redis", "stats", "process"}
    /\ IF part = "calendar" THEN D!CalendarInit ELSE NoCalendar
    /\ Init /\ D!Init /\ B!Init /\ R!Init /\ Q!Init /\ X!Init

MCNext ==
    \/ InWorker /\ Next
    \/ InScheduler /\ D!Next
    \/ InCalendar /\ D!CalendarNext
    \/ InMemory /\ B!Next
    \/ InRedis /\ R!Next
    \/ InStats /\ Q!Next
    \/ InProcess /\ X!Next

\* The fairness of the modules, over the variables of this one.
MCFairness ==
    /\ WF_mcVars(RunStep /\ InWorker) /\ \A s \in Stoppers : WF_mcVars(StopWake(s) /\ InWorker)
    /\ \A r \in Runs : WF_mcVars(D!leaveLoop(r) /\ InScheduler) /\ WF_mcVars(D!RunReturns(r) /\ InScheduler)
    /\ \A t \in Tasks : WF_mcVars(D!fire(t) /\ InScheduler)
    /\ \A s \in Subs :
          /\ WF_mcVars(B!closeDone(s) /\ InMemory)
          /\ WF_mcVars(B!closeCancels(s) /\ InMemory)
          /\ WF_mcVars(B!runEnds(s) /\ InMemory)
          /\ WF_mcVars(R!closeCancels(s) /\ InRedis)
          /\ WF_mcVars(R!leave(s) /\ InRedis)
          /\ WF_mcVars(R!register(s) /\ InRedis)
    /\ WF_mcVars(loop = "prime" /\ Q!sample /\ InStats) /\ SF_mcVars(Q!loopEnds /\ InStats)
    /\ \A s \in Stoppers : WF_mcVars(Q!StopStep(s) /\ InStats)
    /\ WF_mcVars(X!Wait /\ InProcess) /\ WF_mcVars(X!WaitDelay /\ InProcess) /\ WF_mcVars(X!Returns /\ InProcess)

MCSpec == MCInit /\ [][MCNext]_mcVars /\ MCFairness

-----------------------------------------------------------------------------
\* The properties of the parts, by theme; each conjunct is stated and explained in
\* its module.

\* Scheduled tasks: none overlaps itself, whichever Run fires it, and Run returns
\* only after the tasks it fired.
TasksOnTime == D!NoOverlap /\ D!Drained

\* A Run that begins is not stopped already, and a rule's run begins in a span
\* that has had none.
FreshStarts == [][D!NotBornStopped /\ D!NewSpan]_mcVars

\* The broadcasters' subscribers: no event after Cancel, none in the table that has
\* been cancelled, none missed by a subscriber told it is live, no connection leaked.
SubscribersServed == B!NoLateEvent /\ B!TableIsLive /\ R!NothingMissed /\ R!NoLeakedConnection

\* The clocks: the dashboard's rates count exactly the events of the window, and no
\* calendar rule misses its minute.
ClocksKept == Q!WindowExact /\ (part = "calendar" => D!NoneMissed)

\* A command that was cancelled leaves nothing of its process group running.
GroupGone == X!GroupGone

\* Whatever is stopped, closed or cancelled ends: Worker.Stop, the scheduler's Run,
\* the broadcasters' subscriptions, the sampler and an external command.
EverythingStops ==
    /\ StopReturns /\ D!StopEndsRun
    /\ B!CloseEndsAll /\ R!RedisCloseEndsAll
    /\ Q!StopEnds /\ X!RunReturns
=============================================================================
