----------------------------- MODULE Scheduler ------------------------------
(***************************************************************************)
(* scheduling.Runner: Runs (also two at a time, or one after a Stop) that  *)
(* dispatch due tasks on their tickers, tasks in goroutines of their own,  *)
(* Stop, and the caller's context; the schedule there is Every(Interval).  *)
(* A stop channel is a number.  Below it, the calendar rules under ticks:  *)
(* a rule is asked with the instant of the task's last run and the instant *)
(* of the tick, and knows nothing else.  The calendar is the real one with *)
(* shorter units, so that hours, days, weeks and months wrap within a few  *)
(* hundred instants: a day of the month, an hour of the day and a minute   *)
(* come round again and must not be taken for the same one.                *)
(***************************************************************************)
EXTENDS Integers, FiniteSets

CONSTANTS
    Tasks, Runs,
    Interval,       \* ticks between two firings
    MaxStops        \* bound: channels that are closed

VARIABLES
    age,        \* age[t]: ticks since task.lastRun, up to Interval
    running,    \* task.running
    rpc,        \* rpc[r]: "idle", "loop", "drain"
    myStop,     \* myStop[r]: the channel this Run selects on
    stopCh,     \* Runner.stop
    closedCh,   \* channels that are closed
    cancelled,  \* runs whose context is cancelled
    flight      \* flight[t]: the run that fired the executions of t in progress, as a bag of runs

schVars == <<age, running, rpc, myStop, stopCh, closedCh, cancelled, flight>>
wg == {t \in Tasks : \E r \in Runs : flight[t][r] > 0}

Init ==
    /\ age = [t \in Tasks |-> 0] /\ running = [t \in Tasks |-> FALSE]
    /\ rpc = [r \in Runs |-> "idle"] /\ myStop = [r \in Runs |-> 0]
    /\ stopCh = 0 /\ closedCh = {} /\ cancelled = {}
    /\ flight = [t \in Tasks |-> [r \in Runs |-> 0]]

-----------------------------------------------------------------------------
\* Run: a closed stop channel is replaced.
freshStop_kept == stopCh
freshStop == IF stopCh \in closedCh THEN stopCh + 1 ELSE stopCh
Run(r) ==
    /\ rpc[r] = "idle"
    /\ stopCh' = freshStop
    /\ myStop' = [myStop EXCEPT ![r] = freshStop]
    /\ rpc' = [rpc EXCEPT ![r] = "loop"]
    /\ cancelled' = cancelled \ {r}
    /\ UNCHANGED <<age, running, closedCh, flight>>

Stop ==
    /\ stopCh < MaxStops
    /\ closedCh' = closedCh \cup {stopCh}
    /\ UNCHANGED <<age, running, rpc, myStop, stopCh, cancelled, flight>>

cancelCtx(r) ==
    /\ rpc[r] # "idle"
    /\ cancelled' = cancelled \cup {r}
    /\ UNCHANGED <<age, running, rpc, myStop, stopCh, closedCh, flight>>

Due(t) == age[t] >= Interval

\* dispatch of one task, under its mutex: due and not running.  wg.Add and go fire
\* follow in the same goroutine, before it can look at stop again.
mayFire_overlapping(t) == Due(t)
mayFire(t) == Due(t) /\ ~running[t]
dispatch(r, t) ==
    /\ rpc[r] = "loop" /\ mayFire(t)
    /\ age' = [age EXCEPT ![t] = 0]
    /\ running' = [running EXCEPT ![t] = TRUE]
    /\ flight' = [flight EXCEPT ![t][r] = @ + 1]
    /\ UNCHANGED <<rpc, myStop, stopCh, closedCh, cancelled>>

\* fire: the task returns, with an error or not; running is reset, then wg.Done.
fire(t) ==
    /\ t \in wg
    /\ running' = [running EXCEPT ![t] = FALSE]
    /\ \E r \in Runs : flight[t][r] > 0 /\ flight' = [flight EXCEPT ![t][r] = @ - 1]
    /\ UNCHANGED <<age, rpc, myStop, stopCh, closedCh, cancelled>>

\* The select sees the channel this Run read when it began.
stopSeen(r) == myStop[r] \in closedCh
leaveLoop(r) ==
    /\ rpc[r] = "loop" /\ (r \in cancelled \/ stopSeen(r))
    /\ rpc' = [rpc EXCEPT ![r] = "drain"]
    /\ UNCHANGED <<age, running, myStop, stopCh, closedCh, cancelled, flight>>

\* wg.Wait, and Run returns.
drained(r) == wg = {}
RunReturns(r) ==
    /\ rpc[r] = "drain" /\ drained(r)
    /\ rpc' = [rpc EXCEPT ![r] = "idle"]
    /\ UNCHANGED <<age, running, myStop, stopCh, closedCh, cancelled, flight>>

Tick ==
    /\ \E t \in Tasks : age[t] < Interval
    /\ age' = [t \in Tasks |-> IF age[t] < Interval THEN age[t] + 1 ELSE age[t]]
    /\ UNCHANGED <<running, rpc, myStop, stopCh, closedCh, cancelled, flight>>

Fair ==
    /\ \A r \in Runs : WF_schVars(leaveLoop(r)) /\ WF_schVars(RunReturns(r))
    /\ \A t \in Tasks : WF_schVars(fire(t))

Next ==
    \/ Stop \/ Tick
    \/ \E r \in Runs : Run(r) \/ cancelCtx(r) \/ leaveLoop(r) \/ RunReturns(r)
    \/ \E t \in Tasks : fire(t) \/ \E r \in Runs : dispatch(r, t)

-----------------------------------------------------------------------------
\* No task overlaps with itself, whichever Run fires it and however late it is.
NoOverlap == \A t \in Tasks : \A r, s \in Runs : flight[t][r] + (IF r = s THEN 0 ELSE flight[t][s]) <= 1

\* When Run has returned, every task it fired has finished.
Drained == \A r \in Runs : rpc[r] = "idle" => \A t \in Tasks : flight[t][r] = 0

\* A Stop ends a Run that is in its loop, once the tasks in flight have finished.
\* A second Run that goes on firing shares the WaitGroup and may keep the first
\* one draining.
StopEndsRun ==
    \A r \in Runs : (rpc[r] = "loop" /\ myStop[r] \in closedCh)
                       ~> (rpc[r] = "idle" \/ \E o \in Runs \ {r} : rpc[o] = "loop")

\* A Run that has just begun is not stopped already: restarting after Stop works.
NotBornStopped == \A r \in Runs : rpc[r] = "idle" /\ rpc'[r] = "loop" => myStop'[r] \notin closedCh'
RestartWorks == [][NotBornStopped]_schVars

-----------------------------------------------------------------------------
(* One task under a calendar rule.                                         *)

(* All positive, with AtHour < Day, AtMinute < Hour and Week < Month. *)
CONSTANTS Minute,       \* instants in a minute: the longest gap between ticks
          Hour, Day,    \* minutes in an hour, hours in a day
          Week, Month,  \* days in a week, in a month
          Every,        \* of Every, in instants
          AtHour, AtMinute, \* of DailyAt
          MaxRun,       \* bound: the longest run of the task
          Horizon       \* bound: the last instant

VARIABLES
  rule,     \* the schedule of the task
  now,      \* the instant of the last tick
  lastRun,  \* task.lastRun
  firing,   \* task.running
  idleFrom  \* history: since when the task is idle
calendarVars == <<rule, now, lastRun, firing, idleFrom>>

minuteOf(t) == (t \div Minute) % Hour
hourOf(t) == (t \div (Minute * Hour)) % Day
dayIndex(t) == t \div (Minute * Hour * Day)
dayOf(t) == dayIndex(t) % Month
monthOf(t) == dayIndex(t) \div Month
weekdayOf(t) == dayIndex(t) % Week
Rules == {"every", "hourly", "daily", "weekly", "monthly"}
hourly(prev, t) == hourOf(t) # hourOf(prev) \/ dayOf(t) # dayOf(prev)
dailyAt(prev, t) ==
  /\ hourOf(t) = AtHour /\ minuteOf(t) = AtMinute
  /\ dayOf(prev) # dayOf(t) \/ hourOf(prev) # hourOf(t) \/ minuteOf(prev) # minuteOf(t)
weekly(prev, t) ==
  /\ weekdayOf(t) = 0 /\ hourOf(t) = 0 /\ minuteOf(t) = 0
  /\ dayOf(prev) # dayOf(t)
monthly(prev, t) ==
  /\ dayOf(t) = 0 /\ hourOf(t) = 0 /\ minuteOf(t) = 0
  /\ monthOf(prev) # monthOf(t)
DueAt(prev, t) ==
  CASE rule = "every" -> t - prev >= Every
    [] rule = "hourly" -> hourly(prev, t)
    [] rule = "daily" -> dailyAt(prev, t)
    [] rule = "weekly" -> weekly(prev, t)
    [] rule = "monthly" -> monthly(prev, t)

CalendarInit ==
  /\ rule \in Rules
  /\ now \in 0..Minute * Hour * Day
  /\ lastRun = now /\ firing = FALSE /\ idleFrom = now

(* Runner.dispatch, for one task: due and not firing. *)
dispatchAt(gap) ==
  LET t == now + gap IN
  /\ t <= Horizon /\ (firing => t - lastRun <= MaxRun)
  /\ now' = t
  /\ \/ /\ DueAt(lastRun, t) /\ ~firing
        /\ lastRun' = t /\ firing' = TRUE
     \/ /\ ~DueAt(lastRun, t) \/ firing
        /\ UNCHANGED <<lastRun, firing>>
  /\ UNCHANGED <<rule, idleFrom>>
fireReturns ==
  /\ firing
  /\ firing' = FALSE /\ idleFrom' = now
  /\ UNCHANGED <<rule, now, lastRun>>
CalendarNext == (\E gap \in 1..Minute : dispatchAt(gap)) \/ fireReturns
CalendarSpec == CalendarInit /\ [][CalendarNext]_calendarVars

(* The span in which a rule means one run: the hour of Hourly, the minute  *)
(* of the others.                                                          *)
Span(t) == IF rule = "hourly" THEN t \div (Minute * Hour) ELSE t \div Minute
(* The first instant of a minute in which the rule asks for a run. *)
Target(t) ==
  /\ t % Minute = 0
  /\ CASE rule = "hourly" -> minuteOf(t) = 0
       [] rule = "daily" -> hourOf(t) = AtHour /\ minuteOf(t) = AtMinute
       [] rule = "weekly" -> weekdayOf(t) = 0 /\ hourOf(t) = 0 /\ minuteOf(t) = 0
       [] rule = "monthly" -> dayOf(t) = 0 /\ hourOf(t) = 0 /\ minuteOf(t) = 0
       [] OTHER -> FALSE

(* However often the Runner ticks within the minute, a calendar rule fires *)
(* once in it (Hourly once in the hour), also when the task was registered *)
(* in that very minute.                                                    *)
NewSpan == lastRun' # lastRun /\ rule # "every" => Span(lastRun') # Span(lastRun)
OncePerSpan == [][NewSpan]_calendarVars

(* A task that has been idle since before its minute began has run by the  *)
(* end of it: the same hour, day of the month or minute coming round again *)
(* is never taken for one already served.                                  *)
NoneMissed ==
  ~firing =>
    /\ \A t \in idleFrom + 1..now : Target(t) => t + Minute - 1 > now
    /\ rule = "every" /\ idleFrom < lastRun + Every => now < lastRun + Every + Minute
=============================================================================
