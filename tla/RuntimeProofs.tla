--------------------------- MODULE RuntimeProofs ----------------------------
(***************************************************************************)
(* Proofs about the parts of MCRuntime, for any number of tasks, Runs,     *)
(* subscribers, publishers, events and processes.  Each part has an        *)
(* inductive invariant over its own variables; a step of another part      *)
(* leaves them alone.                                                      *)
(***************************************************************************)
EXTENDS MCRuntime, Sequences, SequenceTheorems, TLAPS

-----------------------------------------------------------------------------
(* A Worker that is ended by Stop alone can be restarted any number of     *)
(* times, with any number of Stops overlapping its Runs.                   *)

\* Run works on the current channels, and its stopped channel is still open.
ChannelInv ==
    /\ stoppedClosed \subseteq stopClosed
    /\ \A g \in stopClosed : g <= gen
    /\ rpc # "off" => rgen = gen /\ gen \notin stoppedClosed
    /\ rpc \in {"leaving", "closing"} => gen \in stopClosed

\* A Stop that waits for the Run in the loop waits on that Run's channel.
WaitInv ==
    \A s \in Stoppers :
        /\ target[s] <= runs
        /\ spc[s] = "waiting" /\ target[s] = runs /\ rpc = "loop" => sgen[s] = gen

LifeInv == TypeOK /\ ChannelInv /\ WaitInv /\ NoDoubleClose /\ StopBlocks

\* Without cancelled contexts every step of Run and Stop preserves LifeInv: a Run
\* leaves only through a closed stop channel, so the next one gets new channels.
LEMMA LifecycleStep ==
    ASSUME CancelAllowed = FALSE
    PROVE  LifeInv /\ [Next]_vars => LifeInv'
<1> SUFFICES ASSUME LifeInv, [Next]_vars PROVE LifeInv'
  OBVIOUS
<1> USE BoundsAssumption
        DEF LifeInv, TypeOK, ChannelInv, WaitInv, NoDoubleClose, StopBlocks, lvars
<1>1. CASE RunEnter
  BY <1>1 DEF RunEnter, startGen
<1>2. CASE RunLeave
  BY <1>2 DEF RunLeave
<1>3. CASE RunUnmark
  BY <1>3 DEF RunUnmark
<1>4. CASE RunReturn
  BY <1>4 DEF RunReturn
<1>5. ASSUME NEW s \in Stoppers, StopSignal(s) PROVE LifeInv'
  BY <1>5 DEF StopSignal, stopWaits
<1>6. ASSUME NEW s \in Stoppers, StopWake(s) PROVE LifeInv'
  BY <1>6 DEF StopWake
<1>7. ASSUME NEW s \in Stoppers, StopAgain(s) PROVE LifeInv'
  BY <1>7 DEF StopAgain
<1>8. CASE UNCHANGED vars
  BY <1>8 DEF vars
<1> QED
  BY <1>1, <1>2, <1>3, <1>4, <1>5, <1>6, <1>7, <1>8 DEF Next

-----------------------------------------------------------------------------
(* The scheduler.                                                          *)

SchType ==
    /\ busy \in [Tasks -> BOOLEAN]
    /\ flight \in [Tasks -> [Runs -> Nat]]
    /\ schPc \in [Runs -> {"idle", "loop", "drain"}]
    /\ myStop \in [Runs -> Nat]
    /\ stopCh \in Nat /\ closedCh \subseteq Nat

\* task.running covers the whole of an execution, and no channel is closed before
\* it is made.
SchInv ==
    /\ SchType
    /\ \A t \in Tasks : ~busy[t] => \A r \in Runs : flight[t][r] = 0
    /\ \A c \in closedCh : c <= stopCh
    /\ D!NoOverlap /\ D!Drained

\* A new Runner satisfies SchInv.
LEMMA SchedulerInit == MCInit => SchInv
BY DEF MCInit, D!Init, SchInv, SchType, D!NoOverlap, D!Drained

\* Every step of Run, dispatch, fire, Stop and the clock preserves SchInv.
LEMMA SchedulerStep == SchInv /\ [D!Next]_schVars => SchInv'
<1> SUFFICES ASSUME SchInv, [D!Next]_schVars PROVE SchInv'
  OBVIOUS
<1> USE DEF SchInv, SchType, D!NoOverlap, D!Drained
<1>1. CASE D!Stop
  BY <1>1 DEF D!Stop
<1>2. CASE D!Tick
  BY <1>2 DEF D!Tick
<1>3. ASSUME NEW r \in Runs, D!Run(r) PROVE SchInv'
  BY <1>3 DEF D!Run, D!freshStop
<1>4. ASSUME NEW r \in Runs, D!cancelCtx(r) PROVE SchInv'
  BY <1>4 DEF D!cancelCtx
<1>5. ASSUME NEW r \in Runs, D!leaveLoop(r) PROVE SchInv'
  BY <1>5 DEF D!leaveLoop
<1>6. ASSUME NEW r \in Runs, D!RunReturns(r) PROVE SchInv'
  BY <1>6 DEF D!RunReturns, D!drained, D!wg
<1>7. ASSUME NEW t \in Tasks, D!fire(t) PROVE SchInv'
  BY <1>7 DEF D!fire, D!wg
<1>8. ASSUME NEW t \in Tasks, NEW r \in Runs, D!dispatch(r, t) PROVE SchInv'
  BY <1>8 DEF D!dispatch, D!mayFire
<1>9. CASE UNCHANGED schVars
  BY <1>9 DEF schVars
<1> QED
  BY <1>1, <1>2, <1>3, <1>4, <1>5, <1>6, <1>7, <1>8, <1>9 DEF D!Next

-----------------------------------------------------------------------------
(* The in-memory broadcaster.                                              *)

Event == [from : Publishers \cup {"none"}, n : Nat, gone : SUBSET Subs]

BcType ==
    /\ subs \subseteq Subs /\ closing \subseteq Subs /\ bClosed \in BOOLEAN
    /\ cancel \in [Subs -> {"no", "removed", "done"}]
    /\ runner \in [Subs -> {"off", "run", "ended"}]
    /\ ch \in [Subs -> Seq(Event)] /\ got \in [Subs -> Seq(Event)]
    /\ pub \in [Publishers -> [todo : SUBSET Subs, ev : Event]]
    /\ count \in [Publishers -> Nat]

\* Who may still be sent an event had not been cancelled when it was published:
\* in a publisher's copy of the list, in a channel and in a handler.
NotGone ==
    /\ \A p \in Publishers : pub[p].todo \cap pub[p].ev.gone = {}
    /\ \A s \in Subs : \A i \in DOMAIN ch[s] : s \notin ch[s][i].gone
    /\ B!NoLateEvent

BcInv ==
    /\ BcType /\ NotGone /\ B!TableIsLive
    /\ \A s \in Subs : runner[s] = "off" => cancel[s] = "no"
    /\ \A s \in closing : bClosed /\ runner[s] # "off"

\* Every step of publishers, subscribers, Cancel and Close preserves BcInv.
LEMMA BroadcastStep == BcInv /\ [B!Next]_bcVars => BcInv'
<1> SUFFICES ASSUME BcInv, [B!Next]_bcVars PROVE BcInv'
  OBVIOUS
<1> USE DEF BcInv, BcType, NotGone, Event, B!NoLateEvent, B!TableIsLive
<1>1. ASSUME NEW p \in Publishers, NEW c, B!Publish(p, c) PROVE BcInv'
  <2> DEFINE gone == {s \in Subs : cancel[s] = "done"}
             ev == [from |-> p, n |-> count[p] + 1, gone |-> gone]
             next == [todo |-> {s \in subs : ([t \in Subs |-> "orders"])[s] = c}, ev |-> ev]
  <2>1. count' = [count EXCEPT ![p] = @ + 1] /\ pub' = [pub EXCEPT ![p] = next] /\ ~bClosed
        /\ UNCHANGED <<subs, bClosed, closing, cancel, runner, ch, got, dropped>>
    BY <1>1 DEF B!Publish
  <2>2. ev \in Event /\ next.todo \subseteq subs /\ next.ev = ev /\ ev.gone = gone
        /\ next \in [todo : SUBSET Subs, ev : Event]
    OBVIOUS
  <2>3. next.todo \cap next.ev.gone = {}
    BY <2>1, <2>2
  <2> HIDE DEF gone, ev, next
  <2>4. BcType'
    <3>1. pub' \in [Publishers -> [todo : SUBSET Subs, ev : Event]]
      <4> HIDE DEF Event
      <4> QED
        BY <2>1, <2>2
    <3>2. count' \in [Publishers -> Nat]
      BY <2>1
    <3> QED
      BY <2>1, <3>1, <3>2
  <2>5. \A q \in Publishers : pub'[q].todo \cap pub'[q].ev.gone = {}
    BY <2>1, <2>3
  <2> QED
    BY <2>1, <2>4, <2>5
<1>2. ASSUME NEW p \in Publishers, NEW s \in Subs, B!send(p, s) PROVE BcInv'
  <2>1. /\ pub[p].ev \in Event /\ s \notin pub[p].ev.gone
        /\ pub' = [pub EXCEPT ![p].todo = @ \ {s}]
        /\ ch' = ch \/ ch' = [ch EXCEPT ![s] = Append(@, pub[p].ev)]
        /\ UNCHANGED <<subs, bClosed, closing, cancel, runner, count, got>>
    BY <1>2 DEF B!send
  <2>2. /\ pub' \in [Publishers -> [todo : SUBSET Subs, ev : Event]]
        /\ \A q \in Publishers : pub'[q].ev = pub[q].ev /\ pub'[q].todo \subseteq pub[q].todo
    <3> HIDE DEF Event
    <3>1. pub[p] \in [todo : SUBSET Subs, ev : Event]
      OBVIOUS
    <3>2. [pub[p] EXCEPT !.todo = @ \ {s}] \in [todo : SUBSET Subs, ev : Event]
      BY <3>1
    <3> QED
      BY <2>1, <3>1, <3>2
  <2>3. ch' \in [Subs -> Seq(Event)]
    <3> HIDE DEF Event
    <3>1. Append(ch[s], pub[p].ev) \in Seq(Event)
      BY <2>1
    <3> QED
      BY <2>1, <3>1
  <2>4. ASSUME NEW u \in Subs, NEW i \in DOMAIN ch'[u] PROVE u \notin ch'[u][i].gone
    <3>1. CASE ch' = [ch EXCEPT ![s] = Append(@, pub[p].ev)] /\ u = s
      <4>1. ch[s] \in Seq(Event) /\ ch'[s] = Append(ch[s], pub[p].ev)
        BY <3>1
      <4> HIDE DEF Event
      <4>2. i \in 1..Len(ch[s]) + 1 /\ (i <= Len(ch[s]) => ch'[s][i] = ch[s][i])
            /\ (i = Len(ch[s]) + 1 => ch'[s][i] = pub[p].ev)
        BY <2>4, <3>1, <4>1
      <4> QED
        BY <2>1, <3>1, <4>1, <4>2
    <3> QED
      BY <2>1, <2>4, <3>1
  <2> QED
    BY <2>1, <2>2, <2>3, <2>4
<1>3. ASSUME NEW s \in Subs, B!Subscribe(s) PROVE BcInv'
  BY <1>3, ZenonT(30) DEF B!Subscribe, B!mayJoin
<1>4. ASSUME NEW s \in Subs, B!Cancel(s) PROVE BcInv'
  BY <1>4 DEF B!Cancel, B!removeFromTable
<1>5. ASSUME NEW s \in Subs, B!closeDone(s) PROVE BcInv'
  BY <1>5 DEF B!closeDone
<1>6. ASSUME NEW s \in Subs, B!closeCancels(s) PROVE BcInv'
  BY <1>6 DEF B!closeCancels
<1>7. ASSUME NEW s \in Subs, B!runEnds(s) PROVE BcInv'
  BY <1>7 DEF B!runEnds
<1>8. ASSUME NEW s \in Subs, B!handle(s) PROVE BcInv'
  <2>1. /\ ch[s] \in Seq(Event) /\ ch[s] # <<>> /\ got[s] \in Seq(Event)
        /\ got' = [got EXCEPT ![s] = Append(@, Head(ch[s]))]
        /\ ch' = [ch EXCEPT ![s] = Tail(@)]
        /\ UNCHANGED <<subs, bClosed, closing, cancel, runner, pub, count>>
    BY <1>8 DEF B!handle
  <2> HIDE DEF Event
  <2>2. /\ Head(ch[s]) = ch[s][1] /\ 1 \in DOMAIN ch[s] /\ Head(ch[s]) \in Event /\ Tail(ch[s]) \in Seq(Event)
        /\ \A i \in DOMAIN Tail(ch[s]) : i + 1 \in DOMAIN ch[s] /\ Tail(ch[s])[i] = ch[s][i + 1]
    BY <2>1
  <2>3. /\ Append(got[s], Head(ch[s])) \in Seq(Event)
        /\ \A i \in DOMAIN Append(got[s], Head(ch[s])) :
              \/ i \in DOMAIN got[s] /\ Append(got[s], Head(ch[s]))[i] = got[s][i]
              \/ Append(got[s], Head(ch[s]))[i] = ch[s][1]
    BY <2>1, <2>2
  <2>4. BcType'
    BY <2>1, <2>2, <2>3
  <2>5. NotGone'
    BY <2>1, <2>2, <2>3
  <2> QED
    BY <2>1, <2>4, <2>5
<1>9. CASE B!Close
  BY <1>9 DEF B!Close
<1>10. CASE UNCHANGED bcVars
  BY <1>10 DEF bcVars
<1> QED
  BY <1>1, <1>2, <1>3, <1>4, <1>5, <1>6, <1>7, <1>8, <1>9, <1>10 DEF B!Next

-----------------------------------------------------------------------------
(* The Redis broadcaster.                                                  *)

RbType ==
    /\ subPc \in [Subs -> {"new", "waiting", "refused", "confirmed", "run", "leaving", "done", "panicked"}]
    /\ listening \subseteq Subs /\ sent \in Nat
    /\ inbox \in [Subs -> Seq(Nat)] /\ seen \in [Subs -> Seq(Nat)]

\* What a subscription has been given and what waits for it are gapless up to the
\* last event.
Gapless(s) ==
    /\ \A i \in 1..Len(seen[s]) : seen[s][i] = sent - Len(inbox[s]) - Len(seen[s]) + i
    /\ \A i \in 1..Len(inbox[s]) : inbox[s][i] = sent - Len(inbox[s]) + i

RbInv ==
    /\ RbType /\ R!NoLeakedConnection
    /\ \A s \in Subs : subPc[s] \in {"confirmed", "run"} => s \in listening /\ Gapless(s)
    /\ \A s \in Subs : subPc[s] \in {"new", "waiting"} => seen[s] = <<>> /\ inbox[s] = <<>>

\* A live subscription gives its connection and what it holds away.
LEMMA LeaveStep ==
    ASSUME RbInv, NEW s \in Subs, subPc[s] = "run",
           listening' = listening \ {s}, subPc' = [subPc EXCEPT ![s] = "leaving"],
           inbox' = [inbox EXCEPT ![s] = <<>>], UNCHANGED <<sent, seen>>
    PROVE  RbInv'
<1> USE DEF RbInv, RbType
<1>1. RbType'
  OBVIOUS
<1>2. \A u \in Subs : u # s => subPc'[u] = subPc[u] /\ inbox'[u] = inbox[u] /\ (Gapless(u) => Gapless(u)')
  BY DEF Gapless
<1> QED
  BY <1>1, <1>2 DEF R!NoLeakedConnection

\* Every step of Publish, Subscribe, Cancel and Close preserves RbInv.
LEMMA RedisStep == RbInv /\ [R!Next]_rbVars => RbInv'
<1> SUFFICES ASSUME RbInv, [R!Next]_rbVars PROVE RbInv'
  OBVIOUS
<1> USE DEF RbInv, RbType, Gapless, R!NoLeakedConnection
<1>1. CASE R!Publish
  <2>1. ASSUME NEW s \in Subs
        PROVE  /\ inbox'[s] \in Seq(Nat)
               /\ s \notin listening => inbox'[s] = inbox[s]
               /\ s \in listening => /\ Len(inbox'[s]) = Len(inbox[s]) + 1
                                     /\ \A i \in 1..Len(inbox[s]) : inbox'[s][i] = inbox[s][i]
                                     /\ inbox'[s][Len(inbox[s]) + 1] = sent + 1
    BY <1>1 DEF R!Publish
  <2>2. RbType' /\ sent' = sent + 1 /\ UNCHANGED <<subPc, listening, seen>>
    BY <1>1, <2>1 DEF R!Publish
  <2>3. ASSUME NEW s \in Subs, s \in listening, Gapless(s) PROVE Gapless(s)'
    <3>1. Len(inbox[s]) \in Nat /\ Len(seen[s]) \in Nat
      BY DEF RbInv, RbType
    <3>2. sent' - Len(inbox'[s]) = sent - Len(inbox[s]) /\ sent \in Nat
      <4>1. sent \in Nat /\ sent' = sent + 1 /\ Len(inbox'[s]) = Len(inbox[s]) + 1
        BY <2>1, <2>2, <2>3
      <4> HIDE DEF RbInv, RbType, Gapless, R!NoLeakedConnection
      <4> QED
        BY <3>1, <4>1
    <3>3. ASSUME NEW i \in 1..Len(inbox'[s]) PROVE inbox'[s][i] = sent' - Len(inbox'[s]) + i
      <4>1. CASE i \in 1..Len(inbox[s])
        BY <2>1, <2>3, <3>1, <3>2, <4>1
      <4>2. CASE i = Len(inbox[s]) + 1
        BY <2>1, <2>3, <3>1, <3>2, <4>2
      <4> QED
        BY <2>1, <2>3, <3>1, <4>1, <4>2
    <3> QED
      BY <2>2, <2>3, <3>1, <3>2, <3>3
  <2> QED
    BY <2>1, <2>2, <2>3
<1>2. CASE R!Close
  BY <1>2 DEF R!Close
<1>3. ASSUME NEW s \in Subs, R!subscribeCheck(s) PROVE RbInv'
  BY <1>3 DEF R!subscribeCheck
<1>4. ASSUME NEW s \in Subs, R!receive(s) PROVE RbInv'
  <2>1. subPc[s] = "waiting" /\ UNCHANGED <<inbox, sent, seen>>
    BY <1>4 DEF R!receive
  <2>2. Gapless(s)'
    BY <2>1
  <2> QED
    <3>1. \A u \in Subs : Gapless(u) => Gapless(u)'
      BY <2>1
    <3> HIDE DEF Gapless
    <3> QED
      BY <1>4, <2>1, <2>2, <3>1 DEF R!receive
<1>5. ASSUME NEW s \in Subs, R!register(s) PROVE RbInv'
  BY <1>5, ZenonT(30) DEF R!register
<1>6. ASSUME NEW s \in Subs, R!Cancel(s) PROVE RbInv'
  BY <1>6, LeaveStep DEF R!Cancel, R!closePubSub
<1>7. ASSUME NEW s \in Subs, R!leave(s) PROVE RbInv'
  BY <1>7 DEF R!leave
<1>8. ASSUME NEW s \in Subs, R!closeCancels(s) PROVE RbInv'
  <2>1. CASE subPc[s] = "run"
    BY <1>8, <2>1, LeaveStep DEF R!closeCancels, R!closePubSub
  <2>2. CASE subPc[s] # "run"
    BY <1>8, <2>2 DEF R!closeCancels
  <2> QED
    BY <2>1, <2>2
<1>9. ASSUME NEW s \in Subs, R!handle(s) PROVE RbInv'
  <2>1. /\ subPc[s] = "run" /\ inbox[s] \in Seq(Nat) /\ inbox[s] # <<>> /\ seen[s] \in Seq(Nat)
        /\ seen' = [seen EXCEPT ![s] = Append(@, Head(inbox[s]))]
        /\ inbox' = [inbox EXCEPT ![s] = Tail(@)]
        /\ UNCHANGED <<subPc, listening, sent>>
    BY <1>9 DEF R!handle
  <2>2. /\ inbox'[s] \in Seq(Nat) /\ Len(inbox'[s]) = Len(inbox[s]) - 1
        /\ \A i \in 1..Len(inbox'[s]) : inbox'[s][i] = inbox[s][i + 1]
        /\ Head(inbox[s]) = inbox[s][1] /\ Head(inbox[s]) \in Nat
    BY <2>1
  <2>3. /\ seen'[s] \in Seq(Nat) /\ Len(seen'[s]) = Len(seen[s]) + 1
        /\ \A i \in 1..Len(seen[s]) : seen'[s][i] = seen[s][i]
        /\ seen'[s][Len(seen[s]) + 1] = inbox[s][1]
    BY <2>1, <2>2
  <2>4. Gapless(s)'
    BY <2>1, <2>2, <2>3, SMTT(30)
  <2>5. RbType'
    BY <2>1, <2>2, <2>3
  <2>6. \A u \in Subs : u # s => (Gapless(u) => Gapless(u)')
    BY <2>1
  <2> HIDE DEF Gapless
  <2> QED
    BY <2>1, <2>4, <2>5, <2>6
<1>10. CASE UNCHANGED rbVars
  BY <1>10 DEF rbVars
<1> QED
  BY <1>1, <1>2, <1>3, <1>4, <1>5, <1>6, <1>7, <1>8, <1>9, <1>10 DEF R!Next

-----------------------------------------------------------------------------
(* The calendar.                                                           *)

\* Units nest: what falls into the same small unit falls into the same large one.
LEMMA UnitsNest ==
    ASSUME NEW a \in Nat \ {0}, NEW b \in Nat \ {0}, NEW t \in Nat
    PROVE  t \div (a * b) = (t \div a) \div b
<1> DEFINE p == t \div a
           q == (t \div a) \div b
<1>1. p \in Nat /\ a * p <= t /\ t < a * p + a
  OBVIOUS
<1>2. q \in Nat /\ b * q <= p /\ p < b * q + b
  BY <1>1
<1> HIDE DEF p, q
<1>3. (a * b) * q <= t /\ t < (a * b) * q + a * b
  <2>1. a * (b * q) <= a * p
    BY <1>1, <1>2
  <2>2. p + 1 <= b * q + b
    BY <1>1, <1>2
  <2>3. a * (p + 1) <= a * (b * q + b)
    BY <1>1, <1>2, <2>2
  <2> QED
    BY <1>1, <1>2, <2>1, <2>3
<1>4. a * b \in Nat \ {0}
  OBVIOUS
<1>5. t \div (a * b) = q
  BY <1>2, <1>3, <1>4
<1> QED
  BY <1>5 DEF p, q

\* Two instants of one minute are in one hour, and two of one hour in one day.
LEMMA SameSpan ==
    ASSUME NEW t \in Nat, NEW u \in Nat
    PROVE  /\ t \div Minute = u \div Minute => t \div (Minute * Hour) = u \div (Minute * Hour)
           /\ t \div (Minute * Hour) = u \div (Minute * Hour) => D!dayIndex(t) = D!dayIndex(u)
<1>1. Minute \in Nat \ {0} /\ Hour \in Nat \ {0} /\ Day \in Nat \ {0} /\ Minute * Hour \in Nat \ {0}
  BY CalendarAssumption
<1>2. \A v \in Nat : v \div (Minute * Hour) = (v \div Minute) \div Hour
  BY <1>1, UnitsNest
<1>3. \A v \in Nat : D!dayIndex(v) = (v \div (Minute * Hour)) \div Day
  BY <1>1, UnitsNest DEF D!dayIndex
<1> QED
  BY <1>2, <1>3

CalInv ==
    /\ instant \in Nat /\ lastRun \in Nat
    /\ part = "calendar" => rule \in D!Rules

\* A tick and the end of a run keep the instants natural and the rule as it is.
LEMMA CalendarStep == CalInv /\ [MCNext]_mcVars => CalInv'
<1> SUFFICES ASSUME CalInv, [MCNext]_mcVars PROVE CalInv'
  OBVIOUS
<1>1. CASE UNCHANGED <<part, rule, instant, lastRun>>
  BY <1>1 DEF CalInv
<1>2. CASE InCalendar /\ D!CalendarNext
  BY <1>2, CalendarAssumption DEF CalInv, InCalendar, D!CalendarNext, D!dispatchAt, D!fireReturns
<1> QED
  BY <1>1, <1>2 DEF MCNext, mcVars, calVars, InWorker, InScheduler, InMemory, InRedis, InStats, InProcess

\* A rule that is due at t is due in a span of its own.
LEMMA DueInNewSpan ==
    ASSUME NEW prev \in Nat, NEW t \in Nat, rule \in D!Rules, rule # "every", D!DueAt(prev, t)
    PROVE  D!Span(t) # D!Span(prev)
<1> SUFFICES ASSUME D!Span(t) = D!Span(prev) PROVE FALSE
  OBVIOUS
<1>1. D!dayIndex(t) = D!dayIndex(prev) /\ t \div (Minute * Hour) = prev \div (Minute * Hour)
  BY SameSpan DEF D!Span
<1>2. /\ D!hourOf(t) = D!hourOf(prev) /\ D!dayOf(t) = D!dayOf(prev) /\ D!monthOf(t) = D!monthOf(prev)
  BY <1>1 DEF D!hourOf, D!dayOf, D!monthOf
<1>3. rule # "hourly" => D!minuteOf(t) = D!minuteOf(prev)
  BY DEF D!Span, D!minuteOf
<1> QED
  BY <1>2, <1>3 DEF D!Rules, D!DueAt, D!hourly, D!dailyAt, D!weekly, D!monthly

-----------------------------------------------------------------------------
(* The rolling window of the statistics.                                   *)

\* Seconds of one window have slots of their own.
LEMMA SlotsApart ==
    ASSUME NEW w \in Nat \ {0}, NEW n \in Nat, NEW s \in Nat, n - w < s, s <= n, s % w = n % w
    PROVE  s = n
<1> DEFINE p == n \div w
           q == s \div w
           r == n % w
<1>1. p \in Int /\ q \in Int /\ r \in Int /\ n = w * p + r /\ s = w * q + r
  OBVIOUS
<1> HIDE DEF p, q, r
<1>2. w * (p - q) = n - s
  BY <1>1
<1>3. w * (p - q) >= 0 /\ w * (p - q) < w
  BY <1>2
<1>4. p - q = 0
  <2> DEFINE d == p - q
  <2>1. d \in Int /\ w * d >= 0 /\ w * d < w * 1
    BY <1>1, <1>3
  <2> HIDE DEF d
  <2>2. d < 1 /\ d > -1
    BY <2>1
  <2>3. d = 0
    BY <2>1, <2>2
  <2> QED
    BY <2>3 DEF d
<1> QED
  BY <1>2, <1>4

\* The slot of a second of the window holds what was processed in that second or is
\* left from an earlier lap, and a slot that counts belongs to its second.
RingExact ==
    /\ \A s \in now - windowSize + 1..now :
          log[s] = IF epoch[s % windowSize] = s THEN buckets[s % windowSize] ELSE 0
    /\ \A slot \in Q!Slots : Q!inWindow(slot) => epoch[slot] % windowSize = slot

RingInv ==
    /\ now \in windowSize..windowSize + MaxSeconds
    /\ buckets \in [Q!Slots -> Nat] /\ epoch \in [Q!Slots -> Nat]
    /\ log \in [0..windowSize + MaxSeconds -> Nat]
    /\ \A slot \in Q!Slots : epoch[slot] <= now
    /\ \A slot \in Q!Slots : epoch[slot] = 0 \/ epoch[slot] % windowSize = slot
    /\ \A s \in now + 1..windowSize + MaxSeconds : log[s] = 0
    /\ RingExact

\* Jobs processed and seconds that pass preserve RingInv.
LEMMA RingStep == RingInv /\ [Q!Next]_qsVars => RingInv'
<1> SUFFICES ASSUME RingInv, [Q!Next]_qsVars PROVE RingInv'
  OBVIOUS
<1> USE WindowAssumption
<1>1. \A s \in Nat : s % windowSize \in Q!Slots
  BY DEF Q!Slots
<1>5. now \in Nat /\ windowSize <= now /\ now <= windowSize + MaxSeconds
  BY DEF RingInv
<1>2. CASE Q!OnProcessed
  <2> DEFINE slot == now % windowSize
  <2>1. /\ now \in Nat /\ slot \in Q!Slots /\ now' = now
        /\ buckets' = [buckets EXCEPT ![slot] = Q!slotCount(slot) + 1]
        /\ epoch' = [epoch EXCEPT ![slot] = now]
        /\ log' = [log EXCEPT ![now] = @ + 1]
    <3>1. slot \in Q!Slots
      BY <1>5, <1>1
    <3> QED
      BY <1>5, <1>2, <3>1 DEF Q!OnProcessed
  <2> HIDE DEF slot
  <2>2. Q!slotCount(slot) \in Nat /\ log[now] = Q!slotCount(slot)
    BY <2>1 DEF Q!slotCount, RingInv, RingExact, slot
  <2>3. /\ buckets' \in [Q!Slots -> Nat] /\ epoch' \in [Q!Slots -> Nat]
        /\ log' \in [0..windowSize + MaxSeconds -> Nat]
    BY <2>1, <2>2 DEF RingInv
  <2>4. ASSUME NEW s \in now - windowSize + 1..now
        PROVE  log'[s] = IF epoch'[s % windowSize] = s THEN buckets'[s % windowSize] ELSE 0
    <3>1. s \in 0..windowSize + MaxSeconds /\ s \in Nat /\ s % windowSize \in Q!Slots
      <4>1. s \in 0..windowSize + MaxSeconds
        BY <1>5
      <4> QED
        BY <1>1, <4>1
    <3>2. CASE s = now
      BY <2>1, <2>2, <3>1, <3>2 DEF RingInv, slot
    <3>3. CASE s # now
      <4>1. s % windowSize # slot
        <5>1. now - windowSize < s /\ s <= now
          BY <1>5
        <5> QED
          BY <1>5, <3>1, <3>3, <5>1, SlotsApart DEF slot
      <4>2. log'[s] = log[s] /\ epoch'[s % windowSize] = epoch[s % windowSize]
            /\ buckets'[s % windowSize] = buckets[s % windowSize]
        BY <2>1, <3>1, <3>3, <4>1 DEF RingInv
      <4> QED
        BY <4>2, <2>4 DEF RingInv, RingExact
    <3> QED
      BY <3>2, <3>3
  <2>5. \A u \in Q!Slots : epoch'[u] <= now /\ (epoch'[u] = 0 \/ epoch'[u] % windowSize = u)
    BY <2>1 DEF RingInv, slot
  <2>6. \A u \in Q!Slots : Q!inWindow(u)' => epoch'[u] % windowSize = u
    BY <2>1, <2>3, <2>5 DEF RingInv, Q!inWindow
  <2>7. \A s \in now + 1..windowSize + MaxSeconds : log'[s] = 0
    BY <2>1 DEF RingInv
  <2> QED
    BY <2>1, <2>3, <2>4, <2>5, <2>6, <2>7 DEF RingInv, RingExact
<1>3. CASE Q!Second
  <2>1. now \in Nat /\ now' = now + 1 /\ now < windowSize + MaxSeconds /\ UNCHANGED <<buckets, epoch, log>>
    BY <1>3 DEF Q!Second, RingInv
  <2>2. ASSUME NEW s \in now - windowSize + 2..now + 1
        PROVE  log[s] = IF epoch[s % windowSize] = s THEN buckets[s % windowSize] ELSE 0
    <3>1. CASE s = now + 1
      <4>1. s \in Nat /\ s \in now + 1..windowSize + MaxSeconds
        BY <1>5, <2>1, <3>1
      <4>2. log[s] = 0 /\ epoch[s % windowSize] <= now /\ epoch[s % windowSize] \in Nat
        BY <1>1, <4>1 DEF RingInv
      <4> QED
        BY <1>5, <3>1, <4>2
    <3>2. CASE s # now + 1
      <4>1. s \in now - windowSize + 1..now
        BY <1>5, <3>2
      <4> QED
        BY <4>1 DEF RingInv, RingExact
    <3> QED
      BY <3>1, <3>2
  <2>3. \A u \in Q!Slots : Q!inWindow(u)' => epoch[u] % windowSize = u
    BY <2>1 DEF RingInv, Q!inWindow
  <2>4. /\ now' \in windowSize..windowSize + MaxSeconds
        /\ now' + 1..windowSize + MaxSeconds \subseteq now + 1..windowSize + MaxSeconds
        /\ now' - windowSize + 1..now' = now - windowSize + 2..now + 1
        /\ \A u \in Q!Slots : epoch[u] <= now'
    BY <1>5, <2>1 DEF RingInv
  <2>5. RingExact'
    BY <2>1, <2>2, <2>3, <2>4 DEF RingExact
  <2> QED
    BY <2>1, <2>4, <2>5 DEF RingInv
<1>4. CASE UNCHANGED <<now, buckets, epoch, log>>
  BY <1>4 DEF RingInv, RingExact, Q!inWindow
<1> QED
  BY <1>2, <1>3, <1>4 DEF Q!Next, qsVars, Q!OnPushed, Q!OnFailed, Q!Start, Q!sample, Q!loopEnds, Q!Stop,
                          Q!StopStep, Q!closeStop, Q!stopDone

-----------------------------------------------------------------------------
(* External commands.                                                      *)

\* Every step of a command, its children and its cancellation keeps a killed group empty.
LEMMA ProcessStep == GroupGone /\ [X!Next]_exVars => GroupGone'
<1> SUFFICES ASSUME GroupGone, [X!Next]_exVars PROVE GroupGone'
  OBVIOUS
<1> QED
  BY DEF GroupGone, X!GroupGone, exVars, X!Next, X!Run, X!Exits, X!Wait, X!WaitDelay, X!Returns, X!Cancel,
         X!killProcessTree, X!Spawn, X!Leaves, X!Ends

-----------------------------------------------------------------------------
(* The parts together.                                                     *)

\* A step of MCRuntime is a step of each part, or leaves it alone.
LEMMA PartSteps ==
    [MCNext]_mcVars => /\ [Next]_vars /\ [D!Next]_schVars /\ [D!CalendarNext]_calVars
                       /\ [B!Next]_bcVars /\ [R!Next]_rbVars
                       /\ [Q!Next]_qsVars /\ [X!Next]_exVars
BY DEF MCNext, mcVars, InWorker, InScheduler, InCalendar, InMemory, InRedis, InStats, InProcess

\* No channel is closed twice, and a Stop returns only after the Run it was
\* called on has left its loop.
THEOREM RestartSafe ==
    ASSUME CancelAllowed = FALSE
    PROVE  MCSpec => []RestartSound
<1>1. MCInit => LifeInv
  <2> SUFFICES ASSUME Init PROVE LifeInv
    BY DEF MCInit
  <2>1. running \in BOOLEAN /\ (running <=> rpc \in {"loop", "leaving"})
    BY Zenon DEF Init
  <2>2. TypeOK
    BY <2>1, BoundsAssumption DEF Init, TypeOK
  <2> QED
    BY <2>2 DEF Init, LifeInv, ChannelInv, WaitInv, NoDoubleClose, StopBlocks
<1>2. LifeInv => RestartSound
  BY DEF LifeInv, RestartSound
<1>3. LifeInv /\ [Next]_vars => LifeInv'
  BY LifecycleStep
<1> QED
  BY <1>1, <1>2, <1>3, PartSteps, PTL DEF MCSpec

\* However many Runs share the Runner, restart and drain: no task overlaps itself and
\* a Run returns only after the tasks it fired.
THEOREM TasksNeverOverlap == MCSpec => []TasksOnTime
<1>1. MCInit => SchInv
  BY SchedulerInit
<1>2. SchInv => TasksOnTime
  BY DEF SchInv, TasksOnTime
<1> QED
  BY <1>1, <1>2, PartSteps, SchedulerStep, PTL DEF MCSpec

\* Whatever publishers, subscribers, Cancel and Close do in between: no event after
\* Cancel, a table of the live subscriptions, nothing missed, no connection leaked.
THEOREM SubscribersSafe == MCSpec => []SubscribersServed
<1>1. MCInit => BcInv
  <2> SUFFICES ASSUME B!Init PROVE BcInv
    BY DEF MCInit
  <2>1. B!NoEvent \in [todo : SUBSET Subs, ev : Event] /\ B!NoEvent.todo = {}
    BY DEF B!NoEvent, Event
  <2>2. /\ subs = {} /\ bClosed = FALSE /\ closing = {} /\ count = [p \in Publishers |-> 0]
        /\ pub = [p \in Publishers |-> B!NoEvent]
        /\ ch = [s \in Subs |-> <<>>] /\ got = [s \in Subs |-> <<>>]
        /\ cancel = [s \in Subs |-> "no"] /\ runner = [s \in Subs |-> "off"]
    BY DEF B!Init
  <2>3. BcType
    <3>1. <<>> \in Seq(Event)
      OBVIOUS
    <3>2. bClosed \in BOOLEAN
      BY <2>2, Zenon
    <3>3. pub \in [Publishers -> [todo : SUBSET Subs, ev : Event]]
      BY <2>1, <2>2, Zenon
    <3> QED
      BY <2>2, <3>1, <3>2, <3>3 DEF BcType
  <2>4. NotGone
    BY <2>1, <2>2 DEF NotGone, B!NoLateEvent
  <2> QED
    BY <2>2, <2>3, <2>4 DEF BcInv, B!TableIsLive
<1>2. MCInit => RbInv
  BY DEF MCInit, R!Init, RbInv, RbType, R!NoLeakedConnection
<1>3. BcInv /\ RbInv => SubscribersServed
  <2> SUFFICES ASSUME BcInv, RbInv PROVE R!NothingMissed
    BY DEF SubscribersServed, BcInv, NotGone, RbInv
  <2> SUFFICES ASSUME NEW s \in Subs, subPc[s] = "run",
                      NEW i \in DOMAIN (seen[s] \o inbox[s])
               PROVE  (seen[s] \o inbox[s])[i] = sent - Len(seen[s] \o inbox[s]) + i
    BY DEF R!NothingMissed, RbInv
  <2> DEFINE a == seen[s]
             b == inbox[s]
  <2>1. a \in Seq(Nat) /\ b \in Seq(Nat) /\ sent \in Nat
    BY DEF RbInv, RbType
  <2>2. /\ \A j \in 1..Len(a) : a[j] = sent - Len(b) - Len(a) + j
        /\ \A j \in 1..Len(b) : b[j] = sent - Len(b) + j
    BY DEF RbInv, Gapless
  <2> SUFFICES (a \o b)[i] = sent - Len(a \o b) + i
    OBVIOUS
  <2>3. i \in DOMAIN (a \o b)
    OBVIOUS
  <2> HIDE DEF a, b
  <2>4. /\ Len(a) \in Nat /\ Len(b) \in Nat /\ Len(a \o b) = Len(a) + Len(b)
        /\ DOMAIN (a \o b) = 1..Len(a \o b)
        /\ \A j \in 1..Len(a) + Len(b) : (a \o b)[j] = IF j <= Len(a) THEN a[j] ELSE b[j - Len(a)]
    BY <2>1, ConcatProperties
  <2>5. CASE i \in 1..Len(a)
    BY <2>1, <2>2, <2>4, <2>5
  <2>6. CASE i - Len(a) \in 1..Len(b) /\ i \in 1..Len(a) + Len(b) /\ i > Len(a)
    BY <2>1, <2>2, <2>4, <2>6
  <2> QED
    BY <2>3, <2>4, <2>5, <2>6
<1> QED
  BY <1>1, <1>2, <1>3, PartSteps, BroadcastStep, RedisStep, PTL DEF MCSpec

\* A command that was cancelled leaves nobody of its process group behind, whoever
\* its children are and whatever they do.
THEOREM KilledGroupIsGone == MCSpec => []GroupGone
<1>1. MCInit => GroupGone
  BY DEF MCInit, X!Init, GroupGone, X!GroupGone
<1> QED
  BY <1>1, PartSteps, ProcessStep, PTL DEF MCSpec

\* A Run that begins has a stop channel nobody has closed, and a calendar rule fires
\* in a minute (Hourly: in an hour) other than that of its last run.
THEOREM StartsAreFresh == MCSpec => FreshStarts
<1>1. MCInit => SchInv /\ CalInv
  <2>1. MCInit => SchInv
    BY SchedulerInit
  <2>2. MCInit => CalInv
    BY CalendarAssumption DEF MCInit, NoCalendar, D!CalendarInit, CalInv
  <2> QED
    BY <2>1, <2>2
<1>2. SchInv /\ CalInv /\ [MCNext]_mcVars => [D!NotBornStopped /\ D!NewSpan]_mcVars
  <2> SUFFICES ASSUME SchInv, CalInv, MCNext PROVE D!NotBornStopped /\ D!NewSpan
    OBVIOUS
  <2>1. D!NotBornStopped
    <3> SUFFICES ASSUME NEW r \in Runs, schPc[r] = "idle", schPc'[r] = "loop"
                 PROVE  myStop'[r] \notin closedCh'
      BY DEF D!NotBornStopped
    <3>1. D!Run(r)
      <4>1. D!Next
        BY PartSteps DEF schVars
      <4> QED
        BY <4>1 DEF SchInv, SchType, D!Next, D!Stop, D!Tick, D!Run, D!cancelCtx, D!leaveLoop, D!RunReturns, D!fire,
                    D!dispatch
    <3> QED
      BY <3>1 DEF SchInv, SchType, D!Run, D!freshStop
  <2>2. D!NewSpan
    <3> SUFFICES ASSUME lastRun' # lastRun, rule # "every" PROVE D!Span(lastRun') # D!Span(lastRun)
      BY DEF D!NewSpan
    <3>1. part = "calendar" /\ D!CalendarNext
      BY DEF MCNext, calVars, InWorker, InScheduler, InCalendar, InMemory, InRedis, InStats, InProcess
    <3>2. PICK gap \in 1..Minute : D!dispatchAt(gap)
      BY <3>1 DEF D!CalendarNext, D!fireReturns
    <3>3. lastRun' = instant + gap /\ lastRun' \in Nat /\ D!DueAt(lastRun, lastRun')
      BY <3>2, CalendarAssumption DEF D!dispatchAt, CalInv
    <3> QED
      BY <3>1, <3>3, DueInNewSpan DEF CalInv
  <2> QED
    BY <2>1, <2>2
<1> QED
  BY <1>1, <1>2, PartSteps, SchedulerStep, CalendarStep, PTL DEF MCSpec, FreshStarts

\* The ring of the statistics mirrors the last windowSize seconds, slot by slot, for
\* every window size: a slot of an earlier lap never counts.
THEOREM RingMirrorsWindow == MCSpec => []RingExact
<1>1. MCInit => RingInv
  <2> SUFFICES ASSUME Q!Init PROVE RingInv
    BY DEF MCInit
  <2>1. \A s \in Nat : s % windowSize \in Q!Slots
    BY WindowAssumption DEF Q!Slots
  <2>2. /\ now = windowSize /\ log = [s \in 0..windowSize + MaxSeconds |-> 0]
        /\ buckets = [s \in Q!Slots |-> 0] /\ epoch = [s \in Q!Slots |-> 0]
    BY DEF Q!Init
  <2>3. ASSUME NEW s \in 1..windowSize
        PROVE  log[s] = IF epoch[s % windowSize] = s THEN buckets[s % windowSize] ELSE 0
    BY <2>1, <2>2, WindowAssumption
  <2>4. \A slot \in Q!Slots : ~Q!inWindow(slot)
    BY <2>2, WindowAssumption DEF Q!inWindow
  <2>5. now - windowSize + 1..now = 1..windowSize
    BY <2>2, WindowAssumption
  <2>6. RingExact
    BY <2>3, <2>4, <2>5 DEF RingExact
  <2> QED
    BY <2>2, <2>6, WindowAssumption DEF RingInv
<1>2. RingInv => RingExact
  BY DEF RingInv
<1> QED
  BY <1>1, <1>2, PartSteps, RingStep, PTL DEF MCSpec
=============================================================================
