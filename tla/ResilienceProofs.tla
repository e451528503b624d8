-------------------------- MODULE ResilienceProofs --------------------------
(***************************************************************************)
(* Proofs about the circuit breaker, the chain of the other policies and   *)
(* the memory cache, for any number of callers and any configuration.      *)
(***************************************************************************)
EXTENDS MCResilience, FiniteSetTheorems, TLAPS

-----------------------------------------------------------------------------
(* The circuit breaker.                                                    *)

CountsType == [requests : Nat, successes : Nat, failures : Nat,
               consecSuccess : Nat, consecFailure : Nat]

\* What the methods of Counts do, field by field.
LEMMA CountsStep ==
    ASSUME NEW k \in CountsType
    PROVE  /\ onRequest(k) \in CountsType /\ countSuccess(k) \in CountsType /\ countFailure(k) \in CountsType
           /\ onRequest(k).requests = k.requests + 1
           /\ onRequest(k).successes = k.successes /\ onRequest(k).failures = k.failures
           /\ onRequest(k).consecFailure = k.consecFailure
           /\ countSuccess(k).requests = k.requests
           /\ countSuccess(k).successes = k.successes + 1 /\ countSuccess(k).failures = k.failures
           /\ countSuccess(k).consecFailure = 0
           /\ countFailure(k).requests = k.requests
           /\ countFailure(k).successes = k.successes /\ countFailure(k).failures = k.failures + 1
           /\ countFailure(k).consecFailure = k.consecFailure + 1
<1>1. ASSUME NEW r \in CountsType
      PROVE  /\ DOMAIN r = {"requests", "successes", "failures", "consecSuccess", "consecFailure"}
             /\ r.requests \in Nat /\ r.successes \in Nat /\ r.failures \in Nat
             /\ r.consecSuccess \in Nat /\ r.consecFailure \in Nat
  BY DEF CountsType
<1>2. onRequest(k) \in CountsType
  BY <1>1 DEF CountsType, onRequest
<1>3. countSuccess(k) \in CountsType
  BY <1>1 DEF CountsType, countSuccess
<1>4. countFailure(k) \in CountsType
  BY <1>1 DEF CountsType, countFailure
<1>5. /\ onRequest(k).requests = k.requests + 1
      /\ onRequest(k).successes = k.successes /\ onRequest(k).failures = k.failures
      /\ onRequest(k).consecFailure = k.consecFailure
  BY <1>1 DEF onRequest
<1>6. /\ countSuccess(k).requests = k.requests
      /\ countSuccess(k).successes = k.successes + 1 /\ countSuccess(k).failures = k.failures
      /\ countSuccess(k).consecFailure = 0
  BY <1>1 DEF countSuccess
<1>7. /\ countFailure(k).requests = k.requests
      /\ countFailure(k).successes = k.successes /\ countFailure(k).failures = k.failures + 1
      /\ countFailure(k).consecFailure = k.consecFailure + 1
  BY <1>1 DEF countFailure
<1> QED
  BY <1>2, <1>3, <1>4, <1>5, <1>6, <1>7

\* Letting a call in or recording its outcome moves the number of calls that
\* are out by one; sets of callers are finite.
LEMMA CurrentSize ==
    ASSUME NEW S \in SUBSET Callers
    PROVE  /\ Cardinality(S) \in Nat
           /\ \A c \in Callers \ S : Cardinality(S \cup {c}) = Cardinality(S) + 1
           /\ \A c \in S : Cardinality(S \ {c}) = Cardinality(S) - 1
<1>1. IsFiniteSet(S)
  BY CallersAssumption, FS_Subset
<1> QED
  BY <1>1, FS_CardinalityType, FS_AddElement, FS_RemoveElement

\* A transition starts a generation in which nothing has been counted.
LEMMA SetStateStep ==
    ASSUME Accounting, NEW to \in States, setState(to), pc' \in [Callers -> PC], healthy' \in BOOLEAN
    PROVE  Accounting'
<1>1. Cardinality({}) = 0
  BY FS_EmptySet
<1>2. TypeOK'
  BY ConfigAssumption DEF setState, newExpiry, clear, NoCounts, TypeOK, States
<1>3. (RequestsAccounted /\ TrialQuota /\ TripsInTime)'
  BY <1>1, ConfigAssumption DEF setState, clear, NoCounts, RequestsAccounted, TrialQuota, TripsInTime
<1> QED
  BY <1>2, <1>3 DEF Accounting

\* Every critical section, callback gap included, preserves the accounting.
LEMMA BreakerStep == Accounting /\ [Next]_vars => Accounting'
<1> SUFFICES ASSUME Accounting, [Next]_vars PROVE Accounting'
  OBVIOUS
<1> USE ConfigAssumption
<1>1. ASSUME NEW c \in Callers, NEW from \in {"idle", "succeeded", "failed"},
             NEW p \in {"admit", "recordSuccess", "recordFailure"}, promote(c, from, p)
      PROVE  Accounting'
  <2>1. pc' \in [Callers -> PC] /\ healthy' \in BOOLEAN /\ setState("half-open")
    BY <1>1 DEF promote, Goto, Accounting, TypeOK, PC, Out
  <2> QED
    BY <2>1, SetStateStep DEF States
<1>2. CASE State
  <2>1. pc' \in [Callers -> PC] /\ healthy' \in BOOLEAN /\ setState("half-open")
    BY <1>2 DEF State, Accounting, TypeOK
  <2> QED
    BY <2>1, SetStateStep DEF States
<1>3. ASSUME NEW c \in Callers, beforeRequest(c) PROVE Accounting'
  <2>1. c \notin current
    BY <1>3 DEF beforeRequest, Accounting, TypeOK, Out
  <2>2. Cardinality(current) \in Nat /\ Cardinality(current \cup {c}) = Cardinality(current) + 1
    BY <2>1, CurrentSize DEF Accounting, TypeOK
  <2>3. TypeOK'
    BY <1>3 DEF beforeRequest, onRequest, Goto, Accounting, TypeOK, PC, Out
  <2>4. (RequestsAccounted /\ TrialQuota /\ TripsInTime)'
    <3>1. counts \in CountsType
      BY DEF Accounting, TypeOK, CountsType
    <3>2. CASE counts' = counts /\ current' = current
      BY <1>3, <3>2 DEF beforeRequest, Accounting, RequestsAccounted, TrialQuota, TripsInTime
    <3>3. CASE /\ ~(state = "half-open" /\ ~hasQuota)
               /\ counts' = onRequest(counts) /\ current' = current \cup {c}
      <4>1. state' = state
        BY <1>3 DEF beforeRequest
      <4>2. counts' = onRequest(counts) /\ Cardinality(current') = Cardinality(current) + 1
        BY <2>2, <3>3
      <4>3. /\ counts'.requests = counts.requests + 1
            /\ counts'.successes = counts.successes /\ counts'.failures = counts.failures
            /\ counts'.consecFailure = counts.consecFailure
        BY <3>1, <4>2, CountsStep
      <4>4. counts.requests \in Nat /\ counts.successes \in Nat /\ counts.failures \in Nat
        BY <3>1 DEF CountsType
      <4> QED
        BY <2>2, <3>3, <4>1, <4>2, <4>3, <4>4 DEF hasQuota, Accounting, RequestsAccounted, TrialQuota, TripsInTime
    <3> QED
      BY <1>3, <3>2, <3>3 DEF beforeRequest
  <2> QED
    BY <2>3, <2>4 DEF Accounting
<1>4. ASSUME NEW c \in Callers, fnReturns(c) PROVE Accounting'
  BY <1>4 DEF fnReturns, Goto, Accounting, TypeOK, PC, Out, RequestsAccounted, TrialQuota, TripsInTime
<1>5. ASSUME NEW c \in Callers, onSuccess(c) PROVE Accounting'
  <2>1. pc' \in [Callers -> PC] /\ healthy' \in BOOLEAN /\ healthy' = healthy
    BY <1>5 DEF onSuccess, Goto, Accounting, TypeOK, PC, Out
  <2>2. CASE setState("closed")
    BY <2>1, <2>2, SetStateStep DEF States
  <2>3. CASE UNCHANGED <<state, counts, expiry, current>> /\ c \notin current
    BY <1>5, <2>1, <2>3 DEF onSuccess, Goto, Accounting, TypeOK, PC, Out, RequestsAccounted, TrialQuota, TripsInTime
  <2>4. CASE /\ c \in current
             /\ counts' = countSuccess(counts)
             /\ current' = current \ {c}
             /\ UNCHANGED <<state, expiry>>
    <3>0. counts \in CountsType
      BY DEF Accounting, TypeOK, CountsType
    <3>1. Cardinality(current) \in Nat /\ Cardinality(current \ {c}) = Cardinality(current) - 1
      BY <2>4, CurrentSize DEF Accounting, TypeOK
    <3>2. TypeOK'
      <4>1. counts' \in CountsType
        BY <2>4, CountsStep DEF Accounting, TypeOK, CountsType
      <4>2. current' \subseteq {d \in Callers : pc'[d] \in Out}
        BY <1>5, <2>4 DEF onSuccess, Goto, Accounting, TypeOK
      <4> QED
        BY <2>1, <2>4, <4>1, <4>2 DEF Accounting, TypeOK, CountsType
    <3>3. (RequestsAccounted /\ TrialQuota /\ TripsInTime)'
      <4>1. /\ counts'.requests = counts.requests
            /\ counts'.successes = counts.successes + 1 /\ counts'.failures = counts.failures
            /\ counts'.consecFailure = 0
        BY <2>4, <3>0, CountsStep
      <4>2. counts.requests \in Nat /\ counts.successes \in Nat /\ counts.failures \in Nat
        BY <3>0 DEF CountsType
      <4>3. Cardinality(current') = Cardinality(current) - 1
        BY <2>4, <3>1
      <4> QED
        BY <2>4, <3>1, <4>1, <4>2, <4>3 DEF Accounting, RequestsAccounted, TrialQuota, TripsInTime
    <3> QED
      BY <3>2, <3>3 DEF Accounting
  <2> QED
    BY <1>5, <2>2, <2>3, <2>4 DEF onSuccess, isCurrent
<1>6. ASSUME NEW c \in Callers, onFailure(c) PROVE Accounting'
  <2>1. pc' \in [Callers -> PC] /\ healthy' \in BOOLEAN /\ healthy' = healthy
    BY <1>6 DEF onFailure, Goto, Accounting, TypeOK, PC, Out
  <2>2. CASE setState("open")
    BY <2>1, <2>2, SetStateStep DEF States
  <2>3. CASE UNCHANGED <<state, counts, expiry, current>> /\ c \notin current
    BY <1>6, <2>1, <2>3 DEF onFailure, Goto, Accounting, TypeOK, PC, Out, RequestsAccounted, TrialQuota, TripsInTime
  <2>4. CASE /\ c \in current
             /\ ~(state = "half-open" \/ (state = "closed" /\ tripped(countFailure(counts))))
             /\ counts' = countFailure(counts)
             /\ current' = current \ {c}
             /\ UNCHANGED <<state, expiry>>
    <3>0. counts \in CountsType
      BY DEF Accounting, TypeOK, CountsType
    <3>1. Cardinality(current) \in Nat /\ Cardinality(current \ {c}) = Cardinality(current) - 1
      BY <2>4, CurrentSize DEF Accounting, TypeOK
    <3>2. TypeOK'
      <4>1. counts' \in CountsType
        BY <2>4, CountsStep DEF Accounting, TypeOK, CountsType
      <4>2. current' \subseteq {d \in Callers : pc'[d] \in Out}
        BY <1>6, <2>4 DEF onFailure, Goto, Accounting, TypeOK
      <4> QED
        BY <2>1, <2>4, <4>1, <4>2 DEF Accounting, TypeOK, CountsType
    <3>3. (RequestsAccounted /\ TrialQuota)'
      <4>1. /\ counts'.requests = counts.requests
            /\ counts'.successes = counts.successes /\ counts'.failures = counts.failures + 1
        BY <2>4, <3>0, CountsStep
      <4>2. counts.requests \in Nat /\ counts.successes \in Nat /\ counts.failures \in Nat
        BY <3>0 DEF CountsType
      <4>3. Cardinality(current') = Cardinality(current) - 1
        BY <2>4, <3>1
      <4> QED
        BY <2>4, <3>1, <4>1, <4>2, <4>3 DEF Accounting, RequestsAccounted, TrialQuota
    <3>4. TripsInTime'
      BY <2>4, <3>0, CountsStep DEF CountsType, tripped, Accounting, TripsInTime
    <3> QED
      BY <3>2, <3>3, <3>4 DEF Accounting
  <2> QED
    BY <1>6, <2>2, <2>3, <2>4 DEF onFailure, isCurrent
<1>7. CASE Tick
  BY <1>7 DEF Tick, Accounting, TypeOK, RequestsAccounted, TrialQuota, TripsInTime
<1>8. CASE Environment
  <2>1. healthy' \in BOOLEAN
    BY <1>8 DEF Environment
  <2> QED
    BY <1>8, <2>1 DEF Environment, Accounting, TypeOK, RequestsAccounted, TrialQuota, TripsInTime
<1>9. CASE UNCHANGED vars
  BY <1>9 DEF vars, Accounting, TypeOK, RequestsAccounted, TrialQuota, TripsInTime
<1> QED
  BY <1>1, <1>2, <1>3, <1>4, <1>5, <1>6, <1>7, <1>8, <1>9 DEF Next, Execute

-----------------------------------------------------------------------------
(* Retry, Timeout, Bulkhead and RateLimiter.                               *)

Job == [pc : {"none", "enter", "queued", "limit", "run", "done"}, ticket : BOOLEAN, cancelled : BOOLEAN,
        out : {"none", "ok", "err"}]

PolType ==
    /\ call \in [Calls -> [pc : {"idle", "try", "backoff", "returned"}, attempt : Nat]]
    /\ job \in [Calls -> [P!Attempts -> Job]]
    /\ gone \subseteq Calls

\* An attempt whose goroutine goes on and whose context is live.
LiveAttempt(c, a) == job[c][a].pc \notin {"none", "done"} /\ ~job[c][a].cancelled /\ c \notin gone

\* The only attempt that may be live is the one Retry waits for.
PolInv ==
    /\ PolType
    /\ \A c \in Calls, a \in P!Attempts : LiveAttempt(c, a) => call[c].pc = "try" /\ call[c].attempt = a
    /\ P!FnBounded

\* The executions that hold a slot.
Holding == {j \in P!Jobs : P!Pc(j) \in {"limit", "run"}}

\* Policies counts with the Cardinality of its own instance of FiniteSets.
LEMMA SameCardinality == \A S : P!Cardinality(S) = Cardinality(S)
BY DEF Cardinality, P!Cardinality, IsFiniteSet, P!IsFiniteSet

\* Sets of attempts are finite, and grow by at most the element that is added.
LEMMA JobSets ==
    ASSUME NEW S \in SUBSET P!Jobs
    PROVE  /\ IsFiniteSet(S) /\ Cardinality(S) \in Nat
           /\ \A T \in SUBSET S : Cardinality(T) <= Cardinality(S)
           /\ \A j \in P!Jobs : Cardinality(S \cup {j}) <= Cardinality(S) + 1
<1>1. IsFiniteSet(P!Attempts)
  BY PoliciesAssumption, FS_Interval DEF P!Attempts
<1>2. IsFiniteSet(P!Jobs)
  BY <1>1, PoliciesAssumption, FS_Product DEF P!Jobs
<1>3. IsFiniteSet(S)
  BY <1>2, FS_Subset
<1>4. Cardinality(S) \in Nat
  BY <1>3, FS_CardinalityType
<1> QED
  BY <1>3, <1>4, FS_Subset, FS_AddElement

\* FnBounded is about the size of Holding, before and after a step.
LEMMA BoundedHolding ==
    /\ P!FnBounded <=> Cardinality(Holding) <= MaxConcurrent
    /\ P!FnBounded' <=> Cardinality(Holding') <= MaxConcurrent
<1>1. P!FnBounded <=> Cardinality(Holding) <= MaxConcurrent
  BY SameCardinality, Zenon DEF Holding, P!FnBounded
<1>2. P!FnBounded' <=> Cardinality(Holding') <= MaxConcurrent
  BY SameCardinality, Zenon DEF Holding, P!FnBounded
<1> QED
  BY <1>1, <1>2

\* Giving slots back keeps the bound.
LEMMA HoldingShrinks ==
    ASSUME PolInv, Holding' \subseteq Holding
    PROVE  P!FnBounded'
<1>1. Holding \in SUBSET P!Jobs /\ Cardinality(Holding) <= MaxConcurrent
  <2>1. Holding \in SUBSET P!Jobs
    BY DEF Holding
  <2> QED
    BY <2>1, BoundedHolding DEF PolInv
<1>2. Cardinality(Holding') <= Cardinality(Holding) /\ Cardinality(Holding) \in Nat /\ Cardinality(Holding') \in Nat
  BY <1>1, JobSets
<1>3. Cardinality(Holding') <= MaxConcurrent
  BY <1>1, <1>2, PoliciesAssumption
<1> QED
  BY <1>3, BoundedHolding

\* A step of attempt j of its call replaces its record, keeps the others and brings
\* no context back to life.
LEMMA JobPut ==
    ASSUME PolInv, NEW j \in P!Jobs, NEW f \in Job, P!Put(j, f), UNCHANGED <<call, gone>>,
           f.cancelled = job[j[1]][j[2]].cancelled, P!Pc(j) # "none" \/ f.pc = "none",
           P!Pc(j) # "done" \/ f.pc = "done",
           f.pc \in {"limit", "run"} /\ P!Pc(j) \notin {"limit", "run"} => P!slots < MaxConcurrent
    PROVE  PolInv'
<1> DEFINE c == j[1]
           a == j[2]
<1>1. c \in Calls /\ a \in P!Attempts /\ j = <<c, a>>
  BY DEF P!Jobs
<1>2. /\ job' \in [Calls -> [P!Attempts -> Job]]
      /\ job'[c][a] = f
      /\ \A d \in Calls, b \in P!Attempts : <<d, b>> # <<c, a>> => job'[d][b] = job[d][b]
  BY <1>1 DEF P!Put, PolInv, PolType
<1>3. PolType'
  BY <1>2 DEF PolInv, PolType
<1>4. \A d \in Calls, b \in P!Attempts : LiveAttempt(d, b)' => LiveAttempt(d, b)
  BY <1>1, <1>2 DEF LiveAttempt, P!Pc
<1>5. P!FnBounded'
  <2>1. Holding \in SUBSET P!Jobs /\ P!slots = Cardinality(Holding) /\ Cardinality(Holding) <= MaxConcurrent
    <3>1. Holding \in SUBSET P!Jobs
      BY DEF Holding
    <3>2. P!slots = Cardinality(Holding)
      BY SameCardinality, Zenon DEF Holding, P!slots, P!holdsSlot
    <3> QED
      BY <3>1, <3>2, BoundedHolding DEF PolInv
  <2>2. ASSUME NEW k \in P!Jobs, k # j PROVE P!Pc(k)' = P!Pc(k)
    BY <1>1, <1>2, <2>2 DEF P!Pc, P!Jobs
  <2>3. P!Pc(j)' = f.pc
    BY <1>1, <1>2 DEF P!Pc
  <2>4. CASE f.pc \in {"limit", "run"} /\ P!Pc(j) \notin {"limit", "run"}
    <3>1. Holding' \subseteq Holding \cup {j}
      BY <2>2 DEF Holding
    <3>2. Cardinality(Holding') <= Cardinality(Holding) + 1
      <4>1. Holding \cup {j} \in SUBSET P!Jobs /\ Cardinality(Holding \cup {j}) <= Cardinality(Holding) + 1
        BY <2>1, JobSets
      <4>2. Cardinality(Holding') <= Cardinality(Holding \cup {j})
        BY <3>1, <4>1, JobSets
      <4>3. Cardinality(Holding') \in Nat /\ Cardinality(Holding) \in Nat /\ Cardinality(Holding \cup {j}) \in Nat
        BY <2>1, <3>1, <4>1, JobSets
      <4> QED
        BY <4>1, <4>2, <4>3
    <3>3. Cardinality(Holding) \in Nat /\ Cardinality(Holding') \in Nat
      BY <2>1, <3>1, JobSets
    <3>4. Cardinality(Holding) < MaxConcurrent
      BY <2>1, <2>4
    <3> QED
      <4>1. Cardinality(Holding') <= MaxConcurrent
        BY <3>2, <3>3, <3>4, PoliciesAssumption
      <4> QED
        BY <4>1, BoundedHolding
  <2>5. CASE ~(f.pc \in {"limit", "run"} /\ P!Pc(j) \notin {"limit", "run"})
    <3>1. Holding' \subseteq Holding
      BY <2>2, <2>3, <2>5 DEF Holding
    <3> QED
      BY <3>1, HoldingShrinks
  <2> QED
    BY <2>4, <2>5
<1> QED
  BY <1>3, <1>4, <1>5 DEF PolInv

\* What Done(j, v) puts into the place of attempt j.
LEMMA DoneJob ==
    ASSUME PolInv, NEW j \in P!Jobs, NEW v \in {"ok", "err"}
    PROVE  LET f == [job[j[1]][j[2]] EXCEPT !.pc = "done", !.out = v]
           IN  f \in Job /\ f.pc = "done" /\ f.cancelled = job[j[1]][j[2]].cancelled
<1>1. job[j[1]][j[2]] \in Job
  BY DEF PolInv, PolType, P!Jobs
<1> QED
  BY <1>1 DEF Job

\* What moving attempt j on to l puts there.
LEMMA MovedJob ==
    ASSUME PolInv, NEW j \in P!Jobs, NEW l \in {"queued", "limit", "run"}
    PROVE  LET f == [job[j[1]][j[2]] EXCEPT !.pc = l]
               g == [job[j[1]][j[2]] EXCEPT !.pc = l, !.ticket = TRUE]
           IN  /\ f \in Job /\ f.pc = l /\ f.cancelled = job[j[1]][j[2]].cancelled
               /\ g \in Job /\ g.pc = l /\ g.cancelled = job[j[1]][j[2]].cancelled
<1>1. job[j[1]][j[2]] \in Job
  BY DEF PolInv, PolType, P!Jobs
<1> QED
  BY <1>1 DEF Job

\* Every step of the chain preserves PolInv.
LEMMA PoliciesStep == PolInv /\ [P!Next]_polVars => PolInv'
<1> SUFFICES ASSUME PolInv, [P!Next]_polVars PROVE PolInv'
  OBVIOUS
<1>1. ASSUME NEW j \in P!Jobs, NEW v \in {"ok", "err"}, P!Done(j, v), UNCHANGED <<call, gone>>,
             P!Pc(j) # "none"
      PROVE  PolInv'
  BY <1>1, DoneJob, JobPut DEF P!Done
<1>2. ASSUME NEW j \in P!Jobs, P!bulkheadFast(j) PROVE PolInv'
  <2>1. P!Put(j, [job[j[1]][j[2]] EXCEPT !.pc = "limit"]) /\ P!Pc(j) = "enter" /\ P!slots < MaxConcurrent
        /\ UNCHANGED <<call, gone>>
    BY <1>2 DEF P!bulkheadFast
  <2> QED
    BY <2>1, MovedJob, JobPut
<1>3. ASSUME NEW j \in P!Jobs, P!bulkheadQueue(j) PROVE PolInv'
  <2>1. CASE P!Put(j, [job[j[1]][j[2]] EXCEPT !.pc = "queued", !.ticket = TRUE])
    BY <1>3, <2>1, MovedJob, JobPut DEF P!bulkheadQueue
  <2>2. CASE P!Done(j, "err")
    BY <1>3, <2>2, <1>1 DEF P!bulkheadQueue
  <2> QED
    BY <1>3, <2>1, <2>2 DEF P!bulkheadQueue
<1>4. ASSUME NEW j \in P!Jobs, P!bulkheadWaited(j) PROVE PolInv'
  <2>1. CASE P!slots < MaxConcurrent /\ P!Put(j, [job[j[1]][j[2]] EXCEPT !.pc = "limit"])
    BY <1>4, <2>1, MovedJob, JobPut DEF P!bulkheadWaited
  <2>2. CASE P!Done(j, "err")
    BY <1>4, <2>2, <1>1 DEF P!bulkheadWaited
  <2> QED
    BY <1>4, <2>1, <2>2 DEF P!bulkheadWaited
<1>5. ASSUME NEW j \in P!Jobs, P!reserve(j) PROVE PolInv'
  <2>1. CASE P!Put(j, [job[j[1]][j[2]] EXCEPT !.pc = "run"])
    BY <1>5, <2>1, MovedJob, JobPut DEF P!reserve
  <2>2. CASE P!Done(j, "err")
    BY <1>5, <2>2, <1>1 DEF P!reserve
  <2> QED
    BY <1>5, <2>1, <2>2 DEF P!reserve
<1>6. ASSUME NEW j \in P!Jobs, P!fnReturns(j) PROVE PolInv'
  BY <1>6, <1>1 DEF P!fnReturns
<1>7. ASSUME NEW c \in Calls, P!attempt(c) PROVE PolInv'
  <2> DEFINE a == call[c].attempt + 1
             f == [P!NoJob EXCEPT !.pc = "enter"]
  <2>1. f \in Job /\ f.pc = "enter"
    BY DEF P!NoJob, Job
  <2>2. call[c].pc \in {"idle", "backoff"} /\ UNCHANGED gone /\ a \in Nat
    BY <1>7 DEF P!attempt, PolInv, PolType
  <2>3. CASE c \in gone
    <3>1. UNCHANGED <<job, gone>> /\ call' = [call EXCEPT ![c].pc = "returned"]
      BY <1>7, <2>3 DEF P!attempt
    <3>2. Holding' = Holding
      BY <3>1 DEF Holding, P!Pc, P!Jobs
    <3>3. PolType'
      BY <3>1 DEF PolInv, PolType
    <3>4. \A d \in Calls, b \in P!Attempts : LiveAttempt(d, b)' => LiveAttempt(d, b) /\ d # c
      BY <2>3, <3>1 DEF LiveAttempt
    <3> QED
      BY <3>1, <3>2, <3>3, <3>4, HoldingShrinks DEF PolInv, PolType
  <2>4. CASE c \notin gone
    <3>1. /\ call' = [call EXCEPT ![c] = [pc |-> "try", attempt |-> a]]
          /\ job' = [job EXCEPT ![c][a] = f]
      BY <1>7, <2>4 DEF P!attempt
    <3> HIDE DEF a, f
    <3>2. /\ job' \in [Calls -> [P!Attempts -> Job]]
          /\ \A d \in Calls, b \in P!Attempts : d # c \/ b # a => job'[d][b] = job[d][b]
          /\ a \in P!Attempts => job'[c][a] = f
      BY <2>1, <3>1 DEF PolInv, PolType
    <3>3. PolType'
      BY <2>2, <3>1, <3>2 DEF PolInv, PolType
    <3>4. Holding' \subseteq Holding
      BY <2>1, <3>2 DEF Holding, P!Pc, P!Jobs
    <3>5. \A d \in Calls, b \in P!Attempts : LiveAttempt(d, b)' => LiveAttempt(d, b) \/ (d = c /\ b = a)
      BY <2>2, <3>2 DEF LiveAttempt
    <3> QED
      BY <2>2, <3>1, <3>3, <3>4, <3>5, HoldingShrinks DEF PolInv, PolType
  <2> QED
    BY <2>3, <2>4
<1>8. ASSUME NEW c \in Calls, P!attemptDone(c) PROVE PolInv'
  <2>1. /\ call[c].pc = "try" /\ job[c][call[c].attempt].pc = "done" /\ UNCHANGED <<job, gone>>
        /\ \E l \in {"returned", "backoff"} : call' = [call EXCEPT ![c].pc = l]
    BY <1>8 DEF P!attemptDone, P!Pc, P!retryOrReturn
  <2>2. PolType'
    BY <2>1 DEF PolInv, PolType
  <2>3. Holding' = Holding
    BY <2>1 DEF Holding, P!Pc, P!Jobs
  <2>4. \A d \in Calls, b \in P!Attempts : LiveAttempt(d, b)' => LiveAttempt(d, b) /\ (d # c \/ b # call[c].attempt)
    BY <2>1 DEF LiveAttempt
  <2> QED
    BY <2>1, <2>2, <2>3, <2>4, HoldingShrinks DEF PolInv, PolType
<1>9. ASSUME NEW c \in Calls, P!deadline(c) PROVE PolInv'
  <2> DEFINE a == call[c].attempt
  <2>1. /\ call[c].pc = "try" /\ UNCHANGED gone
        /\ job' = [job EXCEPT ![c][a].cancelled = TRUE]
        /\ \E l \in {"returned", "backoff"} : call' = [call EXCEPT ![c].pc = l]
    BY <1>9 DEF P!deadline, P!abandon, P!retryOrReturn
  <2> HIDE DEF a
  <2>2. /\ job' \in [Calls -> [P!Attempts -> Job]]
        /\ \A d \in Calls, b \in P!Attempts : d # c \/ b # a => job'[d][b] = job[d][b]
        /\ a \in P!Attempts => job'[c][a].cancelled = TRUE /\ job'[c][a].pc = job[c][a].pc
    <3>1. CASE a \in P!Attempts
      <4> DEFINE f == [job[c][a] EXCEPT !.cancelled = TRUE]
      <4>1. f \in Job /\ f.cancelled = TRUE /\ f.pc = job[c][a].pc
        <5>1. job[c][a] \in Job
          BY <3>1 DEF PolInv, PolType
        <5> QED
          BY <5>1 DEF Job
      <4>2. job' = [job EXCEPT ![c] = [@ EXCEPT ![a] = f]]
        BY <2>1
      <4> HIDE DEF f
      <4> QED
        BY <3>1, <4>1, <4>2 DEF PolInv, PolType
    <3>2. CASE a \notin P!Attempts
      BY <2>1, <3>2, ZenonT(30) DEF PolInv, PolType
    <3> QED
      BY <3>1, <3>2
  <2>3. PolType'
    BY <2>1, <2>2, SMTT(30) DEF PolInv, PolType
  <2>4. Holding' \subseteq Holding
    BY <2>2 DEF Holding, P!Pc, P!Jobs
  <2>5. \A d \in Calls, b \in P!Attempts : LiveAttempt(d, b)' => LiveAttempt(d, b) /\ (d # c \/ b # a)
    BY <2>1, <2>2 DEF LiveAttempt
  <2> QED
    BY <2>1, <2>3, <2>4, <2>5, HoldingShrinks DEF PolInv, PolType, a
<1>10. ASSUME NEW c \in Calls, P!cancelCall(c) PROVE PolInv'
  <2>1. UNCHANGED <<call, job>> /\ gone' = gone \cup {c}
    BY <1>10 DEF P!cancelCall
  <2>2. PolType' /\ Holding' = Holding
    BY <2>1 DEF PolInv, PolType, Holding, P!Pc, P!Jobs
  <2>3. \A d \in Calls, b \in P!Attempts : LiveAttempt(d, b)' => LiveAttempt(d, b)
    BY <2>1 DEF LiveAttempt
  <2> QED
    BY <2>1, <2>2, <2>3, HoldingShrinks DEF PolInv
<1>11. CASE UNCHANGED <<call, job, gone>>
  <2>1. PolType' /\ Holding' = Holding
    BY <1>11 DEF PolInv, PolType, Holding, P!Pc, P!Jobs
  <2>2. \A d \in Calls, b \in P!Attempts : LiveAttempt(d, b)' => LiveAttempt(d, b)
    BY <1>11 DEF LiveAttempt
  <2> QED
    BY <1>11, <2>1, <2>2, HoldingShrinks DEF PolInv
<1> QED
  BY <1>2, <1>3, <1>4, <1>5, <1>6, <1>7, <1>8, <1>9, <1>10, <1>11 DEF P!Next, P!JobStep, P!CallStep, P!refill, polVars

-----------------------------------------------------------------------------
(* The memory cache.                                                       *)

\* What the writers store is an entry, and only fn's result is marked filled.
LEMMA ItemType ==
    ASSUME NEW v \in {"put", "filled", "lock", "count"}, NEW ttl \in Ca!TTLs
    PROVE  Ca!Item(v, ttl) \in Ca!Entry /\ Ca!Item(v, ttl).v = v /\ Ca!Item(v, ttl).left \in Ca!Times
BY CacheAssumption DEF Ca!Item, Ca!Entry, Ca!Times, Ca!TTLs, Ca!Forever

\* A step that writes the store and its history only: whatever it stores was not
\* computed by fn.
LEMMA StoreStep ==
    ASSUME Ca!CacheInv, UNCHANGED <<flights, flightMu, Ca!pvars>>,
           items' \in [Keys -> Ca!Entry \cup {None}], lock' \in [Keys -> Ca!Times \cup {None}],
           \A k \in Keys : items'[k] = None \/ items'[k].v # "filled" \/ (items[k] # None /\ items'[k].v = items[k].v)
    PROVE  Ca!CacheInv'
<1>1. Ca!CacheType'
  BY DEF Ca!CacheInv, Ca!CacheType, Ca!pvars
<1>2. Ca!UnfilledInv'
  <2> SUFFICES ASSUME NEW p \in Procs, cachePc[p] = "register"
               PROVE  items'[key[p]] = None \/ items'[key[p]].v # "filled"
    BY DEF Ca!UnfilledInv, Ca!pvars
  <2>1. key[p] \in Keys /\ (items[key[p]] = None \/ items[key[p]].v # "filled")
    BY DEF Ca!CacheInv, Ca!CacheType, Ca!UnfilledInv
  <2> QED
    BY <2>1
<1> QED
  BY <1>1, <1>2 DEF Ca!CacheInv, Ca!MutexInv, Ca!WaitInv, Ca!SingleFlight, Ca!pvars

\* A bulk write of one entry or none that was not computed by fn.
LEMMA WriteStep ==
    ASSUME Ca!CacheInv, NEW K, NEW it, it = None \/ (it \in Ca!Entry /\ it.v # "filled"), Ca!Write(K, it)
    PROVE  Ca!CacheInv'
<1>1. /\ UNCHANGED <<flights, flightMu, Ca!pvars>>
      /\ items' \in [Keys -> Ca!Entry \cup {None}] /\ lock' \in [Keys -> Ca!Times \cup {None}]
      /\ \A k \in Keys : items'[k] = it \/ items'[k] = items[k]
  BY DEF Ca!Write, Ca!CacheInv, Ca!CacheType
<1> QED
  BY <1>1, StoreStep

\* Every critical section of every operation preserves CacheInv.
LEMMA CacheStep == Ca!CacheInv /\ [Ca!Next]_Ca!vars => Ca!CacheInv'
<1> SUFFICES ASSUME Ca!CacheInv, [Ca!Next]_Ca!vars PROVE Ca!CacheInv'
  OBVIOUS
<1> USE CacheAssumption
<1>1. ASSUME NEW K \in SUBSET Keys, NEW ttl \in Ca!TTLs, Ca!PutMany(K, ttl) PROVE Ca!CacheInv'
  BY <1>1, ItemType, WriteStep DEF Ca!PutMany
<1>2. ASSUME NEW k \in Keys, Ca!Forget(k) PROVE Ca!CacheInv'
  BY <1>2, WriteStep DEF Ca!Forget
<1>3. ASSUME NEW k \in Keys, Ca!Increment(k) PROVE Ca!CacheInv'
  <2>1. 0 \in Ca!TTLs
    BY DEF Ca!TTLs
  <2> QED
    BY <1>3, <2>1, ItemType, WriteStep DEF Ca!Increment
<1>4. ASSUME NEW k \in Keys, NEW ttl \in Ca!TTLs, Ca!Add(k, ttl) PROVE Ca!CacheInv'
  <2> DEFINE it == IF ttl < 0 THEN None ELSE Ca!Item("lock", ttl)
  <2>1. it = None \/ (it \in Ca!Entry /\ it.v # "filled")
    BY ItemType
  <2>2. (IF ttl < 0 THEN None ELSE Ca!Item("lock", ttl).left) \in Ca!Times \cup {None}
    BY ItemType
  <2>3. /\ items' = [items EXCEPT ![k] = it] /\ UNCHANGED <<flights, flightMu, Ca!pvars>>
        /\ lock' = [lock EXCEPT ![k] = IF ttl < 0 THEN None ELSE Ca!Item("lock", ttl).left]
    BY <1>4 DEF Ca!Add
  <2> HIDE DEF it
  <2>4. items' \in [Keys -> Ca!Entry \cup {None}] /\ lock' \in [Keys -> Ca!Times \cup {None}]
    BY <2>1, <2>2, <2>3 DEF Ca!CacheInv, Ca!CacheType
  <2> QED
    BY <2>1, <2>3, <2>4, StoreStep DEF Ca!CacheInv, Ca!CacheType
<1>5. CASE Ca!Flush
  BY <1>5, WriteStep DEF Ca!Flush
<1>6. CASE Ca!purgeExpired
  <2>1. items' \in [Keys -> Ca!Entry \cup {None}] /\ \A k \in Keys : items'[k] = None \/ items'[k] = items[k]
    BY <1>6 DEF Ca!purgeExpired, Ca!CacheInv, Ca!CacheType
  <2> QED
    BY <1>6, <2>1, StoreStep DEF Ca!purgeExpired, Ca!CacheInv, Ca!CacheType
<1>7. CASE Ca!Close
  BY <1>7, StoreStep DEF Ca!Close, Ca!CacheInv, Ca!CacheType
<1>8. CASE Ca!Tick
  <2> DEFINE older(n) == IF n > 0 THEN n - 1 ELSE n
  <2>1. \A n \in Ca!Times : older(n) \in Ca!Times
    BY DEF Ca!Times, Ca!Forever
  <2>2. \A e \in Ca!Entry : [e EXCEPT !.left = older(@)] \in Ca!Entry /\ [e EXCEPT !.left = older(@)].v = e.v
    BY <2>1 DEF Ca!Entry
  <2>3. /\ items' = [k \in Keys |-> IF items[k] = None THEN None ELSE [items[k] EXCEPT !.left = older(@)]]
        /\ lock' = [k \in Keys |-> IF lock[k] = None THEN None ELSE older(lock[k])]
        /\ UNCHANGED <<flights, flightMu, Ca!pvars>>
    BY <1>8 DEF Ca!Tick
  <2> HIDE DEF older
  <2>4. \A k \in Keys : \/ items[k] = None /\ items'[k] = None
                        \/ items[k] \in Ca!Entry /\ items'[k] \in Ca!Entry /\ items'[k].v = items[k].v /\ items[k] # None
    BY <2>2, <2>3 DEF Ca!CacheInv, Ca!CacheType
  <2>5. items' \in [Keys -> Ca!Entry \cup {None}] /\ lock' \in [Keys -> Ca!Times \cup {None}]
    BY <2>1, <2>3, <2>4 DEF Ca!CacheInv, Ca!CacheType
  <2> QED
    BY <2>3, <2>4, <2>5, StoreStep
<1>9. ASSUME NEW p \in Procs, Ca!GetEvict(p) PROVE Ca!CacheInv'
  BY <1>9 DEF Ca!GetEvict, Ca!CacheInv, Ca!CacheType, Ca!MutexInv, Ca!WaitInv, Ca!UnfilledInv, Ca!SingleFlight, Ca!Goto, Ca!Locations, Ca!Locked
<1>10. ASSUME NEW p \in Procs, Ca!rememberOnce(p) PROVE Ca!CacheInv'
  BY <1>10 DEF Ca!rememberOnce, Ca!inFlight, Ca!CacheInv, Ca!CacheType, Ca!MutexInv, Ca!WaitInv, Ca!UnfilledInv, Ca!SingleFlight, Ca!Goto, Ca!Locations, Ca!Locked
<1>11. ASSUME NEW p \in Procs, Ca!Recheck(p) PROVE Ca!CacheInv'
  BY <1>11 DEF Ca!Recheck, Ca!recheck, Ca!GetRead, Ca!Live, Ca!CacheInv, Ca!CacheType, Ca!MutexInv, Ca!WaitInv, Ca!UnfilledInv, Ca!SingleFlight, Ca!Goto, Ca!Locations, Ca!Locked
<1>12. ASSUME NEW p \in Procs, Ca!Register(p) PROVE Ca!CacheInv'
  BY <1>12 DEF Ca!Register, Ca!CacheInv, Ca!CacheType, Ca!MutexInv, Ca!WaitInv, Ca!UnfilledInv, Ca!SingleFlight, Ca!Goto, Ca!Locations, Ca!Locked
<1>13. ASSUME NEW p \in Procs, NEW ttl \in Ca!TTLs, Ca!FnReturns(p, ttl) PROVE Ca!CacheInv'
  <2> DEFINE it == IF ttl < 0 THEN None ELSE Ca!Item("filled", ttl)
  <2>1. it = None \/ it \in Ca!Entry
    BY ItemType
  <2>2. /\ cachePc[p] = "fn" /\ cachePc' = [cachePc EXCEPT ![p] = "filled"]
        /\ items' = [items EXCEPT ![key[p]] = it] /\ lock' = [lock EXCEPT ![key[p]] = None]
        /\ UNCHANGED <<flights, flightMu, key, on>>
    BY <1>13 DEF Ca!FnReturns, Ca!Goto
  <2> HIDE DEF it
  <2>3. Ca!CacheType'
    BY <2>1, <2>2 DEF Ca!CacheInv, Ca!CacheType, Ca!Locations
  <2>4. Ca!UnfilledInv'
    BY <2>2 DEF Ca!CacheInv, Ca!CacheType, Ca!MutexInv, Ca!UnfilledInv, Ca!SingleFlight, Ca!Locked
  <2> QED
    BY <2>2, <2>3, <2>4 DEF Ca!CacheInv, Ca!CacheType, Ca!MutexInv, Ca!WaitInv, Ca!SingleFlight, Ca!Locked
<1>14. ASSUME NEW p \in Procs, Ca!FnFails(p) PROVE Ca!CacheInv'
  BY <1>14 DEF Ca!FnFails, Ca!CacheInv, Ca!CacheType, Ca!MutexInv, Ca!WaitInv, Ca!UnfilledInv, Ca!SingleFlight, Ca!Goto, Ca!Locations, Ca!Locked
<1>15. ASSUME NEW p \in Procs, Ca!Deregister(p) PROVE Ca!CacheInv'
  BY <1>15 DEF Ca!Deregister, Ca!CacheInv, Ca!CacheType, Ca!MutexInv, Ca!WaitInv, Ca!UnfilledInv, Ca!SingleFlight, Ca!Goto, Ca!Locations, Ca!Locked
<1>16. ASSUME NEW p \in Procs, Ca!CloseFlight(p) PROVE Ca!CacheInv'
  BY <1>16 DEF Ca!CloseFlight, Ca!woken, Ca!CacheInv, Ca!CacheType, Ca!MutexInv, Ca!WaitInv, Ca!UnfilledInv, Ca!SingleFlight, Ca!Goto, Ca!Locations, Ca!Locked
<1>17. ASSUME NEW p \in Procs, Ca!WaitCancelled(p) PROVE Ca!CacheInv'
  BY <1>17 DEF Ca!WaitCancelled, Ca!CacheInv, Ca!CacheType, Ca!MutexInv, Ca!WaitInv, Ca!UnfilledInv, Ca!SingleFlight, Ca!Goto, Ca!Locations, Ca!Locked
<1>18. ASSUME NEW p \in Procs, NEW k \in Keys, Ca!Get(p, k) \/ Ca!Remember(p, k) PROVE Ca!CacheInv'
  BY <1>18 DEF Ca!Get, Ca!Remember, Ca!GetRead, Ca!CacheInv, Ca!CacheType, Ca!MutexInv, Ca!WaitInv, Ca!UnfilledInv, Ca!SingleFlight, Ca!Goto, Ca!Locations, Ca!Locked
<1>19. CASE UNCHANGED Ca!vars
  BY <1>19 DEF Ca!vars, Ca!pvars, Ca!CacheInv, Ca!CacheType, Ca!MutexInv, Ca!WaitInv, Ca!UnfilledInv, Ca!SingleFlight
<1> QED
  BY <1>1, <1>2, <1>3, <1>4, <1>5, <1>6, <1>7, <1>8, <1>9, <1>10, <1>11, <1>12, <1>13, <1>14, <1>15, <1>16, <1>17,
     <1>18, <1>19 DEF Ca!Next, Ca!Proceed

-----------------------------------------------------------------------------
(* The parts together.                                                     *)

\* A step of MCResilience is a step of each part, or leaves it alone.
LEMMA PartSteps == [MCNext]_mcVars => [Next]_vars /\ [P!Next]_polVars /\ [Ca!Next]_Ca!vars
<1>1. UNCHANGED cacheVars => UNCHANGED Ca!vars
  BY DEF cacheVars, Ca!vars, Ca!pvars
<1> QED
  BY <1>1 DEF MCNext, InBreaker, InPolicies, InCache, mcVars

\* Whatever callers overlap: every counted request is accounted for, the trial
\* quota holds, and thresholds trip at once.
THEOREM BreakerSafe == MCSpec => []Accounting
<1>1. MCInit => Accounting
  <2> SUFFICES ASSUME Init PROVE Accounting
    BY DEF MCInit
  <2>1. Cardinality({}) = 0
    BY FS_EmptySet
  <2>2. TypeOK
    BY ConfigAssumption DEF Init, NoCounts, TypeOK, States, PC, Out
  <2> QED
    BY <2>1, <2>2, ConfigAssumption DEF Init, NoCounts, Accounting, RequestsAccounted, TrialQuota, TripsInTime
<1> QED
  BY <1>1, PartSteps, BreakerStep, PTL DEF MCSpec

\* An open circuit waits out its timeout and becomes half-open next.
THEOREM OpenCircuitHolds == MCSpec => OpenHolds
<1>1. TypeOK /\ [Next]_vars => [state = "open" /\ state' # "open" => expiry = 0 /\ state' = "half-open"]_vars
  <2> SUFFICES ASSUME TypeOK, Next, state = "open", state' # "open"
               PROVE  expiry = 0 /\ state' = "half-open"
    BY DEF vars
  <2>1. ASSUME NEW c \in Callers, Execute(c) PROVE expiry = 0 /\ state' = "half-open"
    BY <2>1 DEF Execute, promote, Expired, setState, beforeRequest, fnReturns, onSuccess, onFailure,
                isCurrent, TypeOK
  <2>2. CASE State
    BY <2>2 DEF State, Expired, setState
  <2> QED
    BY <2>1, <2>2 DEF Next, Tick, Environment
<1>2. Accounting => TypeOK
  BY DEF Accounting
<1> QED
  BY <1>1, <1>2, PartSteps, BreakerSafe, PTL DEF MCSpec, OpenHolds

\* However calls time out, retry, queue and are cancelled: at most MaxConcurrent
\* executions hold a slot, abandoned ones included, and no call has two attempts
\* with a live context.
THEOREM PoliciesHold == MCSpec => []PoliciesSafe
<1>1. MCInit => PolInv
  <2> SUFFICES ASSUME P!Init PROVE PolInv
    BY DEF MCInit
  <2>1. P!NoJob \in Job /\ P!NoJob.pc = "none"
    BY DEF P!NoJob, Job
  <2>2. /\ call = [c \in Calls |-> [pc |-> "idle", attempt |-> 0]] /\ gone = {}
        /\ job = [c \in Calls |-> [a \in P!Attempts |-> P!NoJob]]
    BY DEF P!Init
  <2>3. PolType
    BY <2>1, <2>2 DEF PolType
  <2>4. Holding = {}
    BY <2>1, <2>2 DEF Holding, P!Pc, P!Jobs
  <2>5. P!FnBounded
    BY <2>4, BoundedHolding, FS_EmptySet, PoliciesAssumption
  <2> QED
    BY <2>1, <2>2, <2>3, <2>5 DEF PolInv, LiveAttempt
<1>2. PolInv => PoliciesSafe
  <2> SUFFICES ASSUME PolInv, NEW c \in Calls
               PROVE  P!Cardinality({a \in P!Attempts : /\ P!Pc(<<c, a>>) \notin {"none", "done"}
                                                        /\ ~P!Cancelled(<<c, a>>)}) <= 1
    BY DEF PolInv, PoliciesSafe, P!PoliciesSafe, P!OneLiveAttempt
  <2> DEFINE L == {a \in P!Attempts : P!Pc(<<c, a>>) \notin {"none", "done"} /\ ~P!Cancelled(<<c, a>>)}
  <2>1. L \subseteq {call[c].attempt}
    BY DEF PolInv, LiveAttempt, P!Pc, P!Cancelled
  <2> HIDE DEF L
  <2>2. Cardinality(L) <= 1
    <3>1. IsFiniteSet({call[c].attempt}) /\ Cardinality({call[c].attempt}) = 1
      BY FS_Singleton
    <3> QED
      BY <2>1, <3>1, FS_Subset
  <2>3. P!Cardinality(L) <= 1
    BY <2>2, SameCardinality
  <2> QED
    BY <2>3 DEF L
<1> QED
  BY <1>1, <1>2, PartSteps, PoliciesStep, PTL DEF MCSpec

\* CacheInv holds in every state.
LEMMA CacheInvariant == MCSpec => []Ca!CacheInv
<1>1. MCInit => Ca!CacheInv
  BY CacheAssumption DEF MCInit, Ca!Init, Ca!CacheInv, Ca!CacheType, Ca!MutexInv, Ca!WaitInv, Ca!UnfilledInv, Ca!SingleFlight, Ca!Locations, Ca!Locked
<1> QED
  BY <1>1, PartSteps, CacheStep, PTL DEF MCSpec

\* Whatever writers, sweeps, expiries and cancelled waiters come in between, at most
\* one fn runs for a key, under a registered flight, and flightMu is the re-checker's.
THEOREM FlightsHold == MCSpec => []Flights
<1>1. Ca!CacheInv => Flights
  BY DEF Ca!CacheInv, Ca!CacheType, Ca!MutexInv, Ca!Locked, Ca!Entry, Flights, Ca!Flights, Ca!TypeOK
<1> QED
  BY <1>1, CacheInvariant, PTL

\* fn never starts while the key holds a live value that another flight put there.
THEOREM NeverRefilled == MCSpec => NoRefill
<1> DEFINE A == \A p \in Procs : cachePc[p] = "register" /\ cachePc'[p] = "fn"
                                   => ~(Ca!Live(key[p]) /\ items[key[p]].v = "filled")
<1>1. Ca!CacheInv => [A]_Ca!vars
  BY DEF Ca!CacheInv, Ca!UnfilledInv, Ca!Live
<1> QED
  BY <1>1, CacheInvariant, PTL DEF NoRefill, Ca!NoRefill
=============================================================================
