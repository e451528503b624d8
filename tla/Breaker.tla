------------------------------ MODULE Breaker -------------------------------
(***************************************************************************)
(* resilience.Breaker (resilience/breaker.go) under concurrent callers.    *)
(* Critical sections are steps.  setState drops the mutex around the       *)
(* OnStateChange callback, so a caller that promotes an expired open       *)
(* circuit decides in a step of its own, after other callers may have      *)
(* moved the circuit on.  Generations are compared for equality alone: a   *)
(* call is current while no transition has happened since it was let in.   *)
(***************************************************************************)
EXTENDS Integers, FiniteSets

CONSTANTS
    Callers,                \* goroutines that call Execute
    MaxRequests,            \* BreakerConfig.MaxRequests: trial calls in half-open
    OpenTimeout,            \* BreakerConfig.OpenTimeout in ticks
    ConsecutiveFailures,    \* trips after so many failures in a row; 0: rule off
    MinRequests,            \* requests before the ratio rule applies
    RatioNum, RatioDen,     \* BreakerConfig.FailureRatio as a fraction; RatioNum = 0: rule off
    MaxCalls                \* bound: calls let in during one generation

ASSUME ConfigAssumption ==
    /\ MaxRequests \in Nat \ {0} /\ OpenTimeout \in Nat \ {0}
    /\ ConsecutiveFailures \in Nat /\ MinRequests \in Nat
    /\ RatioNum \in Nat /\ RatioDen \in Nat \ {0}
    /\ MaxCalls \in Nat /\ MaxCalls >= MaxRequests
ASSUME CallersAssumption == IsFiniteSet(Callers)

VARIABLES
    state,      \* Breaker.state
    counts,     \* Breaker.counts
    expiry,     \* time left until an open circuit may become half-open
    current,    \* callers let in during the current generation
    pc,         \* each caller's position in Execute
    healthy     \* whether calls to the dependency succeed (environment)

vars == <<state, counts, expiry, current, pc, healthy>>

-----------------------------------------------------------------------------
States == {"closed", "open", "half-open"}

\* Counts, and its four methods.
NoCounts == [requests |-> 0, successes |-> 0, failures |-> 0, consecSuccess |-> 0, consecFailure |-> 0]

clear_kept(c) == c
clear(c) == NoCounts

onRequest(c) == [c EXCEPT !.requests = @ + 1]

countSuccess(c) ==
    [requests |-> c.requests, successes |-> c.successes + 1, failures |-> c.failures,
     consecSuccess |-> c.consecSuccess + 1, consecFailure |-> 0]

countFailure(c) ==
    [requests |-> c.requests, successes |-> c.successes, failures |-> c.failures + 1,
     consecSuccess |-> 0, consecFailure |-> c.consecFailure + 1]

\* The configured thresholds are met; failures/requests >= ratio without division.
tripped(c) ==
    \/ ConsecutiveFailures > 0 /\ c.consecFailure >= ConsecutiveFailures
    \/ /\ RatioNum > 0
       /\ c.requests >= MinRequests
       /\ c.requests > 0 /\ c.failures * RatioDen >= RatioNum * c.requests

Init ==
    /\ state = "closed"
    /\ counts = NoCounts
    /\ expiry = 0
    /\ current = {}
    /\ pc = [c \in Callers |-> "idle"]
    /\ healthy \in BOOLEAN

-----------------------------------------------------------------------------
\* Only an open circuit has an expiry.
newExpiry(to) == IF to = "open" THEN OpenTimeout ELSE 0

\* setState with toNewGeneration: fresh counts, and every call out is stale.
setState(to) ==
    /\ state' = to
    /\ counts' = clear(counts)
    /\ current' = {}
    /\ expiry' = newExpiry(to)

Goto(c, p) == pc' = [pc EXCEPT ![c] = p]

\* currentState would promote the circuit to half-open.
Expired_early == state = "open"
Expired == state = "open" /\ expiry = 0

\* currentState promotes the circuit on behalf of a caller, whose critical
\* section is interrupted by the callback: p is where the caller resumes.
promote(c, from, p) ==
    /\ pc[c] = from
    /\ Expired
    /\ setState("half-open")
    /\ Goto(c, p)
    /\ UNCHANGED healthy

\* State() promotes the circuit, too.
State ==
    /\ Expired
    /\ setState("half-open")
    /\ UNCHANGED <<pc, healthy>>

\* The half-open quota still has room.
hasQuota == counts.requests < MaxRequests

\* The rest of beforeRequest: reject the call, or count it and let it in.
beforeRequest(c) ==
    /\ pc[c] = "admit" \/ (pc[c] = "idle" /\ ~Expired)
    /\ IF state = "open" \/ (state = "half-open" /\ ~hasQuota)
       THEN Goto(c, "idle") /\ UNCHANGED <<counts, current>>
       ELSE /\ counts.requests < MaxCalls
            /\ counts' = onRequest(counts)
            /\ current' = current \cup {c}
            /\ Goto(c, "call")
    /\ UNCHANGED <<state, expiry, healthy>>

\* fn returns or panics; a panic counts as a failure.
fnReturns(c) ==
    /\ pc[c] = "call"
    /\ Goto(c, IF healthy THEN "succeeded" ELSE "failed")
    /\ UNCHANGED <<state, counts, expiry, current, healthy>>

\* An outcome counts only in the generation that let its call in.
isCurrent_any(c) == TRUE
isCurrent(c) == c \in current

\* The rest of afterRequest, outcome success.
onSuccess(c) ==
    /\ pc[c] = "recordSuccess" \/ (pc[c] = "succeeded" /\ ~Expired)
    /\ IF ~isCurrent(c)
       THEN UNCHANGED <<state, counts, expiry, current>>
       ELSE IF state = "half-open" /\ countSuccess(counts).consecSuccess >= MaxRequests
            THEN setState("closed")
            ELSE /\ counts' = countSuccess(counts)
                 /\ current' = current \ {c}
                 /\ UNCHANGED <<state, expiry>>
    /\ Goto(c, "idle")
    /\ UNCHANGED healthy

\* The rest of afterRequest, outcome failure.
onFailure(c) ==
    /\ pc[c] = "recordFailure" \/ (pc[c] = "failed" /\ ~Expired)
    /\ IF ~isCurrent(c)
       THEN UNCHANGED <<state, counts, expiry, current>>
       ELSE IF state = "half-open" \/ (state = "closed" /\ tripped(countFailure(counts)))
            THEN setState("open")
            ELSE /\ counts' = countFailure(counts)
                 /\ current' = current \ {c}
                 /\ UNCHANGED <<state, expiry>>
    /\ Goto(c, "idle")
    /\ UNCHANGED healthy

Tick ==
    /\ expiry > 0
    /\ expiry' = expiry - 1
    /\ UNCHANGED <<state, counts, current, pc, healthy>>

\* The dependency breaks down or recovers.
Environment ==
    /\ healthy' = ~healthy
    /\ UNCHANGED <<state, counts, expiry, current, pc>>

Execute(c) ==
    \/ promote(c, "idle", "admit") \/ beforeRequest(c)
    \/ fnReturns(c)
    \/ promote(c, "succeeded", "recordSuccess") \/ onSuccess(c)
    \/ promote(c, "failed", "recordFailure") \/ onFailure(c)

Next == (\E c \in Callers : Execute(c)) \/ State \/ Tick \/ Environment

\* Callers keep calling, calls return, time passes.
Fairness == (\A c \in Callers : WF_vars(Execute(c))) /\ WF_vars(Tick)

Spec == Init /\ [][Next]_vars /\ Fairness
-----------------------------------------------------------------------------
\* Calls that are out: fn is running or its outcome is not yet recorded.
Out == {"call", "succeeded", "failed", "recordSuccess", "recordFailure"}

PC == Out \cup {"idle", "admit"}

\* Every variable holds a value of its type; only calls that are out are current,
\* none is while the circuit is open, and only an open circuit has an expiry.
TypeOK ==
    /\ state \in States
    /\ counts \in [requests : Nat, successes : Nat, failures : Nat,
                   consecSuccess : Nat, consecFailure : Nat]
    /\ expiry \in 0..OpenTimeout /\ (state # "open" => expiry = 0)
    /\ pc \in [Callers -> PC]
    /\ current \subseteq {c \in Callers : pc[c] \in Out}
    /\ state = "open" => current = {}
    /\ healthy \in BOOLEAN

\* Every request counted in a generation has an outcome counted in it or is
\* still out: none is lost, none counted twice, whatever transitions happen
\* while calls are running.  Were one lost in half-open, its share of the quota
\* would never come back and the breaker would reject calls for good.
RequestsAccounted ==
    counts.requests = counts.successes + counts.failures + Cardinality(current)

\* A half-open circuit never lets more than MaxRequests calls through to the
\* dependency, however many callers wait for it to recover.
TrialQuota == state = "half-open" => counts.requests <= MaxRequests

\* A closed circuit has not met its consecutive-failures threshold, and a
\* half-open one has seen no failure: each is left at once.
TripsInTime ==
    /\ state = "closed" /\ ConsecutiveFailures > 0 => counts.consecFailure < ConsecutiveFailures
    /\ state = "half-open" => counts.failures = 0

\* The generation's books are right in every state, whatever calls overlap its
\* transitions: beforeRequest, onSuccess, onFailure and setState keep them.
Accounting == TypeOK /\ RequestsAccounted /\ TrialQuota /\ TripsInTime

\* An open circuit stays open until its timeout has passed, and leaves only to
\* half-open: no late outcome of an earlier generation closes or reopens it.
OpenHolds ==
    [][state = "open" /\ state' # "open" => expiry = 0 /\ state' = "half-open"]_vars

\* The breaker never wedges: if the dependency is healthy for good, the circuit
\* closes and stays closed.
Recovers == (<>[]healthy) => <>[](state = "closed")
=============================================================================
