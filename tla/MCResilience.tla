---------------------------- MODULE MCResilience ----------------------------
(***************************************************************************)
(* What stands between a caller and a slow or failing dependency, for TLC: *)
(* the circuit breaker, the chain of the other policies, and the memory    *)
(* cache with the flights of Remember.  They share no state, so each       *)
(* behaviour is about one of them, chosen in the initial state.            *)
(***************************************************************************)
EXTENDS Breaker

CONSTANTS Parts,    \* the parts a run is about, of "breaker", "policies" and "cache"
          Calls, MaxAttempts, MaxConcurrent, MaxQueue, Burst, Cancellable,
          Keys, Procs, MaxTTL, MaxWrites, None
ASSUME PoliciesAssumption == IsFiniteSet(Calls) /\ MaxAttempts \in Nat /\ MaxConcurrent \in Nat
ASSUME CacheAssumption == MaxTTL \in Nat \ {0} /\ None \notin Procs

VARIABLES part, call, job, tokens, gone,
          items, flights, flightMu, cachePc, key, on, sweeping, writes, lock

P == INSTANCE Policies
Ca == INSTANCE Cache WITH pc <- cachePc

polVars == <<call, job, tokens, gone>>
cacheVars == <<items, flights, flightMu, cachePc, key, on, sweeping, writes, lock>>
mcVars == <<part, vars, polVars, cacheVars>>

InBreaker == part = "breaker" /\ UNCHANGED <<part, polVars, cacheVars>>
InPolicies == part = "policies" /\ UNCHANGED <<part, vars, cacheVars>>
InCache == part = "cache" /\ UNCHANGED <<part, vars, polVars>>

\* Whether the dependency is healthy matters to the breaker alone.
MCInit == part \in Parts /\ Init /\ P!Init /\ Ca!Init /\ (part # "breaker" => healthy)

MCNext ==
    \/ InBreaker /\ Next
    \/ InPolicies /\ P!Next
    \/ InCache /\ Ca!Next

\* The fairness of the modules, over the variables of this one.
MCFairness ==
    /\ \A c \in Callers : WF_mcVars(InBreaker /\ Execute(c))
    /\ WF_mcVars(InBreaker /\ Tick)
    /\ \A c \in Calls : WF_mcVars(InPolicies /\ P!CallStep(c))
    /\ \A j \in P!Jobs :
          /\ WF_mcVars(InPolicies /\ P!JobStep(j))
          /\ WF_mcVars(InPolicies /\ P!Cancelled(j) /\ P!fnReturns(j))
    /\ \A p \in Procs :
          /\ WF_mcVars(InCache /\ Ca!Proceed(p))
          /\ SF_mcVars(InCache /\ Ca!rememberOnce(p)) /\ SF_mcVars(InCache /\ Ca!Deregister(p))

MCSpec == MCInit /\ [][MCNext]_mcVars /\ MCFairness

-----------------------------------------------------------------------------
(* The properties of Policies and Cache, under names of this module.       *)

\* Executions are bounded by MaxConcurrent, and a call has one attempt with a live context.
PoliciesSafe == P!PoliciesSafe
\* Every slot and queue ticket of the bulkhead is given back.
SlotsComeBack == P!SlotsComeBack
\* At most one fn of Remember runs for a key, under a registered flight.
Flights == Ca!Flights
\* fn does not start while the key holds a live value that another flight stored.
NoRefill == Ca!NoRefill
\* Every Remember returns.
RememberReturns == Ca!RememberReturns
=============================================================================
