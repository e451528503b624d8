------------------------------- MODULE Cache --------------------------------
(***************************************************************************)
(* cache.Memory (cache/cache.go, cache/atomic.go) under concurrent         *)
(* callers.  A critical section of mu is a step.  Get reads under the read *)
(* lock and evicts an expired entry under a write lock taken later;        *)
(* Remember is a Get and, on a miss, rememberOnce with its own lock and    *)
(* its flights.  An entry's value is abstracted to how it came there.      *)
(***************************************************************************)
EXTENDS Integers, FiniteSets

CONSTANTS
    Keys, Procs,
    MaxTTL,         \* bound: the longest TTL in ticks
    MaxWrites,      \* bound: plain writes and removals
    None

VARIABLES
    items,          \* Memory.items, None for a key that is not in the map
    flights,        \* Memory.flights: the producer that fills a key
    flightMu,       \* who holds flightMu
    pc, key,        \* what each process is doing, and to which key
    on,             \* the producer whose flight a process waits for
    sweeping,       \* Close has not been called
    writes,         \* bound used up
    lock            \* history: time left of the latest Add that won a key,
                    \* None once the key was written or removed on purpose

pvars == <<pc, key, on>>
vars == <<items, flights, flightMu, pvars, sweeping, writes, lock>>

-----------------------------------------------------------------------------
\* Times left: Forever for the zero expiry, 0 once the expiry has passed.
Forever == -1

Item(v, ttl) == [v |-> v, left |-> IF ttl > 0 THEN ttl ELSE Forever]

expired(it) == it.left = 0

Live(k) == items[k] # None /\ ~expired(items[k])

TTLs == -1..MaxTTL      \* negative: already expired; 0: forever

Init ==
    /\ items = [k \in Keys |-> None]
    /\ flights = [k \in Keys |-> None]
    /\ flightMu = None
    /\ pc = [p \in Procs |-> "idle"]
    /\ key = [p \in Procs |-> None] /\ on = [p \in Procs |-> None]
    /\ sweeping = TRUE /\ writes = 0
    /\ lock = [k \in Keys |-> None]

-----------------------------------------------------------------------------
(* Operations that are one critical section.                               *)

Write(K, it) ==
    /\ writes < MaxWrites
    /\ writes' = writes + 1
    /\ items' = [k \in Keys |-> IF k \in K THEN it ELSE items[k]]
    /\ lock' = [k \in Keys |-> IF k \in K THEN None ELSE lock[k]]
    /\ UNCHANGED <<flights, flightMu, pvars, sweeping>>

\* PutMany, and Put and Forever for one key.
PutMany(K, ttl) == Write(K, IF ttl < 0 THEN None ELSE Item("put", ttl))

\* Forget, Pull and Flush take entries out, live or expired.
Forget(k) == items[k] # None /\ Write({k}, None)
Flush == (\E k \in Keys : items[k] # None) /\ Write(Keys, None)

\* A live value blocks an Add; a negative TTL wins the key and stores nothing.
Add(k, ttl) ==
    /\ writes < MaxWrites /\ ~Live(k)
    /\ writes' = writes + 1
    /\ items' = [items EXCEPT ![k] = IF ttl < 0 THEN None ELSE Item("lock", ttl)]
    /\ lock' = [lock EXCEPT ![k] = IF ttl < 0 THEN None ELSE Item("lock", ttl).left]
    /\ UNCHANGED <<flights, flightMu, pvars, sweeping>>

\* Increment and Decrement store a counter without expiry, over a missing or
\* expired entry or one that is a number; over another they change nothing.
Increment(k) == Write({k}, Item("count", 0))

\* The sweeper's tick.
purgeExpired ==
    /\ sweeping
    /\ \E k \in Keys : items[k] # None /\ expired(items[k])
    /\ items' = [k \in Keys |-> IF Live(k) THEN items[k] ELSE None]
    /\ UNCHANGED <<flights, flightMu, pvars, sweeping, writes, lock>>

Close ==
    /\ sweeping
    /\ sweeping' = FALSE
    /\ UNCHANGED <<items, flights, flightMu, pvars, writes, lock>>

-----------------------------------------------------------------------------
(* Remember.                                                               *)

Goto(p, l) == pc' = [pc EXCEPT ![p] = l]

\* The first half of Get: a live entry is a hit and the caller goes to hit, a
\* missing one is a miss; an expired one is a miss after its eviction.
GetRead(p, k, hit, miss, evict) ==
    Goto(p, IF items[k] = None THEN miss ELSE IF expired(items[k]) THEN evict ELSE hit)

Remember(p, k) ==
    /\ pc[p] = "idle"
    /\ key' = [key EXCEPT ![p] = k]
    /\ GetRead(p, k, "idle", "missed", "evict")
    /\ UNCHANGED <<items, flights, flightMu, on, sweeping, writes, lock>>

\* Get and Has by themselves.
Get(p, k) ==
    /\ pc[p] = "idle"
    /\ key' = [key EXCEPT ![p] = k]
    /\ GetRead(p, k, "idle", "idle", "evictGet")
    /\ UNCHANGED <<items, flights, flightMu, on, sweeping, writes, lock>>

\* The second half of Get deletes whatever is there by now.
GetEvict(p) ==
    /\ pc[p] \in {"evict", "evictGet", "evictLocked"}
    /\ items' = [items EXCEPT ![key[p]] = None]
    /\ Goto(p, CASE pc[p] = "evict" -> "missed"
                 [] pc[p] = "evictGet" -> "idle"
                 [] pc[p] = "evictLocked" -> "register")
    /\ UNCHANGED <<flights, flightMu, key, on, sweeping, writes, lock>>

\* A producer is at work on the key.
inFlight_never(k) == FALSE
inFlight(k) == flights[k] # None

\* rememberOnce waits for a flight, or keeps flightMu for the re-check ...
rememberOnce(p) ==
    /\ pc[p] = "missed" /\ flightMu = None
    /\ IF inFlight(key[p])
       THEN /\ Goto(p, "wait")
            /\ on' = [on EXCEPT ![p] = flights[key[p]]]
            /\ UNCHANGED flightMu
       ELSE flightMu' = p /\ Goto(p, "recheck") /\ UNCHANGED on
    /\ UNCHANGED <<items, flights, key, sweeping, writes, lock>>

\* ... which is a Get with flightMu held: a hit releases it and returns.
recheck_skipped(p) == Goto(p, "register") /\ UNCHANGED flightMu
recheck(p) ==
    /\ GetRead(p, key[p], "idle", "register", "evictLocked")
    /\ flightMu' = IF Live(key[p]) THEN None ELSE flightMu

Recheck(p) ==
    /\ pc[p] = "recheck" /\ recheck(p)
    /\ UNCHANGED <<items, flights, key, on, sweeping, writes, lock>>

\* A miss: the caller registers its flight and becomes the producer.
Register(p) ==
    /\ pc[p] = "register"
    /\ flights' = [flights EXCEPT ![key[p]] = p]
    /\ flightMu' = None
    /\ Goto(p, "fn")
    /\ UNCHANGED <<items, key, on, sweeping, writes, lock>>

\* fn returns a value, which is Put, or an error, which is not.
FnReturns(p, ttl) ==
    /\ pc[p] = "fn"
    /\ Goto(p, "filled")
    /\ items' = [items EXCEPT ![key[p]] = IF ttl < 0 THEN None ELSE Item("filled", ttl)]
    /\ lock' = [lock EXCEPT ![key[p]] = None]
    /\ UNCHANGED <<flights, flightMu, key, on, sweeping, writes>>

FnFails(p) ==
    /\ pc[p] = "fn"
    /\ Goto(p, "filled")
    /\ UNCHANGED <<items, flights, flightMu, key, on, sweeping, writes, lock>>

Deregister(p) ==
    /\ pc[p] = "filled" /\ flightMu = None
    /\ flights' = [flights EXCEPT ![key[p]] = None]
    /\ Goto(p, "close")
    /\ UNCHANGED <<items, flightMu, key, on, sweeping, writes, lock>>

\* close(fl.done) lets the waiters go.
woken_none(p) == {}
woken(p) == {q \in Procs : on[q] = p}
CloseFlight(p) ==
    /\ pc[p] = "close"
    /\ pc' = [q \in Procs |-> IF q = p \/ q \in woken(p) THEN "idle" ELSE pc[q]]
    /\ on' = [q \in Procs |-> IF q \in woken(p) THEN None ELSE on[q]]
    /\ UNCHANGED <<items, flights, flightMu, key, sweeping, writes, lock>>

\* A waiter's context ends first.
WaitCancelled(p) ==
    /\ pc[p] = "wait"
    /\ Goto(p, "idle")
    /\ on' = [on EXCEPT ![p] = None]
    /\ UNCHANGED <<items, flights, flightMu, key, sweeping, writes, lock>>

\* One unit of time.
Tick ==
    LET older(n) == IF n > 0 THEN n - 1 ELSE n
    IN  /\ \E k \in Keys : items[k] # None /\ items[k].left > 0
        /\ items' = [k \in Keys |-> IF items[k] = None THEN None
                                    ELSE [items[k] EXCEPT !.left = older(@)]]
        /\ lock' = [k \in Keys |-> IF lock[k] = None THEN None ELSE older(lock[k])]
        /\ UNCHANGED <<flights, flightMu, pvars, sweeping, writes>>
-----------------------------------------------------------------------------
\* The steps a call takes by itself.
Proceed(p) ==
    \/ GetEvict(p) \/ rememberOnce(p) \/ Recheck(p) \/ Register(p)
    \/ (\E ttl \in TTLs : FnReturns(p, ttl)) \/ FnFails(p)
    \/ Deregister(p) \/ CloseFlight(p)

Next ==
    \/ \E K \in SUBSET Keys \ {{}}, ttl \in TTLs : PutMany(K, ttl)
    \/ \E k \in Keys : Forget(k) \/ Increment(k) \/ \E ttl \in TTLs : Add(k, ttl)
    \/ Flush \/ purgeExpired \/ Close \/ Tick
    \/ \E p \in Procs : Proceed(p) \/ WaitCancelled(p) \/ \E k \in Keys : Get(p, k) \/ Remember(p, k)

\* Goroutines run and fn returns; flightMu is handed on fairly (sync.Mutex
\* does not starve a waiter).
Fairness ==
    \A p \in Procs : WF_vars(Proceed(p)) /\ SF_vars(rememberOnce(p)) /\ SF_vars(Deregister(p))

Spec == Init /\ [][Next]_vars /\ Fairness
-----------------------------------------------------------------------------
Locations == {"idle", "evict", "evictGet", "missed", "wait", "recheck", "evictLocked", "register", "fn",
              "filled", "close"}

Times == Forever..MaxTTL

\* Every variable holds a value of its type, and flightMu is held exactly by
\* the process that re-checks.
TypeOK ==
    /\ \A k \in Keys : items[k] = None \/
           items[k] \in [v : {"put", "filled", "lock", "count"}, left : Times]
    /\ \A k \in Keys : flights[k] \in Procs \cup {None} /\ lock[k] \in Times \cup {None}
    /\ pc \in [Procs -> Locations] /\ flightMu \in Procs \cup {None}
    /\ \A p \in Procs : flightMu = p <=> pc[p] \in {"recheck", "evictLocked", "register"}

\* "concurrent Remember calls for the same missing key collapse onto a single
\* fn invocation": at most one fn runs for a key, and its flight is registered.
SingleFlight ==
    \A p \in Procs : pc[p] \in {"fn", "filled"} => flights[key[p]] = p

\* What Remember, its flights and the writers around it keep of the store.
Flights == TypeOK /\ SingleFlight

\* The re-check keeps a slow caller from computing again what another flight
\* stored after the caller's first miss: fn does not start while the key holds
\* a live value that Remember put there.
NoRefill ==
    [][\A p \in Procs : pc[p] = "register" /\ pc'[p] = "fn"
         => ~(Live(key[p]) /\ items[key[p]].v = "filled")]_vars

\* Every Remember returns: nobody waits for a flight that is never closed.
RememberReturns == \A p \in Procs : pc[p] # "idle" ~> pc[p] = "idle"

-----------------------------------------------------------------------------
(* A claim of the repository that the code does not keep.                  *)

\* "Add is a safe lock primitive: of N concurrent Adds for the same key exactly
\* one wins": while the winner's TTL runs and nobody writes or removes the key,
\* its value is there to block the others.
AddExcludes ==
    \A k \in Keys : lock[k] # None /\ lock[k] # 0 => Live(k) /\ items[k].v = "lock"

-----------------------------------------------------------------------------
(* The inductive invariant of Flights and NoRefill (ResilienceProofs).     *)

Entry == [v : {"put", "filled", "lock", "count"}, left : Times]
Locked == {"recheck", "evictLocked", "register"}

CacheType ==
    /\ items \in [Keys -> Entry \cup {None}]
    /\ flights \in [Keys -> Procs \cup {None}]
    /\ lock \in [Keys -> Times \cup {None}]
    /\ pc \in [Procs -> Locations] /\ flightMu \in Procs \cup {None}
    /\ on \in [Procs -> Procs \cup {None}]
    /\ key \in [Procs -> Keys \cup {None}]
    /\ \A p \in Procs : pc[p] # "idle" => key[p] \in Keys

\* flightMu is held exactly by the process that re-checks, and its key has no flight.
MutexInv ==
    \A p \in Procs : /\ flightMu = p <=> pc[p] \in Locked
                     /\ pc[p] \in Locked => flights[key[p]] = None

\* Only processes that wait are woken.
WaitInv == \A p \in Procs : on[p] # None => pc[p] = "wait"

\* Between the re-check and the flight nobody fills the key.
UnfilledInv ==
    \A p \in Procs : pc[p] = "register" => items[key[p]] = None \/ items[key[p]].v # "filled"

CacheInv == CacheType /\ MutexInv /\ WaitInv /\ UnfilledInv /\ SingleFlight
=============================================================================
