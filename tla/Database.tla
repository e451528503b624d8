------------------------------ MODULE Database ------------------------------
(***************************************************************************)
(* database.Manager and Connection: goroutines open connections under      *)
(* names, hand in their own, replace the logger, run transactions and      *)
(* close.  Open builds the pool and reads the manager's logger before it   *)
(* takes the lock.                                                         *)
(***************************************************************************)
EXTENDS Integers, FiniteSets

CONSTANTS
    Names, Procs,
    Pools,          \* Connections that may be built; each wraps a pool of its own
    MaxLoggers,     \* bound: calls of SetLogger
    None

VARIABLES
    conns,      \* Manager.connections: name -> Connection, None if absent
    pool,       \* pool[k]: "none", "open" or "closed" (Connection.closed)
    log,        \* log[k]: Connection.Log
    mgrLog,     \* Manager.log
    defaultName,
    calls,      \* calls[p]: an Open between factory and lock, or a Transaction
    replaced    \* history: connections a SetLogger passed over while they were being opened

dbVars == <<conns, pool, log, mgrLog, defaultName, calls, replaced>>
NoCall == [op |-> "none", name |-> None, conn |-> None]

Init ==
    /\ conns = [n \in Names |-> None] /\ pool = [k \in Pools |-> "none"] /\ log = [k \in Pools |-> 0]
    /\ mgrLog = 0 /\ defaultName = None
    /\ calls = [p \in Procs |-> NoCall] /\ replaced = {}

Fresh == {k \in Pools : pool[k] = "none"}
Registered == {conns[n] : n \in Names} \ {None}

-----------------------------------------------------------------------------
\* Open up to the pool and the Connection; an unknown driver, a bad DSN or a failing
\* factory leave nothing behind.
OpenPool(p, n) ==
    /\ calls[p] = NoCall /\ Fresh # {}
    /\ LET k == CHOOSE x \in Fresh : TRUE IN
       /\ pool' = [pool EXCEPT ![k] = "open"] /\ log' = [log EXCEPT ![k] = mgrLog]
       /\ calls' = [calls EXCEPT ![p] = [op |-> "open", name |-> n, conn |-> k]]
    /\ UNCHANGED <<conns, mgrLog, defaultName, replaced>>

\* Open under the lock: a taken name closes the new pool.
duplicate(k) == pool' = [pool EXCEPT ![k] = "closed"]
register(n, k) ==
    /\ conns' = [conns EXCEPT ![n] = k]
    /\ defaultName' = IF defaultName = None THEN n ELSE defaultName
Open(p) ==
    /\ calls[p].op = "open"
    /\ IF conns[calls[p].name] # None
       THEN duplicate(calls[p].conn) /\ UNCHANGED <<conns, defaultName>>
       ELSE register(calls[p].name, calls[p].conn) /\ UNCHANGED pool
    /\ calls' = [calls EXCEPT ![p] = NoCall]
    /\ UNCHANGED <<log, mgrLog, replaced>>

\* Use registers a connection the application built or has from Connection, and
\* closes the one it replaces.
Use(p, n, k) ==
    /\ calls[p] = NoCall
    /\ k \in Registered \/ (Fresh # {} /\ k = CHOOSE x \in Fresh : TRUE)
    /\ pool' = [x \in Pools |-> IF x = conns[n] /\ x # k THEN "closed"
                                ELSE IF x = k /\ pool[x] = "none" THEN "open" ELSE pool[x]]
    /\ register(n, k)
    /\ log' = IF pool[k] = "none" THEN [log EXCEPT ![k] = -1] ELSE log
    /\ UNCHANGED <<mgrLog, calls, replaced>>

\* SetLogger reaches the connections in the map.
reached == Registered
SetLogger ==
    /\ mgrLog < MaxLoggers
    /\ mgrLog' = mgrLog + 1
    /\ log' = [k \in Pools |-> IF k \in reached THEN mgrLog + 1 ELSE log[k]]
    /\ replaced' = replaced \cup {calls[p].conn : p \in {q \in Procs : calls[q].op = "open"}}
    /\ UNCHANGED <<conns, pool, defaultName, calls>>

SetDefault(n) ==
    /\ conns[n] # None
    /\ defaultName' = n
    /\ UNCHANGED <<conns, pool, log, mgrLog, calls, replaced>>

\* Manager.Close closes every connection and keeps them all in the map.
Close ==
    /\ Registered # {}
    /\ pool' = [k \in Pools |-> IF k \in Registered THEN "closed" ELSE pool[k]]
    /\ UNCHANGED <<conns, log, mgrLog, defaultName, calls, replaced>>

\* Transaction on the connection Default returns: begin, then fn, then commit,
\* rollback after an error, or rollback before the panic goes on.
Begin(p) ==
    /\ calls[p] = NoCall /\ defaultName # None
    /\ pool[conns[defaultName]] = "open"
    /\ calls' = [calls EXCEPT ![p] = [op |-> "tx", name |-> None, conn |-> conns[defaultName]]]
    /\ UNCHANGED <<conns, pool, log, mgrLog, defaultName, replaced>>
Transaction(p) ==
    /\ calls[p].op = "tx"
    /\ calls' = [calls EXCEPT ![p] = NoCall]
    /\ UNCHANGED <<conns, pool, log, mgrLog, defaultName, replaced>>

Next ==
    \/ \E p \in Procs : Open(p) \/ Begin(p) \/ Transaction(p)
                        \/ \E n \in Names : OpenPool(p, n) \/ \E k \in Pools : Use(p, n, k)
    \/ \E n \in Names : SetDefault(n)
    \/ SetLogger \/ Close

-----------------------------------------------------------------------------
\* No pool leaks: every open one is in the manager, where Close finds it, or in an
\* Open that is still under way, whichever Opens of a name race and whatever Use
\* replaces.  (A connection registered under two names leaves the second one with
\* a closed pool when Use replaces the first.)
PoolsOwned ==
    \A k \in Pools : pool[k] = "open" =>
        k \in Registered \/ \E p \in Procs : calls[p].op = "open" /\ calls[p].conn = k

\* Every connection Open registered logs where the manager does, unless SetLogger
\* ran between its creation and its registration.
LoggersAgree == \A k \in Registered : log[k] \in {mgrLog, -1} \/ k \in replaced
-----------------------------------------------------------------------------
(* The inductive invariants of the properties above (InnerServicesProofs). *)
Opening(p) == calls[p].op = "open"
TypeOK ==
    /\ conns \in [Names -> Pools \cup {None}] /\ pool \in [Pools -> {"none", "open", "closed"}]
    /\ log \in [Pools -> Int] /\ mgrLog \in Int /\ defaultName \in Names \cup {None}
    /\ calls \in [Procs -> [op : {"none", "open", "tx"}, name : Names \cup {None}, conn : Pools \cup {None}]]
\* A connection that is being opened belongs to that call alone until it is registered,
\* and logs where the manager did when it was built.
OpenedApart ==
    /\ \A n \in Names : conns[n] # None => pool[conns[n]] # "none"
    /\ \A p \in Procs : Opening(p) =>
          /\ calls[p].name \in Names /\ calls[p].conn \in Pools /\ pool[calls[p].conn] = "open"
          /\ calls[p].conn \notin Registered
          /\ log[calls[p].conn] = mgrLog \/ calls[p].conn \in replaced
    /\ \A p, q \in Procs : Opening(p) /\ Opening(q) /\ calls[p].conn = calls[q].conn => p = q
Inv == TypeOK /\ OpenedApart /\ PoolsOwned /\ LoggersAgree
=============================================================================
