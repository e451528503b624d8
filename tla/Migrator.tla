------------------------------ MODULE Migrator ------------------------------
(***************************************************************************)
(* migrations.Migrator, its Repository and its row Lock: several migrators *)
(* of possibly different releases over one database with transactional     *)
(* DDL.  A statement or transaction is a step; a migrator may die between  *)
(* two of them, or have its context cancelled, which also fails the        *)
(* DELETE of the deferred Release.  Migration names are numbers in lexical *)
(* order.  Pretend and AllowOutOfOrder are off.                            *)
(***************************************************************************)
EXTENDS Integers, FiniteSets

CONSTANTS
    Migrators,      \* processes
    Source,         \* Source[m][n]: the checksum of n in m's registry, 0 if not registered
    Enforcing,      \* migrators with EnforceChecksums
    MaxCommands,    \* bound: commands started
    MaxFaults       \* bound: crashes and cancellations

VARIABLES
    tables,     \* migrations whose Up is in effect: the user tables
    records,    \* rows of the migrations table
    ensured,    \* the migrations table exists
    lock,       \* who inserted the row of migrations_lock, or "free"
    at,         \* each migrator's position
    commands,   \* commands started
    faulty,     \* migrators that died or were cancelled
    raced       \* a Fresh was dropping tables while another migrator held the lock

migVars == <<tables, records, ensured, lock, at, commands, faulty, raced>>

MigrationNames == DOMAIN Source[CHOOSE m \in Migrators : TRUE]
Checksum(m, n) == Source[m][n]
Record(n, batch, sum) == [name |-> n, batch |-> batch, sum |-> sum]
Registered(m) == {n \in MigrationNames : Source[m][n] # 0}
Applied == {r.name : r \in records}
\* todo: the tables to drop, or the names to apply; undo: the records to revert; since: the
\* migrations others applied since a Reset counted the records.
Idle == [pc |-> "idle", op |-> "up", step |-> 0, then |-> FALSE, todo |-> {}, undo |-> {}, batch |-> 0, since |-> 0]
Critical(m) == at[m].pc \in {"plan", "number", "apply", "revert", "release"}
Goto(m, pc) == at' = [at EXCEPT ![m].pc = pc]

Init ==
    /\ tables = {} /\ records = {} /\ ensured = FALSE /\ lock = "free"
    /\ at = [m \in Migrators |-> Idle]
    /\ commands = 0 /\ faulty = {} /\ raced = FALSE

-----------------------------------------------------------------------------
\* Up, Step(1), Rollback(0 or 1), Reset, Refresh and Fresh are called.
Start(m) ==
    /\ at[m].pc = "idle" /\ commands < MaxCommands
    /\ commands' = commands + 1
    /\ \E c \in {Idle, [Idle EXCEPT !.step = 1], [Idle EXCEPT !.op = "rollback"],
                 [Idle EXCEPT !.op = "rollback", !.step = 1], [Idle EXCEPT !.op = "reset"],
                 [Idle EXCEPT !.op = "reset", !.then = TRUE]} :
          at' = [at EXCEPT ![m] = [c EXCEPT !.pc = "ensure"]]
    /\ UNCHANGED <<tables, records, ensured, lock, faulty, raced>>

\* Every table but the lock table; 0 stands for migrations.
listTables == tables \cup (IF ensured THEN {0} ELSE {})

\* Fresh lists the tables to drop.
Fresh(m) ==
    /\ at[m].pc = "idle" /\ commands < MaxCommands
    /\ commands' = commands + 1
    /\ at' = [at EXCEPT ![m] = [Idle EXCEPT !.pc = "drop", !.todo = listTables]]
    /\ raced' = (raced \/ \E o \in Migrators \ {m} : Critical(o))
    /\ UNCHANGED <<tables, records, ensured, lock, faulty>>

\* dropAllTables: DROP TABLE IF EXISTS, one by one in the order the database listed
\* them, without the lock; then Up.
dropAllTables(m) ==
    /\ at[m].pc = "drop"
    /\ \/ at[m].todo = {} /\ Goto(m, "ensure") /\ UNCHANGED <<tables, records, ensured>>
       \/ \E t \in at[m].todo :
            /\ tables' = tables \ {t}
            /\ records' = (IF t = 0 THEN {} ELSE records)
            /\ ensured' = (ensured /\ t # 0)
            /\ at' = [at EXCEPT ![m].todo = @ \ {t}]
    /\ UNCHANGED <<lock, commands, faulty, raced>>

\* Repository.Ensure.
Ensure(m) ==
    /\ at[m].pc = "ensure"
    /\ ensured' = TRUE
    /\ Goto(m, IF at[m].op = "reset" THEN "count" ELSE "acquire")
    /\ UNCHANGED <<tables, records, lock, commands, faulty, raced>>

\* Reset counts the records, without the lock, and calls Rollback(count).
Count(m) ==
    /\ at[m].pc = "count"
    /\ at' = [at EXCEPT ![m] = IF ensured THEN [@ EXCEPT !.pc = "ensure", !.op = "rollback",
                                                         !.step = Cardinality(records), !.since = 0]
                                          ELSE Idle]
    /\ UNCHANGED <<tables, records, ensured, lock, commands, faulty, raced>>

\* Lock.acquireRow: the INSERT succeeds when the row is not there.
rowFree_any == TRUE
rowFree == lock = "free"
Acquire(m) ==
    /\ at[m].pc = "acquire" /\ rowFree
    /\ lock' = m
    /\ Goto(m, "plan")
    /\ raced' = (raced \/ \E o \in Migrators \ {m} : at[o].pc = "drop")
    /\ UNCHANGED <<tables, records, ensured, commands, faulty>>

\* The deadline passes while somebody else's row is there.
AcquireTimeout(m) ==
    /\ at[m].pc = "acquire" /\ ~rowFree
    /\ at' = [at EXCEPT ![m] = Idle]
    /\ UNCHANGED <<tables, records, ensured, lock, commands, faulty, raced>>

-----------------------------------------------------------------------------
\* A recorded checksum differs from the one of this release.
verifyChecksums(m) == \A r \in records : r.name \in Registered(m) => r.sum = Checksum(m, r.name)

isOutOfOrder(n) == \E a \in Applied : n < a

\* runUp: the pending migrations in name order, at most limit of them.
pending(m) == Registered(m) \ Applied
limited(S, limit) == IF limit > 0 /\ limit < Cardinality(S) THEN limit ELSE Cardinality(S)
firsts(S, k) == {T \in SUBSET S : Cardinality(T) = k /\ \A n \in T, o \in S \ T : n < o}

PlanUp(m) ==
    /\ at[m].pc = "plan" /\ at[m].op = "up"
    /\ \E todo \in firsts(pending(m), limited(pending(m), at[m].step)) :
          IF /\ ensured /\ todo # {}
             /\ m \in Enforcing => verifyChecksums(m)
             /\ \A n \in todo : ~isOutOfOrder(n)
          THEN at' = [at EXCEPT ![m] = [@ EXCEPT !.pc = "number", !.todo = todo]]
          ELSE Goto(m, "release")
    /\ UNCHANGED <<tables, records, ensured, lock, commands, faulty, raced>>

\* Repository.LastBatch: the highest batch, 0 without records.
batches == {r.batch : r \in records} \cup {0}
LastBatch(b) == \A r \in records : r.batch <= b
Number(m) ==
    /\ at[m].pc = "number"
    /\ IF ensured THEN \E b \in batches : LastBatch(b) /\ at' = [at EXCEPT ![m] = [@ EXCEPT !.pc = "apply", !.batch = b + 1]]
                  ELSE Goto(m, "release")
    /\ UNCHANGED <<tables, records, ensured, lock, commands, faulty, raced>>

\* The migrations table after the transaction of applyOne or revertOne.
insertRecord(m, n) == records \cup {Record(n, at[m].batch, Checksum(m, n))}

\* applyOne: Up and Insert in one transaction.  It fails when the table or the
\* record is there, when the migrations table is gone, or when Up does.
Applying(m, n) == [o \in Migrators |-> IF o = m THEN [at[m] EXCEPT !.todo = @ \ {n}] ELSE [at[o] EXCEPT !.since = @ + 1]]
applyOne(m) ==
    /\ at[m].pc = "apply"
    /\ \/ \E n \in at[m].todo :
             /\ \A o \in at[m].todo : n <= o
             /\ ensured /\ n \notin tables /\ n \notin Applied
             /\ tables' = tables \cup {n}
             /\ records' = insertRecord(m, n)
             /\ at' = Applying(m, n)
       \/ Goto(m, "release") /\ UNCHANGED <<tables, records>>
    /\ UNCHANGED <<ensured, lock, commands, faulty, raced>>

\* Rollback: records by batch, then name, both descending; the last batch, or step of them.
later(r, s) == r.batch > s.batch \/ (r.batch = s.batch /\ r.name > s.name)
howMany(step) ==
    IF step <= 0 THEN Cardinality({r \in records : LastBatch(r.batch)})
    ELSE IF step < Cardinality(records) THEN step ELSE Cardinality(records)
targets(step) == {T \in SUBSET records : Cardinality(T) = howMany(step) /\ \A r \in T, s \in records \ T : later(r, s)}

PlanRollback(m) ==
    /\ at[m].pc = "plan" /\ at[m].op = "rollback"
    /\ \E undo \in targets(at[m].step) :
          at' = [at EXCEPT ![m].pc = IF ensured /\ undo # {} THEN "revert" ELSE "release",
                           ![m].then = @ /\ ensured, ![m].undo = undo]
    /\ UNCHANGED <<tables, records, ensured, lock, commands, faulty, raced>>

\* revertOne: Down and Delete in one transaction; an unregistered name is an error.
deleteRecord(n) == {r \in records : r.name # n}
revertOne(m) ==
    /\ at[m].pc = "revert"
    /\ \/ \E r \in at[m].undo :
             /\ \A s \in at[m].undo \ {r} : later(r, s)
             /\ r.name \in Registered(m) /\ ensured /\ r.name \in tables
             /\ tables' = tables \ {r.name}
             /\ records' = deleteRecord(r.name)
             /\ at' = [at EXCEPT ![m].undo = @ \ {r}]
       \/ Goto(m, "release") /\ UNCHANGED <<tables, records>>
    /\ UNCHANGED <<ensured, lock, commands, faulty, raced>>

\* The deferred Release; Refresh goes on with Up if its Reset returned no error.
freed(m) == "free"
Release(m) ==
    /\ at[m].pc = "release"
    /\ lock' = freed(m)
    /\ at' = [at EXCEPT ![m] = IF @.then /\ @.undo = {} THEN [Idle EXCEPT !.pc = "ensure"] ELSE Idle]
    /\ UNCHANGED <<tables, records, ensured, commands, faulty, raced>>

\* The process dies; its row stays.
Crash(m) ==
    /\ at[m].pc \notin {"idle", "dead"} /\ Cardinality(faulty) < MaxFaults
    /\ Goto(m, "dead")
    /\ faulty' = faulty \cup {m}
    /\ UNCHANGED <<tables, records, ensured, lock, commands, raced>>

\* The context is cancelled: the next statement fails, and so does the DELETE of Release.
Cancel(m) ==
    /\ at[m].pc \notin {"idle", "dead"} /\ Cardinality(faulty) < MaxFaults
    /\ at' = [at EXCEPT ![m] = Idle]
    /\ faulty' = faulty \cup {m}
    /\ UNCHANGED <<tables, records, ensured, lock, commands, raced>>

Step(m) ==
    \/ dropAllTables(m) \/ Ensure(m) \/ Count(m) \/ Acquire(m) \/ AcquireTimeout(m)
    \/ PlanUp(m) \/ Number(m) \/ applyOne(m) \/ PlanRollback(m) \/ revertOne(m) \/ Release(m)

Next == \E m \in Migrators : Start(m) \/ Fresh(m) \/ Step(m) \/ Crash(m) \/ Cancel(m)

-----------------------------------------------------------------------------
\* Only the migrator that inserted the lock row is between Acquire and Release.
OneMigrator == \A m \in Migrators : Critical(m) => lock = m

\* Whatever dies or fails, the tables are those the records name, unless a Fresh
\* is dropping tables, was broken off, or dropped them under another migrator.
SchemaInStep ==
    raced \/ (\E m \in Migrators : at[m].pc = "drop" \/ m \in faulty) \/ tables = Applied

\* A migration with a higher name never has a lower batch, whichever releases ran,
\* so that Rollback undoes in reverse order of application.
BatchesOrdered == \A r, s \in records : r.name < s.name => r.batch <= s.batch

\* A lock row whose owner has left its critical section was left by a crash or a
\* cancelled context; nothing else leaks the lock.
LeakNeedsFault == \A m \in Migrators : lock = m => Critical(m) \/ m \in faulty

\* A Reset that reverted all it set out to leaves at most as many records as others
\* applied after it counted.
ResetBounded ==
    \A m \in Migrators :
       at[m].pc = "release" /\ at[m].op = "rollback" /\ at[m].step >= 2 /\ at[m].undo = {}
          => Cardinality(records) <= at[m].since
-----------------------------------------------------------------------------
(* The inductive invariants of the properties above (OuterServicesProofs). *)
Records == [name : MigrationNames, batch : Nat, sum : Nat]
Positions == [pc : {"idle", "drop", "ensure", "count", "acquire", "plan", "number", "apply", "revert", "release", "dead"},
              op : {"up", "rollback", "reset"}, step : Nat, then : BOOLEAN, todo : SUBSET (MigrationNames \cup {0}),
              undo : SUBSET Records, batch : Nat, since : Nat]
MigType ==
    /\ tables \in SUBSET MigrationNames /\ records \in SUBSET Records /\ IsFiniteSet(records) /\ ensured \in BOOLEAN
    /\ lock \in Migrators \cup {"free"} /\ at \in [Migrators -> Positions] /\ faulty \in SUBSET Migrators /\ raced \in BOOLEAN
\* There are no records without their table; tables are dropped next to a held lock only when it raced.
Kept ==
    /\ ~ensured => records = {}
    /\ ~raced => \A m, o \in Migrators : at[m].pc = "drop" => ~Critical(o)
\* A Fresh still has everything there is to drop.
DropsAll(k) == ~raced /\ k.pc = "drop" => tables \subseteq k.todo /\ (records # {} => 0 \in k.todo)
\* What is to be applied comes after everything applied, in name and in batch.
Applies(k) ==
    /\ k.pc \in {"drop", "number", "apply"} => k.op = "up"
    /\ k.pc \in {"number", "apply"} => k.todo \subseteq MigrationNames /\ \A n \in k.todo, r \in records : r.name < n
    /\ k.pc = "apply" => \A r \in records : r.batch <= k.batch
\* A Reset has counted all records but those applied since.
Reverts(k) ==
    k.op = "rollback" /\ k.step >= 2 =>
       /\ k.pc \in {"ensure", "acquire", "plan"} => Cardinality(records) <= k.step + k.since
       /\ k.pc \in {"revert", "release"} => Cardinality(records \ k.undo) <= k.since
MigInv ==
    /\ MigType /\ Kept /\ OneMigrator /\ LeakNeedsFault /\ BatchesOrdered /\ SchemaInStep
    /\ \A m \in Migrators : DropsAll(at[m]) /\ Applies(at[m]) /\ Reverts(at[m])
=============================================================================
