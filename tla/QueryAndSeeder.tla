-------------------------- MODULE QueryAndSeeder ----------------------------
(***************************************************************************)
(* Two clients of a connection that share no state: the SQL builder of     *)
(* package query, and package seeder.                                      *)
(***************************************************************************)
EXTENDS Integers, Sequences, FiniteSets, SequencesExt

-----------------------------------------------------------------------------
(* query.Builder: clauses are collected call by call, and every terminal   *)
(* method compiles them into SQL text and its bound arguments.  A bound    *)
(* value is a number of its own, so that it can be told which placeholder  *)
(* it was meant for; 0 is nil.  In the database, the value is "x" or "y".  *)

CONSTANTS
    Columns,
    MaxClauses      \* bound: clauses of one builder

VARIABLES
    b,          \* the Builder: cols, distinct, wheres, joins, groups, havings, limit, bindings
    made,       \* values bound so far
    last        \* the statement compiled last: the placeholders it prints, and its arguments

qbVars == <<b, made, last>>
Is(v) == IF v = 0 THEN "null" ELSE IF v % 2 = 1 THEN "x" ELSE "y"

\* condition; neg makes = <>, IN NOT IN and IS NULL IS NOT NULL.
Cond(glue, kind, col, neg, values) ==
    [glue |-> glue, kind |-> kind, col |-> col, neg |-> neg, values |-> values, nested |-> <<>>]
Group(glue, conds) == [Cond(glue, "nested", "", FALSE, <<>>) EXCEPT !.nested = conds]

New == [cols |-> {}, distinct |-> FALSE, wheres |-> <<>>, joins |-> <<>>, groups |-> {}, havings |-> <<>>,
        limit |-> 0, bindings |-> 0]
NoStatement == [printed |-> <<>>, args |-> <<>>]

QueryInit == b = New /\ made = 0 /\ last = NoStatement

-----------------------------------------------------------------------------
\* The chaining methods.
nullAware(c) == IF c.values = <<0>> THEN [c EXCEPT !.kind = "null", !.values = <<>>] ELSE c

Clauses ==
    Len(b.wheres) + Len(b.joins) + Len(b.havings) + Cardinality(b.groups) + Cardinality(b.cols)
    + (IF b.distinct THEN 1 ELSE 0) + b.limit
Chain(next, used) == Clauses < MaxClauses /\ b' = next /\ made' = made + used /\ last' = NoStatement
AddWhere(c, used) == Chain([b EXCEPT !.wheres = Append(@, c)], used)

Where(glue, col, neg) == AddWhere(nullAware(Cond(glue, "cmp", col, neg, <<made + 1>>)), 1)
WhereNil(glue, col, neg) == AddWhere(nullAware(Cond(glue, "cmp", col, neg, <<0>>)), 0)
WhereGroup(glue, c1, c2, inner) ==
    AddWhere(Group(glue, <<Cond("AND", "cmp", c1, FALSE, <<made + 1>>), Cond(inner, "cmp", c2, FALSE, <<made + 2>>)>>), 2)
WhereIn(col, neg, n) == AddWhere(Cond("AND", "in", col, neg, [i \in 1 .. n |-> made + i]), n)
WhereNull(col, neg) == AddWhere(Cond("AND", "null", col, neg, <<>>), 0)
WhereBetween(col) == AddWhere(Cond("AND", "between", col, FALSE, <<made + 1, made + 2>>), 2)
WhereRaw(col) == AddWhere(Cond("AND", "raw", col, FALSE, <<made + 1>>), 1)

Join(n) == Chain([b EXCEPT !.joins = Append(@, [i \in 1 .. n |-> made + i])], n)
Having(col, neg) == Chain([b EXCEPT !.havings = Append(@, Cond("AND", "cmp", col, neg, <<made + 1>>))], 1)
GroupBy(col) == col \notin b.groups /\ Chain([b EXCEPT !.groups = @ \cup {col}], 0)
Select(cols) == cols # b.cols /\ Chain([b EXCEPT !.cols = cols], 0)
Distinct == ~b.distinct /\ Chain([b EXCEPT !.distinct = TRUE], 0)
Limit == b.limit = 0 /\ Chain([b EXCEPT !.limit = 1], 0)

hasOr(w) == \E i \in DOMAIN w : w[i].glue = "OR"
wrapped(w) == IF w # <<>> /\ hasOr(w) THEN <<Group("AND", w)>> ELSE w
WrapWheres == wrapped(b.wheres) # b.wheres /\ Chain([b EXCEPT !.wheres = wrapped(@)], 0)

-----------------------------------------------------------------------------
\* compileWheres: the numbered placeholders in the order of the text, with the value
\* each stands for (a raw expression brings its own, printed by the caller), and
\* the arguments.
Numbered(values, n) == [i \in DOMAIN values |-> [num |-> n + i, val |-> values[i]]]
RECURSIVE compileWheres(_, _)
compileWheres(conds, n) ==
    IF conds = <<>> THEN [printed |-> <<>>, args |-> <<>>, n |-> n]
    ELSE LET c == Head(conds)
             here == IF c.kind = "nested" THEN compileWheres(c.nested, n)
                     ELSE [printed |-> Numbered(c.values, n), args |-> c.values, n |-> n + Len(c.values)]
             rest == compileWheres(Tail(conds), here.n)
         IN  [printed |-> here.printed \o rest.printed, args |-> here.args \o rest.args, n |-> rest.n]

\* ToSQL: joins, then wheres, then havings.
startAt_kept == b.bindings
startAt == 0
ToSQL ==
    LET joined == FlattenSeq(b.joins)
        w == compileWheres(b.wheres, startAt + Len(joined))
        h == compileWheres(b.havings, w.n)
    IN  [printed |-> Numbered(joined, startAt) \o w.printed \o h.printed, args |-> joined \o w.args \o h.args, n |-> h.n]
Compile(s) ==
    /\ last' = [printed |-> s.printed, args |-> s.args]
    /\ b' = [b EXCEPT !.bindings = s.n]
    /\ UNCHANGED made
Get == Compile(ToSQL)

\* Update of n columns: the SET list first.
Update(n) ==
    /\ LET set == [i \in 1 .. n |-> 100 + i]
           w == compileWheres(b.wheres, n)
       IN  Compile([printed |-> Numbered(set, 0) \o w.printed, args |-> set \o w.args, n |-> w.n])
\* Insert and InsertBatch of n rows of two columns number theirs on their own.
Insert(n) ==
    /\ LET values == [i \in 1 .. 2 * n |-> 200 + i] IN last' = [printed |-> Numbered(values, 0), args |-> values]
    /\ UNCHANGED <<b, made>>
Delete == Compile(compileWheres(b.wheres, 0))

QueryNext ==
    \/ \E c, d \in Columns, neg \in BOOLEAN, glue, inner \in {"AND", "OR"} :
          \/ Where(glue, c, neg) \/ WhereNil(glue, c, neg) \/ WhereGroup(glue, c, d, inner)
    \/ \E c \in Columns, neg \in BOOLEAN :
          \/ WhereNull(c, neg) \/ Having(c, neg) \/ \E n \in 0 .. 2 : WhereIn(c, neg, n)
    \/ \E c \in Columns : WhereBetween(c) \/ WhereRaw(c) \/ GroupBy(c)
    \/ \E cols \in SUBSET Columns : Select(cols)
    \/ \E n \in 0 .. 1 : Join(n)
    \/ Distinct \/ Limit \/ WrapWheres \/ Get \/ Delete \/ Update(2) \/ Insert(2)

-----------------------------------------------------------------------------
\* What a database makes of the text: AND binds tighter than OR, and a comparison
\* with NULL is not true.
RECURSIVE Holds(_, _)
True(c, row) ==
    CASE c.kind = "null" -> (row[c.col] = "null") # c.neg
      [] c.kind = "in" /\ c.values = <<>> -> c.neg
      [] c.kind = "nested" -> Holds(c.nested, row)
      [] c.kind = "between" -> row[c.col] # "null"
                               /\ \/ row[c.col] \in {Is(c.values[1]), Is(c.values[2])}
                                     /\ <<Is(c.values[1]), Is(c.values[2])>> # <<"y", "x">>
      [] OTHER -> row[c.col] # "null" /\ (row[c.col] \in {Is(c.values[i]) : i \in DOMAIN c.values}) # c.neg
Holds(w, row) ==
    w = <<>> \/ \E i, j \in DOMAIN w :
        /\ i <= j /\ (i = 1 \/ w[i].glue = "OR") /\ (j = Len(w) \/ w[j + 1].glue = "OR")
        /\ \A k \in i .. j : True(w[k], row) /\ (k > i => w[k].glue = "AND")
AllRows == [Columns -> {"null", "x", "y"}]

\* Count works on a clone without order, limit and offset, and wraps a grouped or
\* distinct query.
wraps == b.groups # {} \/ b.distinct
Project(rows, cols) == {[c \in cols |-> r[c]] : r \in rows}
AllColumns == IF b.cols = {} THEN Columns ELSE b.cols
Matching == {r \in AllRows : Holds(b.wheres, r)}
Groups == {k \in Project(Matching, b.groups) : Holds(b.havings, k)}
InnerCount ==
    IF b.groups # {} THEN Cardinality(IF b.distinct THEN Project(Groups, b.cols) ELSE Groups)
    ELSE IF b.distinct THEN Cardinality(Project(Matching, AllColumns)) ELSE Cardinality(Matching)
Count == IF wraps THEN InnerCount ELSE Cardinality(Matching)

-----------------------------------------------------------------------------
\* Every statement prints its placeholders 1, 2, 3 ... in the order of its text, each
\* for the argument at that position, through joins, groups, empty lists and
\* repeated compilations of one builder.
PlaceholdersMatch ==
    /\ Len(last.printed) = Len(last.args)
    /\ \A i \in DOMAIN last.printed : last.printed[i].num = i /\ last.printed[i].val = last.args[i]

\* A condition appended after WrapWheres restricts the whole filter, as scopes,
\* cursors and key lookups rely on, whatever ORs the filter holds.
ScopesApply ==
    \A c \in Columns, row \in AllRows :
        LET x == Cond("AND", "null", c, TRUE, <<>>) IN
        Holds(Append(wrapped(b.wheres), x), row) <=> Holds(b.wheres, row) /\ True(x, row)

\* Count is the number of rows Get returns when it has no limit, for grouped and for
\* DISTINCT queries too (the selected and the HAVING columns being grouping columns).
CountAgrees ==
    (/\ b.groups = {} => b.havings = <<>>
     /\ b.groups # {} => /\ b.cols \subseteq b.groups /\ (b.distinct => b.cols # {})
                         /\ \A i \in DOMAIN b.havings : b.havings[i].col \in b.groups)
    => Count = InnerCount

-----------------------------------------------------------------------------
(* Package seeder: the registry's dependency sort and the runner.  A       *)
(* seeder inserts Rows rows one by one and may fail before any of them.    *)
(* The runner hands every seeder the connection itself, also inside        *)
(* Connection.Transaction: its rows are committed as they are written, and *)
(* the transaction around it stays empty.                                  *)

CONSTANTS Registered,     \* the registered seeders, in registration order
          Rows,           \* rows each seeder inserts
          Unknown,        \* a name no seeder is registered under
          Options         \* the Options of a run: [Transactional, Only]
VARIABLES deps,           \* each seeder's Dependencies()
          opts,           \* Options: Transactional, Only
          run,            \* the Runner: its plan, position, and how it ended
          table           \* the rows committed
seedVars == <<deps, opts, run, table>>
SeederNames == ToSet(Registered)
-----------------------------------------------------------------------------
(* Registry.Sorted: a depth-first visit in registration order. *)
Start == [out |-> <<>>, visiting |-> {}, done |-> {}, err |-> "none"]
enter(s, name) == [s EXCEPT !.visiting = @ \cup {name}]
leave(s, name) == [s EXCEPT !.visiting = @ \ {name}, !.done = @ \cup {name}, !.out = Append(@, name)]
RECURSIVE visit(_, _)
visit(s, name) ==
  CASE s.err # "none" -> s
    [] s.err = "none" /\ name \notin SeederNames -> [s EXCEPT !.err = "unknown"]
    [] s.err = "none" /\ name \in s.visiting -> [s EXCEPT !.err = "cycle"]
    [] s.err = "none" /\ name \in s.done -> s
    [] OTHER ->
         LET after == FoldLeft(visit, enter(s, name), SetToSortSeq(deps[name], LAMBDA a, c : a < c))
         IN  IF after.err = "none" THEN leave(after, name) ELSE after
Sorted == FoldLeft(visit, Start, Registered)
-----------------------------------------------------------------------------
NotRun == [pc |-> "new", plan |-> <<>>, pos |-> 1, rows |-> 0, err |-> "none"]
SeedInit ==
  /\ deps \in [SeederNames -> SUBSET (SeederNames \cup {Unknown})]
  /\ opts \in Options
  /\ run = NotRun /\ table = {}
wanted == SelectSeq(Sorted.out, LAMBDA s : opts.Only = {} \/ s \in opts.Only)
Run ==
  /\ run.pc = "new"
  /\ run' = IF Sorted.err # "none" THEN [run EXCEPT !.pc = "ended", !.err = Sorted.err]
            ELSE [run EXCEPT !.pc = "next", !.plan = wanted]
  /\ UNCHANGED <<deps, opts, table>>
Current == run.plan[run.pos]
runOne ==
  /\ run.pc = "next"
  /\ run' = IF run.pos > Len(run.plan) THEN [run EXCEPT !.pc = "ended"] ELSE [run EXCEPT !.pc = "in", !.rows = 0]
  /\ UNCHANGED <<deps, opts, table>>
(* The seeder's Run writes through the connection it was given: not the transaction. *)
InsertRow ==
  /\ run.pc = "in" /\ run.rows < Rows
  /\ run' = [run EXCEPT !.rows = @ + 1]
  /\ table' = table \cup {<<Current, run.rows + 1>>}
  /\ UNCHANGED <<deps, opts>>
onError == [run EXCEPT !.pc = "ended", !.err = "seeder"]
(* It fails: Transaction rolls back what was written through it, nothing, and Run returns the error. *)
SeederFails ==
  /\ run.pc = "in"
  /\ run' = onError
  /\ UNCHANGED <<deps, opts, table>>
SeederDone ==
  /\ run.pc = "in" /\ run.rows = Rows
  /\ run' = [run EXCEPT !.pc = "next", !.pos = @ + 1]
  /\ UNCHANGED <<deps, opts, table>>
SeedNext == Run \/ runOne \/ InsertRow \/ SeederFails \/ SeederDone
-----------------------------------------------------------------------------
Complete(s) == \A k \in 1..Rows : <<s, k>> \in table
Touched(s) == \E k \in 1..Rows : <<s, k>> \in table
(* A seeder writes only after every dependency the run includes has written all its  *)
(* rows, and after a failure nothing more is written: whatever the dependency graph,   *)
(* the order of registration and the selection (Registry.Sorted, Runner.Run).          *)
DependenciesFirst ==
  /\ \A s \in SeederNames : Touched(s) => \A d \in deps[s] : d \in ToSet(run.plan) => Complete(d)
  /\ run.err = "seeder" => \A i \in DOMAIN run.plan : i > run.pos => ~Touched(run.plan[i])
(* Sorted fails exactly when the graph of the registered seeders has a cycle or names *)
(* a seeder nobody registered, and otherwise lists each of them once.                  *)
Reaches ==
  LET step == [a \in SeederNames |-> deps[a] \cap SeederNames]
      Grow(r) == [a \in SeederNames |-> r[a] \cup UNION {step[c] : c \in r[a]}]
  IN  FoldLeft(LAMBDA r, x : Grow(r), step, Registered)
SortIsTotal ==
  run.pc # "new" =>
    LET broken == \E a \in SeederNames : a \in Reaches[a] \/ Unknown \in deps[a] IN
    /\ (run.err \in {"cycle", "unknown"}) = broken
    /\ ~broken => IsInjective(Sorted.out) /\ ToSet(Sorted.out) = SeederNames

-----------------------------------------------------------------------------
Init == QueryInit /\ SeedInit
Next ==
    \/ QueryNext /\ UNCHANGED seedVars
    \/ SeedNext /\ UNCHANGED qbVars
=============================================================================
