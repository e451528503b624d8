---------------------------- MODULE MCServices ------------------------------
(***************************************************************************)
(* The services for TLC, with the parts whose definitions are recursive:   *)
(* the query builder, the seeder and the algorithms.  An algorithm has one *)
(* state for each of its inputs, v1.                                       *)
(***************************************************************************)
EXTENDS InnerServices, OuterServices, TLC

CONSTANTS Parts     \* the parts to check

MCKind == [root |-> [a |-> "singleton", b |-> "singleton", c |-> "singleton", d |-> "singleton", u |-> "unbound"],
           scope |-> [a |-> "unbound", b |-> "unbound", c |-> "unbound", d |-> "instance", u |-> "unbound"]]
DepsOf == [a |-> <<"b">>, b |-> <<"a">>, c |-> <<"d">>, d |-> <<>>, u |-> <<>>]
MCDeps == [root |-> DepsOf, scope |-> DepsOf]
MCEntries == <<[name |-> "q"], [name |-> "m", providers |-> <<"p", "r">>, own |-> TRUE, hook |-> TRUE],
               [name |-> "n", providers |-> <<>>, own |-> FALSE, hook |-> TRUE]>>
MCSource == [m |-> <<1, 0, 1>>, n |-> <<1, 1, 1>>]
MCChannelNames == <<"mail", "sms">>
SeedOptions == {[Transactional |-> TRUE, Only |-> {}], [Transactional |-> FALSE, Only |-> {1, 2}]}

Qs == INSTANCE QueryAndSeeder WITH Columns <- {"a", "b"}, MaxClauses <- 2,
       Registered <- <<2, 3, 1>>, Rows <- 1, Unknown <- 9, Options <- SeedOptions, b <- v1,
       made <- v2, last <- v3, deps <- v4, opts <- v5, run <- v6, table <- v7
-----------------------------------------------------------------------------
(* The inputs of the algorithms: an input is a tuple of arguments, and     *)
(* Inputs(kind) is the set of the inputs of one kind.                      *)

SeqsUpTo(T, n) == UNION {[1..k -> T] : k \in 0..n}
Field(alias, name, args, sels) == [k |-> "field", alias |-> alias, name |-> name, args |-> args, sels |-> sels]
Inline(on, sels) == [k |-> "inline", on |-> on, sels |-> sels]
Spread(name) == [k |-> "spread", name |-> name]
NoArgs == [x \in {} |-> 0]
Plain(name, sels) == Field("", name, NoArgs, sels)
-----------------------------------------------------------------------------
(* A schema to coerce against and to execute on. *)
GoValue(g, v) == [g |-> g, v |-> v]
IntScalar == [k |-> "scalar", name |-> "Int"]
Required(t) == [k |-> "nonnull", of |-> t]
ListOf(t) == [k |-> "list", of |-> t]
ObjectT == [k |-> "object", name |-> "T"]
Declared(t) == [type |-> t, args |-> NoArgs]
G == INSTANCE Graphql WITH
       Enums <- [C |-> [red |-> GoValue("string", "red"), own |-> GoValue("int", "1")]],
       Inputs <- [F |-> [a |-> [type |-> Required(IntScalar), default |-> GoValue("none", "")],
                         b |-> [type |-> [k |-> "scalar", name |-> "ID"], default |-> GoValue("string", "d")]]],
       Objects <- [Query |-> [t |-> Declared(ObjectT), n |-> Declared(Required(ObjectT)),
                              l |-> Declared(ListOf(Required(ObjectT))),
                              s |-> [type |-> Required(IntScalar),
                                     args |-> [a |-> [type |-> Required(IntScalar), default |-> GoValue("none", "")]]]],
                   T |-> [x |-> Declared(Required(IntScalar)), y |-> Declared(IntScalar), t |-> Declared(ObjectT)]]

(* Documents and tokens to parse. *)
Values == {G!Value("var", "a"), G!Value("int", "1"), G!Value("enum", "b"), G!ListValue(<<G!Value("bool", "true")>>),
           G!ListValue(<<>>), G!ObjectValue([a |-> G!Value("string", "'s'"), b |-> G!ListValue(<<G!Value("float", "1.5")>>)])}
Leaves == {Plain("a", <<>>), Field("b", "a", NoArgs, <<>>), Spread("f")} \cup {Field("", "a", [x |-> v], <<>>) : v \in Values}
Nodes == Leaves \cup {Inline(on, <<l>>) : on \in {"", "t"}, l \in Leaves} \cup {Plain("b", <<l, Plain("a", <<>>)>>) : l \in Leaves}
IntType == [t |-> [name |-> "i"], nonNull |-> TRUE]
VarDefs == {<<>>} \cup {<<[name |-> "v", typ |-> t, default |-> d]>> :
                t \in {IntType, [t |-> [list |-> IntType], nonNull |-> FALSE]},
                d \in {G!Value("null", ""), G!Value("int", "1")}}
Operations == {[kind |-> k, name |-> n, vars |-> d, sels |-> <<x>>] :
                  k \in {"query", "mutation"}, n \in {"", "q"}, d \in VarDefs, x \in Nodes}
Documents == {<<<<o>>, <<>>>> : o \in Operations}
             \cup {<<<<>>, <<[name |-> "f", on |-> "t", sels |-> <<x, y>>]>>>> : x \in Leaves, y \in Nodes}
TokenLists == {<<(<<"{">> \o s) \o <<"}">>>> : s \in SeqsUpTo({"{", "}", "a", ":", "...", "on"}, 4)}

(* Types, literals and raw variables to coerce. *)
NamedTypes == {[k |-> "scalar", name |-> n] : n \in {"Int", "Float", "String", "ID", "Any"}}
              \cup {[k |-> "enum", name |-> "C"], [k |-> "input", name |-> "F"]}
Types == NamedTypes \cup {Required(t) : t \in NamedTypes} \cup {ListOf(t) : t \in NamedTypes}
         \cup {Required(ListOf(Required(t))) : t \in NamedTypes}
Literal(k, v) == [k |-> k, v |-> v]
Literals0 == {Literal("int", "1"), Literal("float", "1.5"), Literal("string", "x"), Literal("null", ""), Literal("enum", "own")}
Literals == Literals0 \cup {G!ListValue(<<l>>) : l \in Literals0}
            \cup {G!ObjectValue([a |-> l]) : l \in Literals0} \cup {G!ObjectValue([b |-> Literal("int", "1")])}
Coercions == {<<t, l, r>> : t \in Types, l \in Literals,
                 r \in {G!literalRuntime(l) : l \in Literals} \cup {GoValue("float64", "1")}}

(* Worlds of resolvers and the selections to execute. *)
Fragments == [A |-> [name |-> "A", on |-> "T", sels |-> <<Plain("x", <<>>), Plain("y", <<>>)>>],
              B |-> [name |-> "B", on |-> "Query", sels |-> <<Plain("t", <<Spread("A")>>)>>]]
Inner == {<<Plain("x", <<>>)>>, <<Plain("y", <<>>), Spread("A")>>,
          <<Plain("t", <<Plain("x", <<>>)>>), Field("z", "y", NoArgs, <<>>)>>,
          <<Inline("U", <<Plain("x", <<>>)>>), Inline("", <<Plain("__typename", <<>>)>>)>>}
Outer == {Plain("t", i) : i \in Inner} \cup {Field("b", "n", NoArgs, i) : i \in Inner} \cup {Plain("l", i) : i \in Inner}
         \cup {Spread("B"), Plain("s", <<>>), Field("", "s", [a |-> Literal("int", "1")], <<>>)}
Found == GoValue("obj", "")
Resolvers == [Query : [t : {Found}, n : {G!Error, Found}, l : {G!Slice(<<Found, Found>>), G!Slice(<<G!Nil>>)}, s : {G!Leaf, G!Error}],
              T : [x : {G!Leaf, G!Error, G!Nil}, y : {G!Leaf}, t : {Found, G!Nil}]]
Executions == {<<[doc |-> [operations |-> <<>>, fragments |-> Fragments], vars |-> NoArgs, resolve |-> r], s>> :
                  r \in Resolvers, s \in {<<a>> : a \in Outer} \cup {<<a, Plain("s", <<>>)>> : a \in Outer}}

(* Fragments that spread each other, visited in every order, and limits. *)
Bodies == {<<Plain("x", <<>>)>>, <<Plain("x", <<Spread("A")>>), Spread("D")>>, <<Inline("", <<Spread("B")>>), Spread("B")>>,
           <<Plain("y", <<Plain("x", <<Spread("C")>>)>>)>>, <<Spread("B"), Spread("C")>>}
Spreadings == {<<[operations |-> <<[sels |-> o], [sels |-> <<Plain("x", <<>>)>>]>>,
                  fragments |-> [A |-> [sels |-> a], B |-> [sels |-> b], C |-> [sels |-> c]]], lim, order>> :
                 o \in {<<Spread("A")>>, <<Plain("x", <<Spread("B")>>)>>}, a \in Bodies, b \in Bodies, c \in Bodies,
                 lim \in {[nodes |-> n, depth |-> d] : n \in {0, 3}, d \in {0, 2}}, order \in {<<"A", "B", "C">>, <<"C", "A", "B">>}}
-----------------------------------------------------------------------------
Alg == INSTANCE DataAlgorithms WITH StopWords <- {<<"the">>}, DefaultPerPage <- 15
Flags == SUBSET {"primary", "unique", "index"} \cup {{"enum"}}
ColumnLists == {<<Alg!Column("a", f)>> : f \in Flags} \cup {<<Alg!Column("a", f), Alg!Column("a_b", g)>> : f, g \in Flags}
               \cup {<<Alg!Column("a", {}), Alg!Column("b", f), Alg!Column("a_b", {"index"})>> : f \in Flags}
IndexLists(cols) == {<<>>, <<Alg!IndexOn("unique", <<"a">>), Alg!IndexOn("unique", <<"a">>)>>, <<Alg!IndexOn("primary", <<"a">>)>>}
                    \cup (IF Len(cols) = 3 THEN {<<Alg!IndexOn("index", <<"a", "b">>), Alg!IndexOn("primary", <<"b", "a">>)>>} ELSE {})
Creations == UNION {{<<Alg!Blueprint(cols, idx, fk, <<>>), dialect>> :
                       idx \in IndexLists(cols), fk \in {<<>>, <<<<"a">>>>}, dialect \in {"mysql", "sqlite", "postgres"}} :
                    cols \in ColumnLists}
Commands == {<<>>, <<<<"dropColumn", <<"x">>>>>>, <<<<"renameColumn", "n", "m">>>>,
             <<<<"renameColumn", "x", "z">>, <<"dropColumn", <<"z", "y">>>>>>,
             <<<<"dropColumn", <<"y">>>>, <<"renameTable", "u">>>>, <<<<"dropForeign", "f">>, <<"dropColumn", <<"x">>>>>>}
Existing == [Alg!NoTable EXCEPT !.name = "t", !.columns = <<"x", "y">>]
Alterations == {<<Existing, Alg!Blueprint(<<Alg!Column("n", f)>>, <<>>, <<>>, cmds), dialect>> :
                  f \in Flags, cmds \in Commands, dialect \in {"mysql", "sqlite", "postgres"}}
-----------------------------------------------------------------------------

Checked == {Alg!Nil, Alg!Str(""), Alg!Str(" "), Alg!Str("2"), Alg!Str("abc"), Alg!Num(0), Alg!Num(2), Alg!Bool(TRUE), Alg!List(<<>>)}
RuleLists == {<<<<"required">>>>, <<<<"format">>, <<"min", 2>>>>, <<<<"max", 2>>, <<"lt", 2>>>>, <<>>}
Forms == {<<<<Alg!Field("p", r, v), Alg!Field("p_confirmation", q, w)>>>> : r, q \in RuleLists, v, w \in Checked}
Elements == {Alg!Struct(<<Alg!Field("p", <<<<"required">>, <<"eqfield", 0, "q">>>>, v), Alg!Field("q", <<>>, w)>>) :
               v \in {Alg!Str(""), Alg!Str("abc"), Alg!Str("2")}, w \in {Alg!Str("abc"), Alg!Str("2")}}
-----------------------------------------------------------------------------
RelationKinds == {"hasMany", "hasOne", "belongsTo", "belongsToMany", "morphMany"}
Parents == {[key |-> k] : k \in {Alg!NilKey, <<"uint64", 1>>, <<"int", 1>>, <<"uint64", 2>>}}
RowOf(id, f, t, d) == [id |-> id, fk |-> <<"string", f>>, morph |-> t, deleted |-> d]
RowLists == {<<RowOf(1, f, t, d)>> : f \in {1, 2}, t \in {"post", "user"}, d \in BOOLEAN}
            \cup {<<RowOf(1, f, "post", d), RowOf(2, g, "post", FALSE)>> : f, g \in {1, 2}, d \in BOOLEAN}
Pivots == {<<>>, <<<<<<"bytes", 1>>, 1>>, <<<<"bytes", 2>>, 1>>>>, <<<<<<"bytes", 1>>, 2>>, <<<<"bytes", 2>>, 1>>>>}
Loads == {<<k, ps, rows, pivot>> : k \in RelationKinds, ps \in [1..2 -> Parents], rows \in RowLists, pivot \in Pivots}
HeadPaths == {"", "a", "b"} \X {"", "c"}
-----------------------------------------------------------------------------

SearchWords == {<<"a">>, <<"A", "b">>, <<"the">>}
Texts == {<<"t" :> <<v>>>> : v \in SearchWords} \cup {<<"t" :> <<v, w>>>> : v, w \in SearchWords}
Searches == {<<[d \in 1..Len(docs) |-> docs[d][1]], q, w, p>> :
               docs \in SeqsUpTo(Texts, 2), q \in {<<>>} \cup {<<v>> : v \in SearchWords}, w \in {<<"a">>, <<"A", "b">>}, p \in 1..2}
-----------------------------------------------------------------------------
Cuts == {<<c, n, m>> : c \in SeqsUpTo({1, 2}, 4), n \in -3..5, m \in -1..3}
Groupings == {<<c, key>> : c \in SeqsUpTo(1..3, 4), key \in [1..3 -> 1..2]}
-----------------------------------------------------------------------------
Algorithms == {"document", "tokens", "coercion", "execution", "spreading", "create", "alter", "form", "dive", "rule",
               "load", "heads", "search", "cut", "group", "pages"}
Inputs(kind) ==
  CASE kind = "document" -> Documents
    [] kind = "tokens" -> TokenLists
    [] kind = "coercion" -> Coercions
    [] kind = "execution" -> Executions
    [] kind = "spreading" -> Spreadings
    [] kind = "create" -> Creations
    [] kind = "alter" -> Alterations
    [] kind = "form" -> Forms
    [] kind = "dive" -> {<<<<a, b>>>> : a, b \in Elements}
    [] kind = "rule" -> Checked \X Checked \X (0..3)
    [] kind = "load" -> Loads
    [] kind = "heads" -> {<<n>> : n \in HeadPaths \X HeadPaths \X HeadPaths}
    [] kind = "search" -> Searches
    [] kind = "cut" -> Cuts
    [] kind = "group" -> Groupings
    [] kind = "pages" -> (0..6) \X (1..3)

-----------------------------------------------------------------------------
MCInit ==
  /\ part \in Parts
  /\ \/ InnerInit
     \/ OuterInit
     \/ part \in Algorithms /\ v1 \in Inputs(part) /\ Unused1
     \/ part = "query" /\ Qs!QueryInit /\ v4 = NoValue /\ v5 = NoValue /\ v6 = NoValue /\ v7 = NoValue /\ Unused7
     \/ part = "seeder" /\ Qs!SeedInit /\ v1 = NoValue /\ v2 = NoValue /\ v3 = NoValue /\ Unused7
MCNext ==
  \/ InnerNext
  \/ OuterNext
  \/ part = "query" /\ Qs!QueryNext /\ UNCHANGED <<part, v4, v5, v6, v7, Rest7>>
  \/ part = "seeder" /\ Qs!SeedNext /\ UNCHANGED <<part, v1, v2, v3, Rest7>>
MCSpec == MCInit /\ [][MCNext]_vars
-----------------------------------------------------------------------------
(* The properties, by theme, as in InnerServices and OuterServices. *)
\* query, seeder and relations: placeholders and arguments match, scopes are not escaped, counts and
\* pages agree with the rows; a seeder runs after all its dependencies, each once and in one order;
\* and eager loading finds what lazy loading would, in one query per relation.
Queries ==
  /\ part = "query" => Qs!PlaceholdersMatch /\ Qs!ScopesApply /\ Qs!CountAgrees
  /\ part = "seeder" => Qs!DependenciesFirst /\ Qs!SortIsTotal
  /\ part = "pages" => St!PagesCover(v1[1], v1[2])
  /\ part = "load" => Alg!EagerIsLazy(v1[1], v1[2], v1[3], v1[4]) /\ Alg!NestedReachesAll(v1[1], v1[2], v1[3], v1[4])
  /\ part = "heads" => Alg!OneQueryPerHead(v1[1])
\* graphql: a printed document is read back, no token is dropped, coerced values have their type,
\* a variable stands for its literal, nulls go up to the nearest nullable field, errors are shown
\* where they arose, cycles are found and costs are exact.
QueriesAnswered ==
  /\ part = "document" => G!ReadsBack(v1[1], v1[2])
  /\ part = "tokens" => G!NothingDropped(v1[1])
  /\ part = "coercion" => G!CoercedIsTyped(v1[1], v1[2], v1[3]) /\ G!VariableForLiteral(v1[1], v1[2])
  /\ part = "execution" => G!NullPropagation(v1[1], v1[2]) /\ G!ErrorsShow(v1[1], v1[2])
  /\ part = "spreading" => G!CyclesFound(v1[1], v1[3]) /\ (~G!detectFragmentCycles(v1[1], v1[3]) => G!CostIsExact(v1[1], v1[2]))
\* schema, validation, search and collection: tables come out as declared and altered in order;
\* a map is checked as a struct is, dive reaches every element and rules agree with each other;
\* pages partition the hits, more words find more; cuts rejoin and groups agree.
AlgorithmsAgree ==
  /\ part = "create" => Alg!CreatedAsDeclared(v1[1], v1[2])
  /\ part = "alter" => Alg!AlteredInOrder(v1[1], v1[2], v1[3])
  /\ part = "form" => Alg!MapAgrees(v1[1])
  /\ part = "dive" => Alg!DiveReachesAll(v1[1])
  /\ part = "rule" => Alg!RulesConsistent(v1[1], v1[2], v1[3])
  /\ part = "search" => Alg!PagesPartition(v1[1], v1[2], v1[4]) /\ Alg!MoreFindsMore(v1[1], v1[2], v1[3])
  /\ part = "cut" => Alg!CutsRejoin(v1[1], v1[2], v1[3])
  /\ part = "group" => Alg!GroupsAgree(v1[1], v1[2])
=============================================================================
