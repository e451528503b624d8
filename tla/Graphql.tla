------------------------------ MODULE Graphql -------------------------------
(***************************************************************************)
(* graphql: the parser over tokens (parser.go), the coercion of argument   *)
(* literals and variables to their declared types, the checks before       *)
(* execution and the resolution of a selection set (execute.go, limits.go).*)
(*                                                                         *)
(* A token is its text; a source is [toks, max], max being                 *)
(* Limits.MaxTokens.  A parse function takes the position of the current   *)
(* token and returns [ok, v, p]: the node and the position after it, or    *)
(* Refused.  A type is [k, of] for the wrappers and [k, name] otherwise; a *)
(* literal is [k, v] as the parser makes it; a Go value is [g, v], g its   *)
(* dynamic type.  Numbers are their text: "1" is integral, "1.5" is not,   *)
(* anything else is no number.  A document is [operations, fragments]; the *)
(* executor's bubble flag and error list are threaded through execution as *)
(* ex = [bubble, errs], and a resolver's outcome depends on the type and   *)
(* the field.                                                              *)
(***************************************************************************)
EXTENDS Integers, Sequences, FiniteSets, TLC

-----------------------------------------------------------------------------
(* The parser.                                                             *)

Punctuators == {"{", "}", "(", ")", "[", "]", ":", "$", "=", "!", "..."}
Literals == {"1", "1.5", "'s'"}
NotNames == Punctuators \cup Literals \cup {"EOF", "error"}
Kinds == [x \in Literals |-> IF x = "1" THEN "int" ELSE IF x = "1.5" THEN "float" ELSE "string"]

\* parser.lexNext: the token at p; past the cap every token is an error, which no
\* production accepts.
overCap(s, p) == s.max > 0 /\ p > s.max
lexNext(s, p) == IF p > Len(s.toks) THEN "EOF" ELSE IF overCap(s, p) THEN "error" ELSE s.toks[p]

isName(t) == t \notin NotNames
Parsed(v, p) == [ok |-> TRUE, v |-> v, p |-> p]
Refused == [ok |-> FALSE, v |-> <<>>, p |-> 0]
expect(s, p, t) == IF lexNext(s, p) = t THEN Parsed(<<>>, p + 1) ELSE Refused
expectName(s, p) == IF isName(lexNext(s, p)) THEN Parsed(lexNext(s, p), p + 1) ELSE Refused
Then(r, F(_)) == IF r.ok THEN F(r) ELSE Refused

Value(k, v) == [k |-> k, v |-> v]
ListValue(items) == [k |-> "list", items |-> items]
ObjectValue(fields) == [k |-> "object", fields |-> fields]
NoFields == [x \in {} |-> 0]
SetField(f, n, v) == [x \in DOMAIN f \cup {n} |-> IF x = n THEN v ELSE f[x]]

-----------------------------------------------------------------------------
RECURSIVE parseValue(_, _, _), parseListItems(_, _, _, _), parsePairs(_, _, _, _, _)
parseValue(s, p, constOnly) ==
    LET t == lexNext(s, p) IN
    CASE t = "$" -> IF constOnly THEN Refused
                    ELSE Then(expectName(s, p + 1), LAMBDA n : Parsed(Value("var", n.v), n.p))
      [] t \in Literals -> Parsed(Value(Kinds[t], t), p + 1)
      [] t \in {"true", "false"} -> Parsed(Value("bool", t), p + 1)
      [] t = "null" -> Parsed(Value("null", ""), p + 1)
      [] isName(t) /\ t \notin {"true", "false", "null"} -> Parsed(Value("enum", t), p + 1)
      [] t = "[" -> parseListItems(s, p + 1, constOnly, <<>>)
      [] t = "{" -> Then(parsePairs(s, p + 1, "}", constOnly, NoFields),
                         LAMBDA o : Parsed(ObjectValue(o.v), o.p))
      [] OTHER -> Refused

parseListItems(s, p, constOnly, items) ==
    IF lexNext(s, p) = "]" THEN Parsed(ListValue(items), p + 1)
    ELSE Then(parseValue(s, p, constOnly), LAMBDA v : parseListItems(s, v.p, constOnly, Append(items, v.v)))

\* The loop of parseArguments and of parseObjectValue: name ':' value, up to close.
parsePairs(s, p, close, constOnly, pairs) ==
    IF lexNext(s, p) = close THEN Parsed(pairs, p + 1)
    ELSE Then(expectName(s, p), LAMBDA n :
         Then(expect(s, n.p, ":"), LAMBDA c :
         Then(parseValue(s, c.p, constOnly), LAMBDA v :
              parsePairs(s, v.p, close, constOnly, SetField(pairs, n.v, v.v)))))

RECURSIVE parseTypeRef(_, _)
parseTypeRef(s, p) ==
    LET inner == IF lexNext(s, p) = "["
                 THEN Then(parseTypeRef(s, p + 1), LAMBDA t :
                      Then(expect(s, t.p, "]"), LAMBDA c : Parsed([list |-> t.v], c.p)))
                 ELSE Then(expectName(s, p), LAMBDA n : Parsed([name |-> n.v], n.p))
    IN  Then(inner, LAMBDA t :
             IF lexNext(s, t.p) = "!" THEN Parsed([t |-> t.v, nonNull |-> TRUE], t.p + 1)
                                      ELSE Parsed([t |-> t.v, nonNull |-> FALSE], t.p))

-----------------------------------------------------------------------------
\* parseFragment looks for '{' only in the untyped form; parseSelectionSet consumes
\* its first token unseen.
RECURSIVE parseSelections(_, _, _), parseFragment(_, _), parseField(_, _)
parseSelectionSet(s, p) == parseSelections(s, p + 1, <<>>)
parseSelections(s, p, sels) ==
    LET t == lexNext(s, p) IN
    IF t = "}" THEN Parsed(sels, p + 1)
    ELSE IF t = "EOF" THEN Refused
    ELSE Then(IF t = "..." THEN parseFragment(s, p + 1) ELSE parseField(s, p),
              LAMBDA x : parseSelections(s, x.p, Append(sels, x.v)))

Inline(on, sels) == [k |-> "inline", on |-> on, sels |-> sels]
parseFragment(s, p) ==
    IF lexNext(s, p) = "on"
    THEN Then(expectName(s, p + 1), LAMBDA n :
         Then(parseSelectionSet(s, n.p), LAMBDA x : Parsed(Inline(n.v, x.v), x.p)))
    ELSE IF lexNext(s, p) = "{"
    THEN Then(parseSelectionSet(s, p), LAMBDA x : Parsed(Inline("", x.v), x.p))
    ELSE Then(expectName(s, p), LAMBDA n : Parsed([k |-> "spread", name |-> n.v], n.p))

fieldName(s, n) ==
    IF lexNext(s, n.p) = ":"
    THEN Then(expectName(s, n.p + 1), LAMBDA m : Parsed([alias |-> n.v, name |-> m.v], m.p))
    ELSE Parsed([alias |-> "", name |-> n.v], n.p)

parseArguments(s, p) ==
    IF lexNext(s, p) = "(" THEN parsePairs(s, p + 1, ")", FALSE, NoFields) ELSE Parsed(NoFields, p)

parseField(s, p) ==
    Then(expectName(s, p), LAMBDA n :
    Then(fieldName(s, n), LAMBDA f :
    Then(parseArguments(s, f.p), LAMBDA a :
    Then(IF lexNext(s, a.p) = "{" THEN parseSelectionSet(s, a.p) ELSE Parsed(<<>>, a.p), LAMBDA x :
         Parsed([k |-> "field", alias |-> f.v.alias, name |-> f.v.name, args |-> a.v, sels |-> x.v], x.p)))))

-----------------------------------------------------------------------------
\* Defaults are parsed with constOnly FALSE.
RECURSIVE parseVariableDefs(_, _, _)
parseVariableDefs(s, p, defs) ==
    IF lexNext(s, p) = ")" THEN Parsed(defs, p + 1)
    ELSE Then(expect(s, p, "$"), LAMBDA d :
         Then(expectName(s, d.p), LAMBDA n :
         Then(expect(s, n.p, ":"), LAMBDA c :
         Then(parseTypeRef(s, c.p), LAMBDA t :
         Then(IF lexNext(s, t.p) = "=" THEN parseValue(s, t.p + 1, FALSE) ELSE Parsed(Value("null", ""), t.p), LAMBDA v :
              parseVariableDefs(s, v.p, Append(defs, [name |-> n.v, typ |-> t.v, default |-> v.v])))))))

parseNamedOperation(s, p, kind) ==
    LET name == IF isName(lexNext(s, p + 1)) THEN Parsed(lexNext(s, p + 1), p + 2) ELSE Parsed("", p + 1)
        vars == IF lexNext(s, name.p) = "(" THEN parseVariableDefs(s, name.p + 1, <<>>) ELSE Parsed(<<>>, name.p)
    IN  Then(vars, LAMBDA d :
        Then(expect(s, d.p, "{"), LAMBDA b :
        Then(parseSelectionSet(s, d.p), LAMBDA x :
             Parsed([kind |-> kind, name |-> name.v, vars |-> d.v, sels |-> x.v], x.p))))

parseFragmentDef(s, p) ==
    Then(expectName(s, p + 1), LAMBDA n :
    IF n.v = "on" THEN Refused ELSE
    Then(expect(s, n.p, "on"), LAMBDA o :
    Then(expectName(s, o.p), LAMBDA t :
    Then(expect(s, t.p, "{"), LAMBDA b :
    Then(parseSelectionSet(s, t.p), LAMBDA x : Parsed([name |-> n.v, on |-> t.v, sels |-> x.v], x.p))))))

RECURSIVE parseDoc(_, _, _)
parseDoc(s, p, doc) ==
    LET t == lexNext(s, p)
        WithOperation(o) == parseDoc(s, o.p, [doc EXCEPT !.operations = Append(@, o.v)])
    IN  CASE t = "EOF" -> Parsed(doc, p)
          [] t = "{" -> Then(parseSelectionSet(s, p), LAMBDA x :
                 WithOperation(Parsed([kind |-> "query", name |-> "", vars |-> <<>>, sels |-> x.v], x.p)))
          [] t \in {"query", "mutation"} -> Then(parseNamedOperation(s, p, t), WithOperation)
          [] t = "fragment" -> Then(parseFragmentDef(s, p), LAMBDA f :
                 parseDoc(s, f.p, [doc EXCEPT !.fragments = SetField(@, f.v.name, f.v)]))
          [] OTHER -> Refused

parseDocumentLimited(s) == parseDoc(s, 1, [operations |-> <<>>, fragments |-> NoFields])

-----------------------------------------------------------------------------
(* The reference: how a document is written.                               *)

RECURSIVE PrintValue(_), PrintList(_), PrintPairs(_)
PrintValue(v) == CASE v.k = "var" -> <<"$", v.v>>
                   [] v.k = "null" -> <<"null">>
                   [] v.k = "list" -> <<"[">> \o PrintList(v.items) \o <<"]">>
                   [] v.k = "object" -> <<"{">> \o PrintPairs(v.fields) \o <<"}">>
                   [] OTHER -> <<v.v>>
PrintList(vs) == IF vs = <<>> THEN <<>> ELSE PrintValue(Head(vs)) \o PrintList(Tail(vs))
PrintPairs(f) == IF f = NoFields THEN <<>>
                 ELSE LET n == CHOOSE x \in DOMAIN f : TRUE
                      IN  <<n, ":">> \o PrintValue(f[n]) \o PrintPairs([x \in DOMAIN f \ {n} |-> f[x]])

RECURSIVE PrintType(_), PrintSels(_), PrintVars(_)
PrintType(t) == (IF "list" \in DOMAIN t.t THEN <<"[">> \o PrintType(t.t.list) \o <<"]">> ELSE <<t.t.name>>)
                \o (IF t.nonNull THEN <<"!">> ELSE <<>>)
PrintSel(x) ==
    CASE x.k = "spread" -> <<"...", x.name>>
      [] x.k = "inline" -> <<"...">> \o (IF x.on = "" THEN <<>> ELSE <<"on", x.on>>) \o <<"{">> \o PrintSels(x.sels) \o <<"}">>
      [] x.k = "field" -> (IF x.alias = "" THEN <<>> ELSE <<x.alias, ":">>) \o <<x.name>>
             \o (IF x.args = NoFields THEN <<>> ELSE <<"(">> \o PrintPairs(x.args) \o <<")">>)
             \o (IF x.sels = <<>> THEN <<>> ELSE <<"{">> \o PrintSels(x.sels) \o <<"}">>)
PrintSels(xs) == IF xs = <<>> THEN <<>> ELSE PrintSel(Head(xs)) \o PrintSels(Tail(xs))
PrintVars(ds) ==
    IF ds = <<>> THEN <<>>
    ELSE <<"$", Head(ds).name, ":">> \o PrintType(Head(ds).typ)
         \o (IF Head(ds).default.k = "null" THEN <<>> ELSE <<"=">> \o PrintValue(Head(ds).default)) \o PrintVars(Tail(ds))

PrintOperation(o) == (IF o.name = "" /\ o.vars = <<>> /\ o.kind = "query" THEN <<>>
                      ELSE <<o.kind>> \o (IF o.name = "" THEN <<>> ELSE <<o.name>>)
                           \o (IF o.vars = <<>> THEN <<>> ELSE <<"(">> \o PrintVars(o.vars) \o <<")">>))
                     \o <<"{">> \o PrintSels(o.sels) \o <<"}">>
PrintFragment(f) == <<"fragment", f.name, "on", f.on, "{">> \o PrintSels(f.sels) \o <<"}">>

Concat(seqs) ==
    LET Cat[i \in 0 .. Len(seqs)] == IF i = 0 THEN <<>> ELSE Cat[i - 1] \o seqs[i] IN Cat[Len(seqs)]
PrintOperations(ops) == Concat([i \in 1 .. Len(ops) |-> PrintOperation(ops[i])])
PrintFragments(fs) == Concat([i \in 1 .. Len(fs) |-> PrintFragment(fs[i])])

\* The parser reads back every document that can be written, in exactly as many
\* tokens: a cap of one token less refuses it.
ReadsBack(ops, frags) ==
    LET toks == PrintOperations(ops) \o PrintFragments(frags)
        r == parseDocumentLimited([toks |-> toks, max |-> Len(toks)])
    IN  /\ r.ok /\ r.v.operations = ops
        /\ \A i \in 1 .. Len(frags) : r.v.fragments[frags[i].name] = frags[i]
        /\ Len(toks) > 1 => ~parseDocumentLimited([toks |-> toks, max |-> Len(toks) - 1]).ok

\* Nothing the parser accepts is dropped: printed again, an accepted document of
\* operations is its own token sequence.  Lax names the exceptions: empty braces,
\* and the token after the type condition of an inline fragment.
Lax(toks) == \E i \in 2 .. Len(toks) - 1 :
                \/ isName(toks[i - 1]) /\ toks[i] = "{" /\ toks[i + 1] = "}"
                \/ toks[i - 1] = "..." /\ toks[i] = "on" /\ Len(toks) >= i + 2 /\ toks[i + 2] # "{"
NothingDropped(toks) ==
    LET r == parseDocumentLimited([toks |-> toks, max |-> 0])
    IN  r.ok => Lax(toks) \/ toks = PrintOperations(r.v.operations)

-----------------------------------------------------------------------------
(* Coercion.                                                               *)

CONSTANTS
    Enums,      \* Enums[name][member]: the Go value of the member, a string when Value is nil
    Inputs      \* Inputs[name][field]: [type, default], default being None if there is none

Go(g, v) == [g |-> g, v |-> v]
Slice(items) == [g |-> "list", items |-> items]
Map(fields) == [g |-> "map", fields |-> fields]
Nil == Go("nil", "")
None == Go("none", "")
Ok(v) == [ok |-> TRUE, v |-> v]
Err == [ok |-> FALSE, v |-> Nil]

NonNull(t) == [k |-> "nonnull", of |-> t]
List(t) == [k |-> "list", of |-> t]
Named(k, n) == [k |-> k, name |-> n]

-----------------------------------------------------------------------------
RECURSIVE literalRuntime(_)
literalRuntime(l) ==
    CASE l.k = "int" -> Go("int64", l.v)
      [] l.k = "float" -> Go("float64", l.v)
      [] l.k \in {"string", "enum"} -> Go("string", l.v)
      [] l.k = "bool" -> Go("bool", l.v)
      [] l.k = "list" -> Slice([i \in 1 .. Len(l.items) |-> literalRuntime(l.items[i])])
      [] l.k = "object" -> Map([n \in DOMAIN l.fields |-> literalRuntime(l.fields[n])])
      [] OTHER -> Nil

numeric(r) == r.g \in {"int", "int64", "float64", "string"}
\* From a Go value: strings are parsed, floats must be integral for Int.
coerceScalar(s, r) ==
    LET To(g) == Ok(Go(g, r.v)) IN
    CASE r.g = "nil" -> Ok(Nil)
      [] r.g # "nil" /\ s = "Int" -> IF numeric(r) /\ r.v = "1" THEN To("int64") ELSE Err
      [] r.g # "nil" /\ s = "Float" -> IF numeric(r) /\ r.v \in {"1", "1.5"} THEN To("float64") ELSE Err
      [] r.g # "nil" /\ s = "String" -> IF r.g = "string" THEN Ok(r) ELSE Err
      [] r.g # "nil" /\ s = "Boolean" -> IF r.g = "bool" THEN Ok(r) ELSE Err
      [] r.g # "nil" /\ s = "ID" -> IF r.g = "float64" THEN Ok(Go("string", "1"))    \* truncated
                                   ELSE IF r.g \in {"string", "int", "int64"} THEN To("string") ELSE Err
      [] OTHER -> Ok(r)

\* From a literal: no parsing of strings, and only an Int literal is an Int.
coerceScalarLiteral(s, l) ==
    CASE s = "Int" -> IF l.k = "int" THEN Ok(Go("int64", l.v)) ELSE Err
      [] s = "Float" -> IF l.k \in {"int", "float"} THEN Ok(Go("float64", l.v)) ELSE Err
      [] s = "String" -> IF l.k = "string" THEN Ok(Go("string", l.v)) ELSE Err
      [] s = "Boolean" -> IF l.k = "bool" THEN Ok(Go("bool", l.v)) ELSE Err
      [] s = "ID" -> IF l.k \in {"string", "int"} THEN Ok(Go("string", l.v)) ELSE Err
      [] OTHER -> coerceScalar(s, literalRuntime(l))

enumValue(e, m) == IF m \in DOMAIN Enums[e] THEN Ok(Enums[e][m]) ELSE Err

\* The loops over list items and over declared fields: the first error wins.
All(rs) == IF \A i \in DOMAIN rs : rs[i].ok THEN Ok([i \in DOMAIN rs |-> rs[i].v]) ELSE Err
AsList(r) == IF r.ok THEN Ok(Slice(<<r.v>>)) ELSE Err
GoList(r) == IF r.ok THEN Ok(Slice(r.v)) ELSE Err

isRequired(d) == d.type.k = "nonnull"
Given(decls, given) == DOMAIN decls \cap DOMAIN given
coerceFields(decls, given, rs) ==
    LET present == Given(decls, given)
        absent == {n \in DOMAIN decls \ DOMAIN given : decls[n].default # None}
        missing == {n \in DOMAIN decls \ DOMAIN given : decls[n].default = None /\ isRequired(decls[n])}
    IN  IF missing # {} \/ ~(DOMAIN given \subseteq DOMAIN decls) \/ ~All(rs).ok THEN Err
        ELSE Ok([n \in present \cup absent |-> IF n \in present THEN rs[n].v ELSE decls[n].default])
AsMap(r) == IF r.ok THEN Ok(Map(r.v)) ELSE Err

RECURSIVE coerceRuntime(_, _)
coerceRuntime(t, r) ==
    CASE t.k = "nonnull" -> IF r = Nil THEN Err ELSE coerceRuntime(t.of, r)
      [] t.k = "list" -> IF r = Nil THEN Ok(Nil)
                         ELSE IF r.g # "list" THEN AsList(coerceRuntime(t.of, r))
                         ELSE GoList(All([i \in 1 .. Len(r.items) |-> coerceRuntime(t.of, r.items[i])]))
      [] t.k = "scalar" -> coerceScalar(t.name, r)
      [] t.k = "enum" -> IF r.g # "string" THEN Err ELSE enumValue(t.name, r.v)
      [] t.k = "input" -> IF r = Nil THEN Ok(Nil) ELSE IF r.g # "map" THEN Err
                          ELSE LET fs == Inputs[t.name] IN
                          AsMap(coerceFields(fs, r.fields,
                              [n \in Given(fs, r.fields) |-> coerceRuntime(fs[n].type, r.fields[n])]))
      [] OTHER -> Ok(r)

resolveVar(vars, n) == IF n \in DOMAIN vars THEN Ok(vars[n]) ELSE Err

\* A variable holds a value coerced before, and is coerced again to the type at its use.
fromVariable(t, r) == IF ~r.ok \/ (t.k = "nonnull" /\ r.v = Nil) THEN Err ELSE coerceRuntime(t, r.v)

RECURSIVE coerceValue(_, _, _)
coerceValue(vars, t, l) ==
    IF l.k = "var" THEN fromVariable(t, resolveVar(vars, l.v))
    ELSE CASE t.k = "nonnull" -> IF l.k = "null" THEN Err ELSE coerceValue(vars, t.of, l)
           [] t.k = "list" -> IF l.k = "null" THEN Ok(Nil)
                              ELSE IF l.k # "list" THEN AsList(coerceValue(vars, t.of, l))
                              ELSE GoList(All([i \in 1 .. Len(l.items) |-> coerceValue(vars, t.of, l.items[i])]))
           [] t.k \notin {"nonnull", "list"} /\ l.k = "null" -> Ok(Nil)
           [] t.k = "scalar" /\ l.k # "null" -> coerceScalarLiteral(t.name, l)
           [] t.k = "enum" /\ l.k # "null" -> IF l.k = "enum" THEN enumValue(t.name, l.v) ELSE Err
           [] t.k = "input" /\ l.k # "null" ->
                  IF l.k # "object" THEN Err
                  ELSE LET fs == Inputs[t.name] IN
                  AsMap(coerceFields(fs, l.fields,
                      [n \in Given(fs, l.fields) |-> coerceValue(vars, fs[n].type, l.fields[n])]))
           [] OTHER -> Err

coerceArguments(vars, defs, args) == 
    coerceFields(defs, args, [n \in Given(defs, args) |-> coerceValue(vars, defs[n].type, args[n])])

\* One declared variable [type, default]: default a literal, or the null literal for none.
coerceVariable(def, raw) ==
    IF raw # None THEN coerceRuntime(def.type, raw)
    ELSE IF def.default.k # "null" THEN coerceValue([n \in {} |-> Nil], def.type, def.default)
    ELSE IF isRequired(def) THEN Err ELSE Ok(None)
coerceVariables(defs, raw) ==
    LET rs == [n \in DOMAIN defs |-> coerceVariable(defs[n], IF n \in DOMAIN raw THEN raw[n] ELSE None)]
    IN  IF ~All(rs).ok THEN Err ELSE Ok([n \in {m \in DOMAIN defs : rs[m].v # None} |-> rs[n].v])

-----------------------------------------------------------------------------
\* What a resolver may rely on: the Go type that ArgValues documents.
RECURSIVE WellTyped(_, _)
WellTyped(t, r) ==
    CASE t.k = "nonnull" -> r # Nil /\ WellTyped(t.of, r)
      [] t.k = "list" -> r = Nil \/ (r.g = "list" /\ \A i \in 1 .. Len(r.items) : WellTyped(t.of, r.items[i]))
      [] t.k = "enum" -> r = Nil \/ \E m \in DOMAIN Enums[t.name] : r = Enums[t.name][m]
      [] t.k = "input" -> r = Nil \/ /\ r.g = "map"
                                     /\ \A n \in DOMAIN Inputs[t.name] :
                                           IF n \in DOMAIN r.fields THEN WellTyped(Inputs[t.name][n].type, r.fields[n])
                                           ELSE Inputs[t.name][n].type.k # "nonnull"
      [] t.k = "scalar" -> r = Nil \/ t.name = "Any" \/ r.g = [Int |-> "int64", Float |-> "float64", String |-> "string",
                                                              Boolean |-> "bool", ID |-> "string"][t.name]

OwnValues(e) == \E m \in DOMAIN Enums[e] : Enums[e][m] # Go("string", m)
RECURSIVE MentionsEnum(_)
MentionsEnum(t) == \/ t.k = "enum"
                   \/ t.k \in {"nonnull", "list"} /\ MentionsEnum(t.of)
                   \/ t.k = "input" /\ \E n \in DOMAIN Inputs[t.name] : MentionsEnum(Inputs[t.name][n].type)

\* An argument a resolver is handed has its declared type, also when it came through
\* a variable and was coerced twice.
CoercedIsTyped(t, l, raw) ==
    LET vars == coerceVariables([v |-> [type |-> t, default |-> [k |-> "null", v |-> ""]]], [v |-> raw])
    IN  /\ coerceValue(<<>>, t, l).ok => WellTyped(t, coerceValue(<<>>, t, l).v)
        /\ vars.ok => LET a == coerceArguments(vars.v, [x |-> [type |-> t, default |-> None]], [x |-> [k |-> "var", v |-> "v"]])
                      IN  a.ok => WellTyped(t, a.v.x)

\* What may be written as a literal may be sent as a variable, with the same result.
\* Enums are left out: a null, or a member with a Go value of its own, is refused when
\* it comes through a variable.
VariableForLiteral(t, l) ==
    LET direct == coerceValue(<<>>, t, l)
        vars == coerceVariables([v |-> [type |-> t, default |-> [k |-> "null", v |-> ""]]], [v |-> literalRuntime(l)])
    IN  direct.ok /\ ~MentionsEnum(t) =>
            vars.ok /\ fromVariable(t, resolveVar(vars.v, "v")) = direct

-----------------------------------------------------------------------------
(* Execution.                                                              *)

CONSTANTS
    Objects     \* Objects[type][field]: [type, args] of its declaration

Fields(obj) == Objects[obj]
Leaf == Go("leaf", "")
Response(fields) == [g |-> "object", fields |-> fields]

-----------------------------------------------------------------------------
(* selectOperation, and the checks on fragments and cost.                  *)

selectOperation(doc, name) ==
    LET ops == doc.operations
        named == {i \in 1 .. Len(ops) : ops[i].name = name}
    IN  IF name = "" THEN (IF Len(ops) = 1 THEN [ok |-> TRUE, op |-> ops[1]] ELSE [ok |-> FALSE])
        ELSE IF named = {} THEN [ok |-> FALSE]
        ELSE [ok |-> TRUE, op |-> ops[CHOOSE i \in named : \A j \in named : i <= j]]

\* visitFragmentSpreads: the spreads below a selection set, in order.
RECURSIVE spreads(_)
spreads(sels) ==
    IF sels = <<>> THEN <<>>
    ELSE (IF Head(sels).k = "spread" THEN <<Head(sels).name>> ELSE spreads(Head(sels).sels)) \o spreads(Tail(sels))

\* The depth-first search: st = [of, cycle], of mapping names to "new", "stack" or
\* "done"; a cycle ends it.
popped(st, name) == [st EXCEPT !.of[name] = "done"]
RECURSIVE visit(_, _, _), visitAll(_, _, _)
visit(doc, st, name) ==
    IF st.of[name] = "stack" THEN [st EXCEPT !.cycle = TRUE]
    ELSE IF st.of[name] = "done" THEN st
    ELSE IF name \notin DOMAIN doc.fragments THEN [st EXCEPT !.of[name] = "done"]
    ELSE popped(visitAll(doc, [st EXCEPT !.of[name] = "stack"], spreads(doc.fragments[name].sels)), name)
visitAll(doc, st, names) ==
    IF names = <<>> \/ st.cycle THEN st ELSE visitAll(doc, visit(doc, st, Head(names)), Tail(names))

SpreadsOf(doc, f) == LET ns == spreads(doc.fragments[f].sels) IN {ns[i] : i \in 1 .. Len(ns)}
\* order: the fragments in the order of a map range, which is any order.
detectFragmentCycles(doc, order) ==
    LET names == DOMAIN doc.fragments \cup UNION {SpreadsOf(doc, f) : f \in DOMAIN doc.fragments}
    IN  visitAll(doc, [of |-> [n \in names |-> "new"], cycle |-> FALSE], order).cycle

\* costWalker.walk: [nodes, over]; nodes accumulate over the whole document.
walkDepth(depth) == depth + 1
RECURSIVE walk(_, _, _, _, _)
walk(doc, lim, sels, depth, c) ==
    IF c.over \/ (lim.depth > 0 /\ depth > lim.depth) THEN [c EXCEPT !.over = TRUE]
    ELSE IF sels = <<>> THEN c
    ELSE LET x == Head(sels)
             counted == [nodes |-> c.nodes + 1, over |-> lim.nodes > 0 /\ c.nodes + 1 > lim.nodes]
             after == CASE x.k = "field" -> IF counted.over \/ x.sels = <<>> THEN counted
                                            ELSE walk(doc, lim, x.sels, walkDepth(depth), counted)
                        [] x.k = "inline" -> walk(doc, lim, x.sels, depth, c)
                        [] x.k = "spread" -> IF x.name \notin DOMAIN doc.fragments THEN c
                                             ELSE walk(doc, lim, doc.fragments[x.name].sels, depth, c)
         IN  walk(doc, lim, Tail(sels), depth, after)

\* checkAliasesAndIntrospection: over the document as written, without expansion.
RECURSIVE aliases(_), introspects(_)
aliases(sels) == IF sels = <<>> THEN 0
                 ELSE LET x == Head(sels) IN
                      (IF x.k = "field" /\ x.alias # "" THEN 1 ELSE 0)
                      + (IF x.k = "spread" THEN 0 ELSE aliases(x.sels)) + aliases(Tail(sels))
introspects(sels) == \E i \in 1 .. Len(sels) : \/ sels[i].k = "field" /\ sels[i].name = "__typename"
                                               \/ sels[i].k # "spread" /\ introspects(sels[i].sels)

RECURSIVE CatOps(_)
CatOps(ops) == IF ops = <<>> THEN <<>> ELSE Head(ops).sels \o CatOps(Tail(ops))
RECURSIVE SumAliases(_, _)
SumAliases(doc, names) ==
    IF names = {} THEN aliases(CatOps(doc.operations))
    ELSE LET n == CHOOSE x \in names : TRUE IN aliases(doc.fragments[n].sels) + SumAliases(doc, names \ {n})

RECURSIVE walkAll(_, _, _, _)
walkAll(doc, lim, ops, c) ==
    IF ops = <<>> \/ c.over THEN c ELSE walkAll(doc, lim, Tail(ops), walk(doc, lim, Head(ops).sels, 1, c))
validate(doc, lim) ==
    /\ lim.aliases > 0 => SumAliases(doc, DOMAIN doc.fragments) <= lim.aliases
    /\ lim.noIntrospection => /\ ~introspects(CatOps(doc.operations))
                              /\ \A f \in DOMAIN doc.fragments : ~introspects(doc.fragments[f].sels)
    /\ lim.depth > 0 \/ lim.nodes > 0 => ~walkAll(doc, lim, doc.operations, [nodes |-> 0, over |-> FALSE]).over

-----------------------------------------------------------------------------
(* Execution.  w = [doc, vars, resolve]: resolve[type][field] is a Go      *)
(* value, or an error.                                                     *)

Error == Go("error", "")
addError(ex, path) == [ex EXCEPT !.errs = Append(@, path)]
Put(out, key, v) == [x \in DOMAIN out \cup {key} |-> IF x = key THEN v ELSE out[x]]
key(f) == IF f.alias = "" THEN f.name ELSE f.alias
fieldPath(path, f) == Append(path, key(f))
isNonNull(t) == t.k = "nonnull"
fragmentApplies(obj, on) == on = "" \/ on = obj

\* The flag of the enclosing selection set is put back when this one is done.
restored_leaking(ex, saved) == ex
restored(ex, saved) == [ex EXCEPT !.bubble = saved]

RECURSIVE collectFields(_, _, _, _, _, _), completeValue(_, _, _, _, _, _), completeItems(_, _, _, _, _, _, _)
executeSelectionSet(w, ex, obj, sels, path) ==
    LET r == collectFields(w, [ex EXCEPT !.bubble = FALSE], obj, sels, path, [x \in {} |-> Nil])
    IN  [ex |-> restored(r.ex, ex.bubble), bubbled |-> r.ex.bubble,
         v |-> IF r.ex.bubble THEN Nil ELSE Response(r.out)]

\* resolveField: [ex, out].
Nulled(ex, out, k, path, bubble) ==
    [ex |-> [addError(ex, path) EXCEPT !.bubble = @ \/ bubble], out |-> Put(out, k, Nil)]
resolveField(w, ex, obj, f, path, out) ==
    LET k == key(f)
        fpath == fieldPath(path, f)
        def == Fields(obj)[f.name]
        val == w.resolve[obj][f.name]
    IN  IF f.name = "__typename" THEN [ex |-> ex, out |-> Put(out, k, Leaf)]
        ELSE IF f.name \notin DOMAIN Fields(obj) THEN Nulled(ex, out, k, fpath, FALSE)
        ELSE IF ~coerceArguments(w.vars, def.args, f.args).ok THEN Nulled(ex, out, k, fpath, FALSE)
        ELSE IF val = Error THEN Nulled(ex, out, k, fpath, isNonNull(def.type))
        ELSE LET r == completeValue(w, ex, def.type, f, val, fpath)
             IN  IF r.bubbled THEN [ex |-> [r.ex EXCEPT !.bubble = @ \/ isNonNull(def.type)], out |-> Put(out, k, Nil)]
                 ELSE [ex |-> r.ex, out |-> Put(out, k, r.v)]

collectFields(w, ex, obj, sels, path, out) ==
    IF sels = <<>> THEN [ex |-> ex, out |-> out]
    ELSE LET x == Head(sels)
             Into(on, below) == IF fragmentApplies(obj, on) THEN collectFields(w, ex, obj, below, path, out)
                                ELSE [ex |-> ex, out |-> out]
             r == CASE x.k = "field" -> resolveField(w, ex, obj, x, path, out)
                    [] x.k = "inline" -> Into(x.on, x.sels)
                    [] x.k = "spread" -> IF x.name \notin DOMAIN w.doc.fragments
                                         THEN Nulled(ex, out, x.name, path, FALSE)
                                         ELSE Into(w.doc.fragments[x.name].on, w.doc.fragments[x.name].sels)
         IN  collectFields(w, r.ex, obj, Tail(sels), path, r.out)

\* completeValue: [ex, v, bubbled].
Value3(ex, v, bubbled) == [ex |-> ex, v |-> v, bubbled |-> bubbled]
completeValue(w, ex, t, f, val, path) ==
    CASE t.k = "nonnull" ->
             LET r == completeValue(w, ex, t.of, f, val, path)
             IN  IF ~r.bubbled /\ r.v = Nil THEN Value3(addError(r.ex, path), Nil, TRUE) ELSE r
      [] t.k = "list" -> IF val = Nil THEN Value3(ex, Nil, FALSE)
                         ELSE IF val.g # "list" THEN Value3(addError(ex, path), Nil, FALSE)
                         ELSE completeItems(w, ex, t.of, f, val.items, path, <<>>)
      [] t.k = "object" -> IF val = Nil THEN Value3(ex, Nil, FALSE)
                           ELSE executeSelectionSet(w, ex, t.name, f.sels, path)
      [] OTHER -> Value3(ex, IF val = Nil THEN Nil ELSE Leaf, FALSE)
completeItems(w, ex, t, f, items, path, done) ==
    IF Len(done) = Len(items) THEN Value3(ex, Slice(done), FALSE)
    ELSE LET r == completeValue(w, ex, t, f, items[Len(done) + 1], Append(path, ToString(Len(done))))
         IN  IF r.bubbled THEN r ELSE completeItems(w, r.ex, t, f, items, path, Append(done, r.v))

\* ExecuteWithLimits after parsing: data and errors, or one error and no data.
Execute(w, lim, order, name) ==
    LET op == selectOperation(w.doc, name)
    IN  IF ~op.ok \/ detectFragmentCycles(w.doc, order) THEN [data |-> Nil, errs |-> <<<<>>>>]
        ELSE IF ~validate(w.doc, lim) THEN [data |-> Nil, errs |-> <<<<>>>>]
        ELSE LET r == executeSelectionSet(w, [bubble |-> FALSE, errs |-> <<>>], "Query", op.op.sels, <<>>)
             IN  [data |-> r.v, errs |-> r.ex.errs]

-----------------------------------------------------------------------------
(* The reference, without flags: Bottom is a null that may not stand where *)
(* it is.                                                                  *)

Bottom == Go("bottom", "")
RECURSIVE Flat(_, _, _), RefValue(_, _, _, _)
\* The fields a selection set comes to, fragments expanded; an unknown spread is a null.
Flat(w, obj, sels) ==
    IF sels = <<>> THEN <<>>
    ELSE LET x == Head(sels)
             Into(on, below) == IF on \in {"", obj} THEN Flat(w, obj, below) ELSE <<>>
         IN  (CASE x.k = "field" -> <<x>>
                [] x.k = "inline" -> Into(x.on, x.sels)
                [] x.k = "spread" -> IF x.name \in DOMAIN w.doc.fragments
                                     THEN Into(w.doc.fragments[x.name].on, w.doc.fragments[x.name].sels)
                                     ELSE <<[k |-> "field", alias |-> x.name, name |-> "no such field"]>>)
             \o Flat(w, obj, Tail(sels))
RefField(w, obj, f) ==
    IF f.name = "__typename" THEN Leaf
    ELSE IF f.name \notin DOMAIN Fields(obj) THEN Nil
    ELSE LET t == Fields(obj)[f.name].type
             r == IF w.resolve[obj][f.name] = Error THEN Bottom ELSE RefValue(w, t, f, w.resolve[obj][f.name])
         IN  IF ~coerceArguments(w.vars, Fields(obj)[f.name].args, f.args).ok THEN Nil
             ELSE IF r = Bottom /\ ~isNonNull(t) THEN Nil ELSE r
RefObject(w, obj, sels) ==
    LET fs == Flat(w, obj, sels)
        rs == [i \in 1 .. Len(fs) |-> RefField(w, obj, fs[i])]
        Last(k) == CHOOSE i \in 1 .. Len(fs) : key(fs[i]) = k /\ \A j \in i + 1 .. Len(fs) : key(fs[j]) # k
    IN  IF \E i \in 1 .. Len(fs) : rs[i] = Bottom THEN Bottom
        ELSE Response([k \in {key(fs[i]) : i \in 1 .. Len(fs)} |-> rs[Last(k)]])
RefValue(w, t, f, val) ==
    CASE t.k = "nonnull" -> LET r == RefValue(w, t.of, f, val) IN IF r = Nil THEN Bottom ELSE r
      [] t.k = "list" -> IF val.g # "list" THEN Nil
                         ELSE LET rs == [i \in 1 .. Len(val.items) |-> RefValue(w, t.of, f, val.items[i])]
                              IN  IF \E i \in DOMAIN rs : rs[i] = Bottom THEN Bottom ELSE Slice(rs)
      [] t.k = "object" -> IF val = Nil THEN Nil ELSE RefObject(w, t.name, f.sels)
      [] OTHER -> IF val = Nil THEN Nil ELSE Leaf

\* A null that a non-null field produced takes with it exactly the objects and lists up
\* to the nearest nullable position: siblings and enclosing selections are as if it
\* had been null alone.
NullPropagation(w, sels) ==
    LET r == executeSelectionSet(w, [bubble |-> FALSE, errs |-> <<>>], "Query", sels, <<>>)
        ref == RefObject(w, "Query", sels)
    IN  r.v = (IF ref = Bottom THEN Nil ELSE ref) /\ r.bubbled = (ref = Bottom)

\* Every error is seen in the data: its path leads to a null, at its end or before.
\* Fields with the same response key are left out: the last one replaces the others.
RECURSIVE LeadsToNull(_, _)
LeadsToNull(v, path) ==
    \/ v = Nil
    \/ /\ path # <<>>
       /\ \/ /\ v.g = "object" /\ Head(path) \in DOMAIN v.fields
             /\ LeadsToNull(v.fields[Head(path)], Tail(path))
          \/ v.g = "list" /\ \E i \in 1 .. Len(v.items) : ToString(i - 1) = Head(path) /\ LeadsToNull(v.items[i], Tail(path))
ErrorsShow(w, sels) ==
    LET r == executeSelectionSet(w, [bubble |-> FALSE, errs |-> <<>>], "Query", sels, <<>>)
        fs == Flat(w, "Query", sels)
    IN  (\A i, j \in 1 .. Len(fs) : key(fs[i]) = key(fs[j]) => i = j)
            => \A i \in 1 .. Len(r.ex.errs) : LeadsToNull(r.v, r.ex.errs[i])

\* A cycle is reported exactly when some fragments each spread one of them, whatever
\* the order of the visits.
CyclesFound(doc, order) ==
    detectFragmentCycles(doc, order) <=>
        \E X \in SUBSET DOMAIN doc.fragments \ {{}} : \A f \in X : SpreadsOf(doc, f) \cap X # {}

\* The walk refuses exactly the documents whose expansion is larger or deeper than the
\* limits, over all operations together.
RECURSIVE SelectionSize(_, _), Deep(_, _)
SelectionSize(doc, sels) ==
    IF sels = <<>> THEN 0
    ELSE LET x == Head(sels) IN
         (CASE x.k = "field" -> 1 + SelectionSize(doc, x.sels)
            [] x.k = "inline" -> SelectionSize(doc, x.sels)
            [] x.k = "spread" -> IF x.name \in DOMAIN doc.fragments THEN SelectionSize(doc, doc.fragments[x.name].sels) ELSE 0)
         + SelectionSize(doc, Tail(sels))
Deep(doc, sels) ==
    LET Below(x) == CASE x.k = "field" -> IF x.sels = <<>> THEN 1 ELSE 1 + Deep(doc, x.sels)
                      [] x.k = "inline" -> Deep(doc, x.sels)
                      [] x.k = "spread" -> IF x.name \in DOMAIN doc.fragments THEN Deep(doc, doc.fragments[x.name].sels) ELSE 1
        ds == {1} \cup {Below(sels[i]) : i \in 1 .. Len(sels)}
    IN  CHOOSE d \in ds : \A e \in ds : e <= d
CostIsExact(doc, lim) ==
    walkAll(doc, lim, doc.operations, [nodes |-> 0, over |-> FALSE]).over <=>
        \/ lim.nodes > 0 /\ SelectionSize(doc, CatOps(doc.operations)) > lim.nodes
        \/ lim.depth > 0 /\ Deep(doc, CatOps(doc.operations)) > lim.depth
=============================================================================
