--------------------------- MODULE DataAlgorithms ---------------------------
(***************************************************************************)
(* The algorithms of packages validation, search, collection, schema and   *)
(* relations.                                                              *)
(***************************************************************************)
EXTENDS Integers, Sequences, SequencesExt, FiniteSets, FiniteSetsExt, TLC

CONSTANTS StopWords,       \* words dropped from documents and queries
          DefaultPerPage   \* page size when none is asked for

-----------------------------------------------------------------------------
(* Package validation: the rules (rules.go) and the two ways to run them,  *)
(* over a struct's tags with dive into nested structs, and over a map      *)
(* (validate.go).  A value is "nil" (a nil pointer or an absent key), a    *)
(* string, an int, a bool, a slice of structs or a struct.  The format     *)
(* rules (email, url, uuid, regex, datetime...) skip what is not a         *)
(* non-empty string and are one rule, "format".  Messages are left out: an *)
(* error is a path and the rule that failed.                               *)

Value(kind, text, n, items) == [kind |-> kind, text |-> text, n |-> n, items |-> items]
Nil == Value("nil", "", 0, <<>>)
Str(text) == Value("string", text, 0, <<>>)
Num(n) == Value("int", "", n, <<>>)
Bool(b) == Value("bool", "", IF b THEN 1 ELSE 0, <<>>)
List(items) == Value("slice", "", Len(items), items)
Struct(fields) == Value("struct", "", 0, fields)
Field(name, rules, value) == [name |-> name, rules |-> rules, value |-> value]
(* The few texts the model uses: empty, blank, a number, a word. *)
length(text) == CASE text = "" -> 0 [] text \in {" ", "2"} -> 1 [] OTHER -> 3
Words == {"abc", "xyz"}
-----------------------------------------------------------------------------
isEmpty(v) ==
  CASE v.kind = "nil" -> TRUE
    [] v.kind = "string" -> v.text \in {"", " "}
    [] v.kind \in {"slice", "int", "bool"} -> v.n = 0
    [] OTHER -> FALSE
sizable(v) == v.kind \in {"string", "slice", "int"}
numericLen(v) == IF v.kind = "string" THEN length(v.text) ELSE v.n
comparable(v) == IF v.kind = "string" THEN v.text = "2" ELSE sizable(v)
numericValue(v) == IF v.kind = "string" THEN 2 ELSE v.n
equalValues(a, b) ==
  CASE a.kind = "nil" \/ b.kind = "nil" -> a.kind = b.kind
    [] a.kind = "string" /\ b.kind = "string" -> a.text = b.text
    [] sizable(a) /\ sizable(b) -> numericLen(a) = numericLen(b)
    [] OTHER -> a = b
lacks(siblings, name) == name \notin DOMAIN siblings
confirmation(name) == IF name = "p" THEN "p_confirmation" ELSE "none"
maxFails(v, n) == sizable(v) /\ numericLen(v) > n
(* The rule says no: it returns a message. *)
fails(rule, name, v, siblings) ==
  CASE rule[1] = "required" -> isEmpty(v)
    [] rule[1] = "format" -> v.kind = "string" /\ v.text # "" /\ v.text \notin Words
    [] rule[1] = "min" -> sizable(v) /\ numericLen(v) < rule[2]
    [] rule[1] = "max" -> maxFails(v, rule[2])
    [] rule[1] = "len" -> sizable(v) /\ numericLen(v) # rule[2]
    [] rule[1] = "gte" -> comparable(v) /\ numericValue(v) < rule[2]
    [] rule[1] = "lt" -> comparable(v) /\ numericValue(v) >= rule[2]
    [] rule[1] = "eqfield" -> ~lacks(siblings, rule[3]) /\ ~equalValues(v, siblings[rule[3]])
    [] rule[1] = "nefield" -> ~lacks(siblings, rule[3]) /\ equalValues(v, siblings[rule[3]])
    [] rule[1] = "confirmed" ->
         LET other == confirmation(name) IN lacks(siblings, other) \/ ~equalValues(v, siblings[other])
    [] OTHER -> FALSE
-----------------------------------------------------------------------------
Siblings(fields) ==
  [name \in {fields[i].name : i \in DOMAIN fields} |-> fields[CHOOSE i \in DOMAIN fields : fields[i].name = name].value]
element(prefix, i) == Append(prefix, ToString(i - 1))
RECURSIVE validateStruct(_, _)
dive(v, prefix) ==
  CASE v.kind = "struct" -> validateStruct(v, prefix)
    [] v.kind = "slice" -> UNION {validateStruct(v.items[i], element(prefix, i)) : i \in DOMAIN v.items}
    [] OTHER -> {}
validateStruct(v, prefix) ==
  IF v.kind # "struct" THEN {}
  ELSE UNION {LET f == v.items[i]
                  full == Append(prefix, f.name)
                  broken == {r \in ToSet(f.rules) : fails(r, f.name, f.value, Siblings(v.items))}
              IN  {<<full, r[1]>> : r \in broken}
                  \cup (IF \E r \in ToSet(f.rules) : r[1] = "dive" THEN dive(f.value, full) ELSE {})
              : i \in DOMAIN v.items}
Validate(v) == validateStruct(v, <<>>)
checked(data, rules) == DOMAIN rules
valueOf(data, name) == IF name \in DOMAIN data THEN data[name] ELSE Nil
Map(data, rules) ==
  UNION {{<< <<name>>, r[1]>> : r \in {x \in ToSet(rules[name]) : fails(x, name, valueOf(data, name), data)}}
         : name \in checked(data, rules)}
-----------------------------------------------------------------------------
(* The same data and rules give the same errors as a struct and as a map, where an   *)
(* absent key stands for a nil pointer (ValidateWith, MapWith); the rules that look   *)
(* at a sibling see a nil sibling in a struct and none in a map, and are left out.    *)
MapAgrees(fields) ==
  LET present == {i \in DOMAIN fields : fields[i].value # Nil}
      data == [name \in {fields[i].name : i \in present} |-> Siblings(fields)[name]]
      rules == [name \in {fields[i].name : i \in DOMAIN fields} |->
                  fields[CHOOSE i \in DOMAIN fields : fields[i].name = name].rules]
  IN  Map(data, rules) = Validate(Struct(fields))
(* dive reaches every struct of a nested list and reports each of its failures under *)
(* the path of that element, and the errors of two elements never share a path, so a  *)
(* client can show each one where it belongs (validateStruct, dive).                  *)
DiveReachesAll(items) ==
  LET v == Struct(<<Field("list", << <<"dive">> >>, List(items))>>) IN
  /\ \A e \in Validate(v) : Len(e[1]) = 3 /\ e[1][1] = "list"
  /\ \A i \in DOMAIN items :
       {<<e[1][3], e[2]>> : e \in {x \in Validate(v) : x[1][2] = ToString(i - 1)}} = {<<e[1][1], e[2]>> : e \in Validate(items[i])}
(* min n and max n together say what len n says, lt is the opposite of gte for what   *)
(* can be compared, and nefield the opposite of eqfield: no value passes or fails     *)
(* both of two rules that contradict each other (rules.go, numericLen, numericValue). *)
RulesConsistent(v, other, n) ==
  LET s == [o |-> other] IN
  /\ (fails(<<"min", n>>, "f", v, s) \/ fails(<<"max", n>>, "f", v, s)) = fails(<<"len", n>>, "f", v, s)
  /\ comparable(v) => fails(<<"lt", n>>, "f", v, s) # fails(<<"gte", n>>, "f", v, s)
  /\ fails(<<"eqfield", 0, "o">>, "f", v, s) # fails(<<"nefield", 0, "o">>, "f", v, s)

-----------------------------------------------------------------------------
(* The in-memory search engine of src/search/memory.go, the tokenizer and  *)
(* the pagination of search.go.  An index is a function from document ids  *)
(* to their fields, the fields a function from names to texts, a text a    *)
(* sequence of words and a word a sequence of letters, so that prefixes    *)
(* exist.  The ids are numbers: only their order matters.  After it, the   *)
(* package collection.                                                     *)

foldRune(r) == IF r = "A" THEN "a" ELSE r
fold(word) == [i \in DOMAIN word |-> foldRune(word[i])]
IsStopWord(w) == w \in StopWords
Tokenize(text) == SelectSeq([i \in DOMAIN text |-> fold(text[i])], LAMBDA w : ~IsStopWord(w))
(* How often each token occurs in the fields of a document. *)
buildFreq(fields) ==
  LET tokens(f) == Tokenize(fields[f])
      count(tok, f) == Cardinality({i \in DOMAIN tokens(f) : tokens(f)[i] = tok})
  IN [tok \in UNION {ToSet(tokens(f)) : f \in DOMAIN fields} |->
        MapThenSumSet(LAMBDA f : count(tok, f), DOMAIN fields)]

Empty == <<>>
Index(idx, id, fields) == (id :> fields) @@ idx
Delete(idx, ids) == [id \in DOMAIN idx \ ids |-> idx[id]]

(* What one query token adds: its own count, or with prefix matching and   *)
(* no such token the counts of all the tokens it begins.                   *)
scoreToken(freq, q, prefix) ==
  CASE q \in DOMAIN freq -> freq[q]
    [] prefix -> MapThenSumSet(LAMBDA t : freq[t], {t \in DOMAIN freq : IsPrefix(q, t)})
    [] OTHER -> 0
scoreDoc(freq, tokens, prefix) == FoldLeft(LAMBDA s, q : s + scoreToken(freq, q, prefix), 0, tokens)
matchesFilters(fields, filters) ==
  \A f \in DOMAIN filters : f \in DOMAIN fields /\ fields[f] = filters[f]

(* The bounds of a page, as how many hits come before it and up to its end. *)
normalizePage(page, perPage, total) ==
  LET per == IF perPage < 1 THEN DefaultPerPage ELSE perPage
      lo == Min({(Max({page, 1}) - 1) * per, total})
  IN <<lo, Min({lo + per, total})>>
Search(idx, query, filters, prefix, page, perPage) ==
  LET score(id) == scoreDoc(buildFreq(idx[id]), Tokenize(query), prefix)
      matched == {id \in DOMAIN idx : matchesFilters(idx[id], filters) /\ score(id) > 0}
      ranked == SetToSortSeq(matched, LAMBDA a, b : score(a) > score(b) \/ (score(a) = score(b) /\ a < b))
      bounds == normalizePage(page, perPage, Len(ranked))
  IN [hits |-> SubSeq(ranked, bounds[1] + 1, bounds[2]), total |-> Len(ranked)]
-----------------------------------------------------------------------------
Found(idx, query, prefix) == ToSet(Search(idx, query, Empty, prefix, 1, Cardinality(DOMAIN idx) + 1).hits)

(* A client that reads the pages one after the other gets every match once *)
(* and in one ranking, and page 0 is page 1: normalizePage's clamping      *)
(* neither skips nor repeats a hit at the end of a page.                   *)
PagesPartition(idx, query, perPage) ==
  LET page(n) == Search(idx, query, Empty, FALSE, n, perPage)
      pages == [n \in 1..Cardinality(DOMAIN idx) + 1 |-> page(n).hits]
      whole == Search(idx, query, Empty, FALSE, 1, Cardinality(DOMAIN idx) + 1)
  IN /\ FlattenSeq(pages) = whole.hits /\ Len(whole.hits) = whole.total
     /\ page(0) = page(1)
     /\ \A n \in DOMAIN pages : page(n).total = whole.total

(* Asking for more finds more: prefix matching and a further word of the   *)
(* query only add hits, a filter only removes some, and a document indexed *)
(* again under its id is found by its new text alone.                      *)
MoreFindsMore(idx, query, word) ==
  /\ Found(idx, query, FALSE) \subseteq Found(idx, query, TRUE)
  /\ \A prefix \in BOOLEAN : Found(idx, query, prefix) \subseteq Found(idx, Append(query, word), prefix)
  /\ \A id \in DOMAIN idx :
       LET again == Index(idx, id, [f \in {"t"} |-> <<word>>])
           only == [f \in {"t"} |-> <<word>>]
       IN /\ Found(again, query, TRUE) \ {id} = Found(idx, query, TRUE) \ {id}
          /\ ToSet(Search(again, <<word>>, only, FALSE, 1, 0).hits)
               = {d \in Found(again, <<word>>, FALSE) : matchesFilters(again[d], only)}
          /\ Found(Delete(again, {id}), query, TRUE) = Found(idx, query, TRUE) \ {id}

-----------------------------------------------------------------------------
(***************************************************************************)
(* Package collection: the methods of methods.go and the free functions of *)
(* funcs.go over a sequence of items.  A callback is a function of the     *)
(* items (keep, key) or an operator.  Every method returns a copy, so a    *)
(* collection is a value; go slices count from 0, sequences from 1.        *)
(***************************************************************************)
None == <<>>   \* the zero value and false
Get(c, i) == IF i < 0 \/ i >= Len(c) THEN None ELSE <<c[i + 1]>>
First(c) == Get(c, 0)
Final(c) == Get(c, Len(c) - 1)
Filter(c, keep) == SelectSeq(c, LAMBDA v : keep[v])
Reject(c, drop) == SelectSeq(c, LAMBDA v : ~drop[v])
MapItems(c, fn) == [i \in DOMAIN c |-> fn[c[i]]]
UniqueBy(c, key) ==
  FoldLeft(LAMBDA out, v : IF \E i \in DOMAIN out : key[out[i]] = key[v] THEN out ELSE Append(out, v), <<>>, c)
(* sort.SliceStable: each item goes after the last one that is not larger. *)
Sort(c, Less(_, _)) ==
  LET place(out, v) == Cardinality({i \in DOMAIN out : ~Less(v, out[i])})
  IN FoldLeft(LAMBDA out, v : InsertAt(out, place(out, v) + 1, v), <<>>, c)
SortBy(c, key) == Sort(c, LAMBDA a, b : key[a] < key[b])
reversed(c) == [i \in DOMAIN c |-> c[Len(c) - i + 1]]

slice(c, from, to) == SubSeq(c, from + 1, to)   \* c.items[from:to]
Take(c, n) ==
  IF n < 0 THEN slice(c, Len(c) - Min({-n, Len(c)}), Len(c)) ELSE slice(c, 0, Min({n, Len(c)}))
Skip(c, n) == slice(c, Min({Max({n, 0}), Len(c)}), Len(c))
sliceStart(c, start) ==
  LET s == IF start < 0 THEN start + Len(c) ELSE start IN Min({Max({s, 0}), Len(c)})
Slicing(c, start, n) ==
  LET from == sliceStart(c, start)
  IN slice(c, from, IF n >= 0 THEN Min({from + n, Len(c)}) ELSE Len(c))
chunkCount(c, size) == (Len(c) + size - 1) \div size
Chunk(c, size) ==
  IF size <= 0 THEN <<>>
  ELSE [k \in 1..chunkCount(c, size) |-> slice(c, (k - 1) * size, Min({k * size, Len(c)}))]
Push(c, items) == c \o items
Prepend(c, items) == items \o c
Partition(c, pred) ==
  FoldLeft(LAMBDA out, v : IF pred[v] THEN <<Append(out[1], v), out[2]>> ELSE <<out[1], Append(out[2], v)>>,
           <<<<>>, <<>>>>, c)
ContainsBy(c, pred) == \E i \in DOMAIN c : pred[c[i]]
FirstWhere(c, pred) ==
  LET i == SelectInSeq(c, LAMBDA v : pred[v]) IN IF i = 0 THEN None ELSE <<c[i]>>

GroupBy(c, key) ==
  FoldLeft(LAMBDA out, v :
             (key[v] :> (IF key[v] \in DOMAIN out THEN Append(out[key[v]], v) ELSE <<v>>)) @@ out,
           <<>>, c)
KeyBy(c, key) == FoldLeft(LAMBDA out, v : (key[v] :> v) @@ out, <<>>, c)
Smallest(c) ==
  IF c = <<>> THEN None ELSE <<FoldLeft(LAMBDA m, v : IF v < m THEN v ELSE m, c[1], Tail(c))>>
Largest(c) ==
  IF c = <<>> THEN None ELSE <<FoldLeft(LAMBDA m, v : IF v > m THEN v ELSE m, c[1], Tail(c))>>
-----------------------------------------------------------------------------
(* Cutting a collection loses and repeats nothing, whatever the numbers:   *)
(* Take and Skip, Chunk, and Slicing with negative and oversized bounds    *)
(* agree with each other at every boundary.                                *)
CutsRejoin(c, n, m) ==
  /\ n >= 0 => Push(Take(c, n), Skip(c, n)) = c /\ Prepend(Skip(c, n), Take(c, n)) = c
  /\ n < 0 => Skip(c, Len(c) + n) = Take(c, n) /\ Skip(c, n) = c
  /\ Slicing(c, n, -1) = IF n < 0 THEN Take(c, n) ELSE Skip(c, n)
  /\ m >= 0 => Slicing(c, n, m) = Take(Slicing(c, n, -1), m)
  /\ n > 0 => /\ FlattenSeq(Chunk(c, n)) = c
              /\ \A k \in DOMAIN Chunk(c, n) :
                   Chunk(c, n)[k] = Slicing(c, (k - 1) * n, n) /\ Chunk(c, n)[k] # <<>>
  /\ Final(c) = First(reversed(c)) /\ Get(c, n) = First(IF n < 0 THEN <<>> ELSE Skip(c, n))

(* The ways to sort items into groups agree: the groups in the order of    *)
(* their keys are the stable sort, their first items are UniqueBy, their   *)
(* last ones KeyBy, and a two-way Partition is Filter and Reject.          *)
GroupsAgree(c, key) ==
  LET groups == GroupBy(c, key)
      keys == SetToSortSeq(DOMAIN groups, LAMBDA a, b : a < b)
      low == [v \in DOMAIN key |-> key[v] = Smallest(MapItems(c, key))[1]]
      halves == Partition(c, low)
  IN /\ FlattenSeq([i \in DOMAIN keys |-> groups[keys[i]]]) = SortBy(c, key)
     /\ SortBy(UniqueBy(c, key), key) = [i \in DOMAIN keys |-> groups[keys[i]][1]]
     /\ KeyBy(c, key) = [k \in DOMAIN groups |-> Final(groups[k])[1]]
     /\ c # <<>> => /\ halves = <<Filter(c, low), Reject(c, low)>>
                    /\ halves[1] = groups[keys[1]]
                    /\ FirstWhere(c, low) = First(halves[1]) /\ ContainsBy(c, low)
                    /\ Smallest(c) = First(Sort(c, LAMBDA a, b : a < b))
                    /\ Largest(c) = Final(Sort(c, LAMBDA a, b : a < b))

-----------------------------------------------------------------------------
(***************************************************************************)
(* schema.Blueprint and the Compiler (schema/grammar.go): what a migration *)
(* declares, and the statements it becomes under each dialect.  A          *)
(* statement is a tuple; the SQL text and the column types are left out.   *)
(* run applies statements to a table the way a database does, so that the  *)
(* properties speak of the table that results and not of the text.         *)
(***************************************************************************)
(* Blueprint.addCol, Unique, AddIndex, Primary, Foreign, DropColumn, RenameColumn, RenameTo. *)
Column(name, flags) == [name |-> name, primary |-> "primary" \in flags, unique |-> "unique" \in flags,
                        index |-> "index" \in flags, enum |-> "enum" \in flags]
IndexOn(type, columns) == [type |-> type, columns |-> columns]
Blueprint(columns, indexes, foreigns, cmds) ==
  [table |-> "t", columns |-> columns, indexes |-> indexes, foreigns |-> foreigns, commands |-> cmds]
ColumnNames(bp) == [i \in DOMAIN bp.columns |-> bp.columns[i].name]
validate(bp) == IsInjective(ColumnNames(bp))

Only(seq, Test(_)) == SelectSeq(seq, Test)
Each(seq, Op(_)) == [i \in DOMAIN seq |-> Op(seq[i])]
Distinct(seq) == FoldLeft(LAMBDA acc, x : IF x \in ToSet(acc) THEN acc ELSE Append(acc, x), <<>>, seq)
-----------------------------------------------------------------------------
primaryKeyColumns(bp) ==
  LET flagged == Each(Only(bp.columns, LAMBDA c : c.primary), LAMBDA c : c.name)
      listed == FlattenSeq(Each(Only(bp.indexes, LAMBDA x : x.type = "primary"), LAMBDA x : x.columns))
  IN  Distinct(flagged \o listed)
compileColumn(col, primary, inlineUnique) == <<"column", col.name, primary, col.unique /\ ~primary /\ inlineUnique>>
hasEnumCheck(col, dialect) == col.enum /\ dialect # "mysql"
compileEnumCheck(col) == <<"check", col.name>>
compileForeignInline(fk) == <<"foreign", fk>>
(* nameAllocator.unique: the n-th use of a base name gets the suffix n.  The base joins  *)
(* table, columns and type, so ["a", "b"] and ["a_b"] share one.                          *)
base(idx) == <<FlattenSeq(Each(idx.columns, LAMBDA c : IF c = "a_b" THEN <<"a", "b">> ELSE <<c>>)), idx.type>>
unique(seen, b) == <<b, Len(Only(seen, LAMBDA s : s = b)) + 1>>
compileIndexes(idxs) ==
  LET bases == Each(idxs, base) IN
  [i \in DOMAIN idxs |-> <<"index", unique(SubSeq(bases, 1, i - 1), bases[i]), idxs[i].type, idxs[i].columns>>]
indexed(bp) == Each(Only(bp.columns, LAMBDA c : c.index), LAMBDA c : IndexOn("index", <<c.name>>))
compileCreate(bp, dialect) ==
  LET pk == primaryKeyColumns(bp)
      inlinePK(c) == Len(pk) = 1 /\ c.name = pk[1]
      items == Each(bp.columns, LAMBDA c : compileColumn(c, inlinePK(c), TRUE))
               \o (IF Len(pk) > 1 THEN << <<"primary", pk>> >> ELSE <<>>)
               \o Each(bp.foreigns, compileForeignInline)
               \o Each(Only(bp.columns, LAMBDA c : hasEnumCheck(c, dialect)), compileEnumCheck)
  IN  << <<"create", bp.table, items>> >>
      \o Each(compileIndexes(Only(bp.indexes, LAMBDA x : x.type # "primary") \o indexed(bp)),
              LAMBDA s : <<"alter", bp.table, s>>)
alterIndexes(bp) ==
  bp.indexes \o Each(Only(bp.columns, LAMBDA c : c.unique \/ c.index),
                     LAMBDA c : IndexOn(IF c.unique THEN "unique" ELSE "index", <<c.name>>))
compileCommand(cmd) ==
  IF cmd[1] = "dropColumn" THEN Each(cmd[2], LAMBDA c : <<"dropColumn", c>>) ELSE <<cmd>>
added(bp, dialect) ==
  FlattenSeq(Each(bp.columns, LAMBDA c :
    <<compileColumn(c, c.primary, FALSE)>>
    \o (IF hasEnumCheck(c, dialect) /\ dialect # "sqlite" THEN <<compileEnumCheck(c)>> ELSE <<>>)))
changed(bp) == FlattenSeq(Each(bp.commands, compileCommand))
alterParts_commandsFirst(bp, dialect) ==
  changed(bp) \o added(bp, dialect) \o Each(bp.foreigns, compileForeignInline) \o compileIndexes(alterIndexes(bp))
alterParts(bp, dialect) ==
  added(bp, dialect) \o Each(bp.foreigns, compileForeignInline) \o compileIndexes(alterIndexes(bp)) \o changed(bp)
Unsupported(bp, dialect) == dialect = "sqlite" /\ \E i \in DOMAIN bp.commands : bp.commands[i][1] = "dropForeign"
compileAlter(bp, dialect) == Each(alterParts(bp, dialect), LAMBDA s : <<"alter", bp.table, s>>)
(* Compile returns the statements of a definition, or none with an error. *)
Compile(bp, op, dialect) ==
  IF ~validate(bp) \/ (op = "alter" /\ Unsupported(bp, dialect)) THEN <<>>
  ELSE IF op = "create" THEN compileCreate(bp, dialect) ELSE compileAlter(bp, dialect)
-----------------------------------------------------------------------------
(* The database the statements are sent to. *)
NoTable == [ok |-> TRUE, name |-> "none", columns |-> <<>>, keys |-> {}, uniques |-> {}, indexes |-> {},
            names |-> {}, foreigns |-> {}, checks |-> {}]
Fails(t) == [t EXCEPT !.ok = FALSE]
Renamed(cols, from, to) == [i \in DOMAIN cols |-> IF cols[i] = from THEN to ELSE cols[i]]
applyItem(t, s) ==
  CASE s[1] = "column" ->
         IF s[2] \in ToSet(t.columns) THEN Fails(t)
         ELSE [t EXCEPT !.columns = Append(@, s[2]), !.keys = IF s[3] THEN @ \cup {{s[2]}} ELSE @,
                        !.uniques = IF s[4] THEN @ \cup {{s[2]}} ELSE @]
    [] s[1] = "primary" -> [t EXCEPT !.keys = @ \cup {ToSet(s[2])}]
    [] s[1] = "foreign" -> [t EXCEPT !.foreigns = @ \cup {s[2]}]
    [] s[1] = "check" -> [t EXCEPT !.checks = @ \cup {s[2]}]
    [] s[1] = "index" ->
         IF s[2] \in t.names THEN Fails(t)
         ELSE [t EXCEPT !.names = @ \cup {s[2]}, !.uniques = IF s[3] = "unique" THEN @ \cup {ToSet(s[4])} ELSE @,
                        !.indexes = @ \cup {s[4]}]
    [] s[1] = "dropColumn" ->
         IF s[2] \in ToSet(t.columns) THEN [t EXCEPT !.columns = Only(@, LAMBDA c : c # s[2])] ELSE Fails(t)
    [] s[1] = "renameColumn" ->
         IF s[2] \in ToSet(t.columns) /\ s[3] \notin ToSet(t.columns) THEN [t EXCEPT !.columns = Renamed(@, s[2], s[3])]
         ELSE Fails(t)
    [] s[1] = "dropForeign" -> t
    [] OTHER -> [t EXCEPT !.name = s[2]]
apply(t, s) ==
  IF s[1] = "create" THEN FoldLeft(applyItem, [t EXCEPT !.name = s[2]], s[3])
  ELSE IF t.name = s[2] THEN applyItem(t, s[3]) ELSE Fails(t)
run(t, stmts) == FoldLeft(apply, t, stmts)
-----------------------------------------------------------------------------
(* A created table is what the blueprint declares, under every dialect: its columns in *)
(* order, exactly one primary key made of all the columns flagged or listed as primary, *)
(* every unique column unique, every index present under a name of its own, every       *)
(* foreign key and, where the type does not check it, every enum (compileCreate).       *)
CreatedAsDeclared(bp, dialect) ==
  validate(bp) =>
    LET t == run(NoTable, Compile(bp, "create", dialect))
        pk == {c.name : c \in {x \in ToSet(bp.columns) : x.primary}}
              \cup UNION {ToSet(x.columns) : x \in {y \in ToSet(bp.indexes) : y.type = "primary"}}
    IN  /\ t.ok /\ t.columns = ColumnNames(bp)
        /\ t.keys = IF pk = {} THEN {} ELSE {pk}
        /\ \A c \in ToSet(bp.columns) :
             /\ c.unique => {c.name} \in t.uniques \cup t.keys
             /\ c.index => <<c.name>> \in t.indexes
             /\ c.enum /\ dialect # "mysql" => c.name \in t.checks
        /\ \A x \in ToSet(bp.indexes) : x.type = "unique" => ToSet(x.columns) \in t.uniques
        /\ t.foreigns = ToSet(bp.foreigns)
(* An alteration adds its columns first and then runs its commands in the order they   *)
(* were declared, so a column added by the same blueprint can be renamed, a table can  *)
(* be renamed last, and every statement still finds the table and column it names      *)
(* (compileAlter); a blueprint the dialect cannot alter changes nothing at all.        *)
AlteredInOrder(t, bp, dialect) ==
  LET moved(cols, cmd) ==
        CASE cmd[1] = "dropColumn" -> Only(cols, LAMBDA c : c \notin ToSet(cmd[2]))
          [] cmd[1] = "renameColumn" -> Renamed(cols, cmd[2], cmd[3])
          [] OTHER -> cols
      after == run(t, Compile(bp, "alter", dialect))
  IN  IF Unsupported(bp, dialect) THEN after = t
      ELSE /\ after.ok
           /\ after.columns = FoldLeft(moved, t.columns \o ColumnNames(bp), bp.commands)
           /\ \A c \in ToSet(bp.columns) : c.unique => {c.name} \in after.uniques

-----------------------------------------------------------------------------
(***************************************************************************)
(* orm.With and relations.Relation: a relation is loaded for all parents   *)
(* with one query, and the rows are handed back to the parents by key.     *)
(*                                                                         *)
(* A key is <<Go type, number>>: models, foreign keys and drivers use      *)
(* different types for the same number.  A parent is [key], a row          *)
(* [id, fk, morph, deleted], a pivot row <<parent, child>>.                *)
(***************************************************************************)
NilKey == <<"nil", 0>>
MorphValue == "post"

normalizeKey(k) == IF k = NilKey THEN NilKey ELSE <<"int64", k[2]>>

\* collectParentKeys: the keys to ask for, and all parents of each.
lookup(ps) ==
    [k \in {normalizeKey(ps[i].key) : i \in DOMAIN ps} \ {NilKey} |-> {i \in DOMAIN ps : normalizeKey(ps[i].key) = k}]
Numbers(ps) == {k[2] : k \in DOMAIN lookup(ps)}

\* The table of the query: the foreign keys, the morph type, and relationScope, which
\* the pivot loader does not apply.
relationScope(kind, r) == kind = "belongsToMany" \/ ~r.deleted
Asked(kind, ps, r) ==
    /\ r.fk[2] \in Numbers(ps)
    /\ kind = "morphMany" => r.morph = MorphValue
    /\ relationScope(kind, r)
Joined(table, pivot) ==
    FlattenSeq([i \in DOMAIN pivot |->
        [j \in DOMAIN SelectSeq(table, LAMBDA r : r.id = pivot[i][2]) |->
            [SelectSeq(table, LAMBDA r : r.id = pivot[i][2])[j] EXCEPT !.fk = pivot[i][1]]]])
Fetched(kind, ps, table, pivot) ==
    SelectSeq(IF kind = "belongsToMany" THEN Joined(table, pivot) ELSE table, LAMBDA r : Asked(kind, ps, r))

\* loadHasOrMorph, loadBelongsTo and loadBelongsToMany: bucket by key, then assign.
Bucket(fetched, k) == SelectSeq(fetched, LAMBDA r : normalizeKey(r.fk) = k)
\* setRelationField: a single-row field takes the first row; BelongsTo keeps one row
\* per key, the last.
setRelationField(kind, bucket) ==
    IF bucket = <<>> \/ kind \in {"hasMany", "morphMany", "belongsToMany"} THEN bucket
    ELSE IF kind = "belongsTo" THEN <<bucket[Len(bucket)]>> ELSE <<bucket[1]>>
loadMany(kind, ps, table, pivot) ==
    LET fetched == Fetched(kind, ps, table, pivot)
        of == lookup(ps)
    IN  [i \in DOMAIN ps |->
            IF \E k \in DOMAIN of : i \in of[k]
            THEN setRelationField(kind, Bucket(fetched, CHOOSE k \in DOMAIN of : i \in of[k]))
            ELSE <<>>]

\* collectChildPointers: every copy of a child, in whichever parent's field it sits;
\* the nested relation is loaded into these.
collectChildPointers(fields) ==
    LET all == FlattenSeq(fields) IN [i \in DOMAIN all |-> [at |-> i, id |-> all[i].id]]
loadNested(fields, table) ==
    LET kids == collectChildPointers(fields)
        got == loadMany("hasMany", [i \in DOMAIN kids |-> [key |-> <<"uint64", kids[i].id>>]], table, <<>>)
    IN  [n \in DOMAIN FlattenSeq(fields) |->
            IF \E i \in DOMAIN kids : kids[i].at = n THEN got[CHOOSE i \in DOMAIN kids : kids[i].at = n] ELSE <<>>]

-----------------------------------------------------------------------------
\* With and WithWhere: names, each a head and a rest ("" for none), become one spec
\* per head with its nested names.
appendUnique(s, v) == IF v = "" \/ Contains(s, v) THEN s ELSE Append(s, v)
findWith(specs, head) == {i \in DOMAIN specs : specs[i].name = head}
With(specs, head, rest) ==
    IF head = "" THEN specs
    ELSE IF findWith(specs, head) = {} THEN Append(specs, [name |-> head, nested |-> appendUnique(<<>>, rest)])
    ELSE LET i == CHOOSE x \in findWith(specs, head) : TRUE
         IN  [specs EXCEPT ![i].nested = appendUnique(@, rest)]

-----------------------------------------------------------------------------
Lazy(kind, p, table, pivot) ==
    LET mine(r) == p.key # NilKey /\ r.fk[2] = p.key[2] /\ (kind = "morphMany" => r.morph = MorphValue)
                   /\ (~r.deleted \/ kind = "belongsToMany")
        all == SelectSeq(IF kind = "belongsToMany" THEN Joined(table, pivot) ELSE table, mine)
    IN  IF all = <<>> \/ kind \in {"hasMany", "morphMany", "belongsToMany"} THEN all
        ELSE IF kind = "belongsTo" THEN <<all[Len(all)]>> ELSE <<all[1]>>

\* Loading a relation for all parents at once leaves in every parent what a query for
\* that parent alone finds: also for parents that share a key, for a nil key, for
\* keys of different Go types and next to soft-deleted table.
EagerIsLazy(kind, ps, table, pivot) ==
    \A i \in DOMAIN ps : loadMany(kind, ps, table, pivot)[i] = Lazy(kind, ps[i], table, pivot)

\* A nested relation reaches every copy of a child, also when several parents hold
\* copies of the same row.
NestedReachesAll(kind, ps, table, pivot) ==
    LET fields == loadMany(kind, ps, table, pivot)
        all == FlattenSeq(fields)
    IN  \A n \in DOMAIN all : loadNested(fields, table)[n] = Lazy("hasMany", [key |-> <<"uint64", all[n].id>>], table, <<>>)

\* However names repeat and nest, every head is loaded with one query, and every
\* nested name asked for belongs to its head.
OneQueryPerHead(names) ==
    LET specs == FoldLeft(LAMBDA acc, n : With(acc, n[1], n[2]), <<>>, names) IN
    /\ \A i, j \in DOMAIN specs : specs[i].name = specs[j].name => i = j
    /\ \A n \in Range(names) : n[1] # "" =>
         \E s \in Range(specs) : s.name = n[1] /\ (n[2] # "" => Contains(s.nested, n[2]))
=============================================================================
