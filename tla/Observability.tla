---------------------------- MODULE Observability ---------------------------
(***************************************************************************)
(* observability: the default Tracer and the metrics Registry.  Spans are  *)
(* started under a context, changed and ended by any goroutine; End        *)
(* snapshots the span under its mutex and adds the record to the ring      *)
(* after the unlock.  Goroutines look instruments up by name and label     *)
(* set, with a double check around the family map, and add to them with a  *)
(* load and a compare-and-swap.                                            *)
(***************************************************************************)
EXTENDS Integers, Sequences, FiniteSets

-----------------------------------------------------------------------------
(* The Tracer.                                                             *)

CONSTANTS
    Spans,          \* spans that may be started
    Enders,         \* goroutines that call End
    RingCapacity,
    MaxEnds         \* bound: calls of End

VARIABLES
    span,       \* span[s]: [on, trace, parent, status, ended]
    ring, rnext, rfull,     \* ringBuffer
    ending,     \* ending[e]: the record e has still to add, or NoRecord
    adds,       \* history: the records added, oldest first
    ends

traceVars == <<span, ring, rnext, rfull, ending, adds, ends>>

NoSpan == [on |-> FALSE, trace |-> "none", parent |-> "none", status |-> "unset", ended |-> FALSE]
Opened(t, p) == [on |-> TRUE, trace |-> t, parent |-> p, status |-> "unset", ended |-> FALSE]
NoRecord == [span |-> "none", status |-> "none"]

TraceInit ==
    /\ span = [s \in Spans |-> NoSpan]
    /\ ring = [i \in 0 .. RingCapacity - 1 |-> NoRecord] /\ rnext = 0 /\ rfull = FALSE
    /\ ending = [e \in Enders |-> NoRecord] /\ adds = <<>> /\ ends = 0

\* Start: under a context with a valid span it is a child in the same trace, else a root.
inherited(s, p) == span[p].trace
Start(s, p) ==
    /\ ~span[s].on
    /\ \/ p = "none" /\ span' = [span EXCEPT ![s] = Opened(s, "none")]
       \/ /\ p \in Spans /\ span[p].on
          /\ span' = [span EXCEPT ![s] = Opened(inherited(s, p), p)]
    /\ UNCHANGED <<ring, rnext, rfull, ending, adds, ends>>

\* RecordError keeps a status that was set; SetStatus overrides it.
RecordError(s) ==
    /\ span[s].on
    /\ span' = [span EXCEPT ![s].status = IF @ = "unset" THEN "error" ELSE @]
    /\ UNCHANGED <<ring, rnext, rfull, ending, adds, ends>>
SetStatus(s) ==
    /\ span[s].on
    /\ span' = [span EXCEPT ![s].status = "ok"]
    /\ UNCHANGED <<ring, rnext, rfull, ending, adds, ends>>

\* End under the mutex; the second caller returns.
mayEnd(s) == ~span[s].ended
End(e, s) ==
    /\ ending[e] = NoRecord /\ span[s].on /\ ends < MaxEnds /\ ends' = ends + 1
    /\ IF mayEnd(s)
       THEN /\ span' = [span EXCEPT ![s].ended = TRUE]
            /\ ending' = [ending EXCEPT ![e] = [span |-> s, status |-> span[s].status]]
       ELSE UNCHANGED <<span, ending>>
    /\ UNCHANGED <<ring, rnext, rfull, adds>>

wrapped(n) == n = RingCapacity
add(e) ==
    /\ ending[e] # NoRecord
    /\ ring' = [ring EXCEPT ![rnext] = ending[e]]
    /\ rnext' = IF wrapped(rnext + 1) THEN 0 ELSE rnext + 1
    /\ rfull' = (rfull \/ wrapped(rnext + 1))
    /\ adds' = Append(adds, ending[e])
    /\ ending' = [ending EXCEPT ![e] = NoRecord]
    /\ UNCHANGED <<span, ends>>

\* snapshot, oldest first.
cells(a, b) == [i \in 1 .. b - a + 1 |-> ring[a + i - 1]]
snapshot_unrotated == IF rfull THEN cells(0, RingCapacity - 1) ELSE cells(0, rnext - 1)
snapshot == IF rfull THEN cells(rnext, RingCapacity - 1) \o cells(0, rnext - 1) ELSE cells(0, rnext - 1)

TraceNext ==
    \/ \E s \in Spans : RecordError(s) \/ SetStatus(s) \/ \E p \in Spans \cup {"none"} : Start(s, p)
    \/ \E e \in Enders : add(e) \/ \E s \in Spans : End(e, s)

\* The dashboard reads the most recent records, oldest first, and each span once,
\* however many goroutines end it.
SpansShownOnce ==
    /\ snapshot = SubSeq(adds, Len(adds) - Len(snapshot) + 1, Len(adds))
    /\ \A i, j \in DOMAIN adds : adds[i].span = adds[j].span => i = j

\* Spans of one tree have one trace id, whichever of them were ended before their
\* children were started.
OneTracePerTree == \A s \in Spans : span[s].on /\ span[s].parent # "none" => span[s].trace = span[span[s].parent].trace

-----------------------------------------------------------------------------
(* The Registry.                                                           *)

CONSTANTS
    Goroutines,
    Adds            \* bound: additions per goroutine

VARIABLES
    family,     \* Registry.metrics[name]: 0, or the number of the family registered
    families,   \* families made
    series,     \* series[f]: the counter of f's one label set, 0 for none yet; counters are numbered
    value,      \* value[k]: counter.bits
    g           \* g[x]: [pc, fam, ctr, old, left] of goroutine x

metricVars == <<family, families, series, value, g>>

MetricInit ==
    /\ family = 0 /\ families = 0
    /\ series = <<>> /\ value = <<>>
    /\ g = [x \in Goroutines |-> [pc |-> "lookup", fam |-> 0, ctr |-> 0, old |-> 0, left |-> Adds]]

\* family under the read lock, then again under the write lock.
lookup(x) ==
    /\ g[x].pc = "lookup"
    /\ g' = [g EXCEPT ![x].fam = family, ![x].pc = IF family = 0 THEN "create" ELSE "series"]
    /\ UNCHANGED <<family, families, series, value>>
needed == family = 0
create(x) ==
    /\ g[x].pc = "create"
    /\ IF needed
       THEN families' = families + 1 /\ family' = families + 1 /\ series' = Append(series, 0)
       ELSE UNCHANGED <<family, families, series>>
    /\ g' = [g EXCEPT ![x].fam = family', ![x].pc = "series"]
    /\ UNCHANGED value

\* Counter under the family's mutex.
Counter(x) ==
    /\ g[x].pc = "series"
    /\ LET f == g[x].fam IN
       IF series[f] = 0
       THEN /\ series' = [series EXCEPT ![f] = Len(value) + 1] /\ value' = Append(value, 0)
            /\ g' = [g EXCEPT ![x].ctr = Len(value) + 1, ![x].pc = "load"]
       ELSE /\ g' = [g EXCEPT ![x].ctr = series[f], ![x].pc = "load"]
            /\ UNCHANGED <<series, value>>
    /\ UNCHANGED <<family, families>>

\* Add: load, then compare-and-swap, again if it fails.
load(x) ==
    /\ g[x].pc = "load" /\ g[x].left > 0
    /\ g' = [g EXCEPT ![x].old = value[g[x].ctr], ![x].pc = "cas"]
    /\ UNCHANGED <<family, families, series, value>>
swaps(x) == value[g[x].ctr] = g[x].old
cas(x) ==
    /\ g[x].pc = "cas"
    /\ IF swaps(x)
       THEN /\ value' = [value EXCEPT ![g[x].ctr] = g[x].old + 1]
            /\ g' = [g EXCEPT ![x].left = @ - 1, ![x].pc = "load"]
       ELSE g' = [g EXCEPT ![x].pc = "load"] /\ UNCHANGED value
    /\ UNCHANGED <<family, families, series>>

MetricNext == \E x \in Goroutines : lookup(x) \/ create(x) \/ Counter(x) \/ load(x) \/ cas(x)

\* The additions that returned, the i-th of goroutine x being <<x, i>>.
Returned == {a \in Goroutines \X (1 .. Adds) : a[2] <= Adds - g[a[1]].left}
\* The counter that is rendered holds every addition that returned: goroutines that
\* register it at once share one series, and no addition overwrites another.
NoAdditionLost ==
    family # 0 /\ series[family] # 0 =>
        value[series[family]] = Cardinality(Returned)

-----------------------------------------------------------------------------
Init == TraceInit /\ MetricInit
Next ==
    \/ TraceNext /\ UNCHANGED metricVars
    \/ MetricNext /\ UNCHANGED traceVars
-----------------------------------------------------------------------------
(* The inductive invariants of the properties above (InnerServicesProofs). *)
Status == {"unset", "ok", "error"}
SpanState == [on : BOOLEAN, trace : Spans \cup {"none"}, parent : Spans \cup {"none"}, status : Status, ended : BOOLEAN]
Record == [span : Spans \cup {"none"}, status : Status \cup {"none"}]
TraceType ==
    /\ span \in [Spans -> SpanState] /\ ending \in [Enders -> Record]
    /\ ring \in [0 .. RingCapacity - 1 -> Record] /\ rfull \in BOOLEAN /\ adds \in Seq(Record)
\* A span was started before it ended, and before its children were started.
ParentsOn ==
    /\ \A s \in Spans : span[s].ended => span[s].on
    /\ \A s \in Spans : span[s].on /\ span[s].parent # "none" => span[s].parent \in Spans /\ span[span[s].parent].on
\* The record of an ended span is in one place: with the goroutine that ended it, or added.
OneRecord ==
    /\ \A e \in Enders : ending[e] = NoRecord \/ (ending[e].span \in Spans /\ span[ending[e].span].ended)
    /\ \A e, f \in Enders : ending[e].span = ending[f].span /\ ending[e].span \in Spans => e = f
    /\ \A i \in DOMAIN adds : adds[i].span \in Spans /\ span[adds[i].span].ended
    /\ \A i \in DOMAIN adds, e \in Enders : adds[i].span # ending[e].span
    /\ \A i, j \in DOMAIN adds : adds[i].span = adds[j].span => i = j
Goroutine == [pc : {"lookup", "create", "series", "load", "cas"}, fam : Nat, ctr : Nat, old : Nat, left : Nat]
\* There is one family, with one series: family and series[1] are 0 before they are made and 1 after.
OneSeries ==
    /\ family \in {0, 1} /\ families = family
    /\ series \in Seq({0, 1}) /\ Len(series) = family
    /\ value \in Seq(Nat) /\ Len(value) = (IF family = 1 THEN series[1] ELSE 0)
    /\ g \in [Goroutines -> Goroutine]
    /\ \A x \in Goroutines :
          /\ g[x].left <= Adds
          /\ g[x].pc = "series" => family = 1 /\ g[x].fam = 1
          /\ g[x].pc \in {"load", "cas"} => family = 1 /\ series[1] = 1 /\ g[x].ctr = 1
          /\ g[x].pc \notin {"load", "cas"} => g[x].left = Adds
          /\ g[x].pc = "cas" => g[x].left > 0
MetricInv == OneSeries /\ IsFiniteSet(Returned) /\ Cardinality(Returned) = (IF family = 1 /\ series[1] = 1 THEN value[1] ELSE 0)
=============================================================================
