----------------------------- MODULE Telescope ------------------------------
(***************************************************************************)
(* telescope.Recorder: a ring buffer of entries and, per request id, the   *)
(* counts of normalised SQL statements behind the N+1 flag, bounded in     *)
(* case a request never ends.  Every call is one critical section.         *)
(***************************************************************************)
EXTENDS Integers, Sequences, FiniteSets

CONSTANTS
    Capacity,       \* Options.Capacity
    maxNPlusRequests,
    Requests,       \* request ids
    Statements,     \* normalised SQL
    MaxEntries      \* bound: entries recorded

VARIABLES
    buf, next, full,    \* the ring; buf is a function on 0 .. Capacity - 1
    nplus, nplusOrder,  \* request id -> statement -> count, and the ids in order of insertion
    written,            \* history: the entries since the last Reset
    queries             \* history: the statements of each request since it was last forgotten

telVars == <<buf, next, full, nplus, nplusOrder, written, queries>>

NoEntry == [type |-> "none", req |-> "none", tags |-> {}]
Zero == [s \in Statements |-> 0]

Init ==
    /\ buf = [i \in 0 .. Capacity - 1 |-> NoEntry] /\ next = 0 /\ full = FALSE
    /\ nplus = [r \in {} |-> Zero] /\ nplusOrder = <<>>
    /\ written = <<>> /\ queries = [r \in Requests |-> <<>>]

-----------------------------------------------------------------------------
wrapped(n) == n = Capacity
recordLocked(e) ==
    /\ Len(written) < MaxEntries
    /\ buf' = [buf EXCEPT ![next] = e]
    /\ next' = IF wrapped(next + 1) THEN 0 ELSE next + 1
    /\ full' = (full \/ wrapped(next + 1))
    /\ written' = Append(written, e)

\* snapshotLocked, newest first.
cells(a, b) == [i \in 1 .. b - a + 1 |-> buf[a + i - 1]]
ordered == IF full THEN cells(next, Capacity - 1) \o cells(0, next - 1) ELSE cells(0, next - 1)
Elements(s) == {s[i] : i \in DOMAIN s}
Reversed(s) == [i \in 1 .. Len(s) |-> s[Len(s) - i + 1]]
snapshot == Reversed(ordered)

\* dropNPlus: the id leaves the map and the order.
indexOf(r) == CHOOSE i \in DOMAIN nplusOrder : nplusOrder[i] = r /\ \A k \in 1 .. i - 1 : nplusOrder[k] # r
withoutId(r) == SubSeq(nplusOrder, 1, indexOf(r) - 1) \o SubSeq(nplusOrder, indexOf(r) + 1, Len(nplusOrder))
dropNPlus(r) ==
    IF r \in DOMAIN nplus
    THEN nplus' = [x \in DOMAIN nplus \ {r} |-> nplus[x]] /\ nplusOrder' = withoutId(r)
    ELSE UNCHANGED <<nplus, nplusOrder>>

\* nplusFor: the counters of r, made in place of the oldest id's when there are too many.
tooMany == Cardinality(DOMAIN nplus) >= maxNPlusRequests /\ nplusOrder # <<>>
evicted == IF tooMany THEN {Head(nplusOrder)} ELSE {}
nplusFor(r) ==
    IF r \in DOMAIN nplus THEN [map |-> nplus, order |-> nplusOrder]
    ELSE [map |-> [x \in (DOMAIN nplus \ evicted) \cup {r} |-> IF x = r THEN Zero ELSE nplus[x]],
          order |-> Append(IF tooMany THEN Tail(nplusOrder) ELSE nplusOrder, r)]

RecordQuery(r, s) ==
    LET n == nplusFor(r)
        count == n.map[r][s] + 1
    IN  /\ nplus' = [n.map EXCEPT ![r][s] = count]
        /\ nplusOrder' = n.order
        /\ recordLocked([type |-> "query", req |-> r, tags |-> IF count > 1 THEN {"n+1"} ELSE {}])
        /\ queries' = [x \in Requests |->
              IF x = r THEN Append(queries[x], s)
              ELSE IF r \notin DOMAIN nplus /\ x \in evicted THEN <<>> ELSE queries[x]]

\* A query outside any request is recorded without a count.
RecordQueryBare ==
    /\ recordLocked([type |-> "query", req |-> "none", tags |-> {}])
    /\ UNCHANGED <<nplus, nplusOrder, queries>>

\* The end of a request: its counts go.
RecordRequest(r, status) ==
    /\ dropNPlus(r)
    /\ recordLocked([type |-> "request", req |-> r,
                     tags |-> IF status >= 500 THEN {"server-error"} ELSE IF status >= 400 THEN {"client-error"} ELSE {}])
    /\ queries' = [queries EXCEPT ![r] = <<>>]

RecordJob(r, failed) ==
    /\ recordLocked([type |-> "job", req |-> r, tags |-> IF failed THEN {"failed"} ELSE {}])
    /\ UNCHANGED <<nplus, nplusOrder, queries>>
RecordCache(r, hit) ==
    /\ recordLocked([type |-> "cache", req |-> r, tags |-> IF hit THEN {"hit"} ELSE {"miss"}])
    /\ UNCHANGED <<nplus, nplusOrder, queries>>
RecordPlain(r, type) ==
    /\ recordLocked([type |-> type, req |-> r, tags |-> IF type = "log" THEN {"info"} ELSE {}])
    /\ UNCHANGED <<nplus, nplusOrder, queries>>

Reset ==
    /\ written # <<>>
    /\ buf' = [i \in 0 .. Capacity - 1 |-> NoEntry] /\ next' = 0 /\ full' = FALSE
    /\ nplus' = [r \in {} |-> Zero] /\ nplusOrder' = <<>>
    /\ written' = <<>> /\ queries' = [r \in Requests |-> <<>>]

\* Entries other than queries and requests are recorded outside of a request here:
\* the request id is only a label of theirs.
Next ==
    \/ \E r \in Requests : \/ \E s \in Statements : RecordQuery(r, s)
                           \/ \E status \in {200, 404, 500} : RecordRequest(r, status)
    \/ \E b \in BOOLEAN : RecordJob("none", b) \/ RecordCache("none", b)
    \/ \E type \in {"mail", "exception", "log"} : RecordPlain("none", type)
    \/ RecordQueryBare \/ Reset

-----------------------------------------------------------------------------
\* The dashboard shows the last Capacity entries, newest first, whether or not the
\* ring has wrapped.
NewestShown ==
    snapshot = Reversed(SubSeq(written, IF Len(written) > Capacity THEN Len(written) - Capacity + 1 ELSE 1, Len(written)))

Times(q, s) == Cardinality({i \in DOMAIN q : q[i] = s})
\* The two halves of the N+1 books agree and stay bounded: the order lists each
\* tracked request once, and its counts are those of the queries it has made since.
BooksAgree ==
    /\ Elements(nplusOrder) = DOMAIN nplus /\ Len(nplusOrder) = Cardinality(DOMAIN nplus)
    /\ Len(nplusOrder) <= maxNPlusRequests
    /\ \A r \in DOMAIN nplus, s \in Statements :
          nplus[r][s] = Times(queries[r], s)
-----------------------------------------------------------------------------
(* The inductive invariants of the properties above (InnerServicesProofs). *)
Entry == [type : {"none", "query", "request", "job", "cache", "mail", "exception", "log"}, req : Requests \cup {"none"},
          tags : SUBSET {"n+1", "server-error", "client-error", "failed", "hit", "miss", "info"}]
\* The requests that are not tracked have no queries.
BookType ==
    /\ DOMAIN nplus \in SUBSET Requests /\ IsFiniteSet(DOMAIN nplus)
    /\ nplus \in [DOMAIN nplus -> [Statements -> Nat]]
    /\ nplusOrder \in Seq(Requests) /\ queries \in [Requests -> Seq(Statements)]
    /\ \A r \in Requests \ DOMAIN nplus : queries[r] = <<>>
    /\ \A i, k \in DOMAIN nplusOrder : nplusOrder[i] = nplusOrder[k] => i = k
BookInv == BookType /\ BooksAgree
=============================================================================
