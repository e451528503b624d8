-------------------------- MODULE MemoryQueueProofs -------------------------
(***************************************************************************)
(* Proofs about MemoryQueue, for any number of jobs and workers and every  *)
(* length of its lists.  The first section is about induction: over an     *)
(* initial segment of the numbers, stated about sets and functions only.   *)
(***************************************************************************)
EXTENDS MemoryQueue, FiniteSetTheorems, TLAPS

-----------------------------------------------------------------------------
(* Induction, and functions defined by recursion.                          *)

\* A set of numbers up to n has a least element: of the intervals 0..k that its
\* members end, one is minimal, as the subsets of 0..n are well-founded.
LEMMA Least ==
    ASSUME NEW n \in Nat, NEW T \in SUBSET (0..n), T # {}
    PROVE  \E m \in T : \A k \in T : m <= k
<1> DEFINE S == 0..n
           D == {0..k : k \in T}
           R == StrictSubsetOrdering(S)
<1>1. IsWellFoundedOn(R, FiniteSubsetsOf(S))
  BY FS_StrictSubsetOrderingWellFounded
<1>2. FiniteSubsetsOf(S) = SUBSET S
  <2>1. IsFiniteSet(S)
    BY FS_Interval
  <2> HIDE DEF S
  <2> QED
    BY <2>1, FS_FiniteSubsetsOfFinite
<1>3. D \subseteq SUBSET S
  OBVIOUS
<1>4. D # {}
  <2>1. PICK k \in T : TRUE
    OBVIOUS
  <2>2. 0..k \in D
    OBVIOUS
  <2> QED
    BY <2>2
<1>5. PICK d \in D : \A e \in D : ~(<<e, d>> \in R)
  <2> HIDE DEF D, R, S
  <2> QED
    BY <1>1, <1>2, <1>3, <1>4, WFMin
<1>6. PICK m \in T : d = 0..m
  OBVIOUS
<1>7. ASSUME NEW k \in T, k < m PROVE FALSE
  <2>1. (0..k) \subseteq (0..m) /\ (0..k) # (0..m)
    BY <1>7
  <2>2. <<0..k, 0..m>> \in R
    BY <2>1 DEF StrictSubsetOrdering
  <2> QED
    BY <1>5, <1>6, <2>2
<1> QED
  BY <1>7

\* What holds for 0 and for a number whenever it holds for its predecessor holds
\* for all numbers up to n.
LEMMA UpToN ==
    ASSUME NEW n \in Nat, NEW T, 0 \in T, \A i \in 1..n : i - 1 \in T => i \in T
    PROVE  0..n \subseteq T
<1> DEFINE U == (0..n) \ T
<1> SUFFICES ASSUME U # {} PROVE FALSE
  OBVIOUS
<1>1. PICK m \in U : \A k \in U : m <= k
  <2> HIDE DEF U
  <2>1. U \in SUBSET (0..n)
    BY DEF U
  <2> QED
    BY <2>1, Least
<1> QED
  BY <1>1

\* f starts with base and goes on from f[i - 1] to f[i] by the function step[i].
Iterates(f, n, base, step) == f[0] = base /\ \A i \in 1..n : f[i] = step[i][f[i-1]]

\* There is such a function.
LEMMA Recursion ==
    ASSUME NEW n \in Nat, NEW S, NEW base \in S, NEW step \in [1..n -> [S -> S]]
    PROVE  \E f \in [0..n -> S] : Iterates(f, n, base, step)
<1> DEFINE Upto(k) == \E f \in [0..k -> S] : Iterates(f, k, base, step)
           T == {k \in 0..n : Upto(k)}
<1>1. Upto(0)
  <2> DEFINE f == [i \in 0..0 |-> base]
  <2>1. f \in [0..0 -> S] /\ Iterates(f, 0, base, step)
    BY DEF Iterates
  <2> QED
    BY <2>1
<1>2. ASSUME NEW i \in 1..n, Upto(i - 1) PROVE Upto(i)
  <2>1. PICK g \in [0..(i-1) -> S] : Iterates(g, i - 1, base, step)
    BY <1>2
  <2> DEFINE f == [j \in 0..i |-> IF j < i THEN g[j] ELSE step[i][g[i-1]]]
  <2>2. f \in [0..i -> S]
    OBVIOUS
  <2>3. Iterates(f, i, base, step)
    BY <2>1 DEF Iterates
  <2> HIDE DEF f
  <2> QED
    BY <2>2, <2>3
<1>3. n \in T
  <2>1. 0 \in T /\ \A i \in 1..n : i - 1 \in T => i \in T
    <3> HIDE DEF Upto
    <3> QED
      BY <1>1, <1>2
  <2> HIDE DEF T
  <2>2. 0..n \subseteq T
    BY <2>1, UpToN
  <2> QED
    BY <2>2
<1> QED
  BY <1>3

-----------------------------------------------------------------------------
(* What the invariants speak of.                                           *)

\* The entries that handle still returns to the queue when they fail.
Unspent == {e \in Entry : e.attempts < MaxRetry}

\* Pushed without a delay and not yet delivered, and the order of the pushes.
Fresh(j) == j \in pushed /\ asked[j] = 0 /\ starts[j] = 0 /\ j \notin concluded
Earlier(i, j) == \A a, b \in DOMAIN order : order[a] = i /\ order[b] = j => a < b
Sorted(list) ==
    \A p, q \in DOMAIN list :
        p < q /\ Fresh(list[p].id) /\ Fresh(list[q].id) => Earlier(list[p].id, list[q].id)

-----------------------------------------------------------------------------
(* Counting a job's entries in a list.                                     *)

LEMMA ListedFinite ==
    ASSUME NEW E, NEW s \in Seq(E), NEW j
    PROVE  IsFiniteSet({i \in DOMAIN s : s[i].id = j}) /\ Listed(s, j) \in Nat
<1>1. IsFiniteSet(1..Len(s)) /\ DOMAIN s = 1..Len(s)
  BY FS_Interval
<1>2. {i \in DOMAIN s : s[i].id = j} \in SUBSET (1..Len(s))
  BY <1>1
<1>3. IsFiniteSet({i \in DOMAIN s : s[i].id = j})
  BY <1>1, <1>2, FS_Subset
<1> QED
  BY <1>3, FS_CardinalityType DEF Listed

LEMMA ListedEmpty == \A j : Listed(<<>>, j) = 0
<1> SUFFICES ASSUME NEW j PROVE Listed(<<>>, j) = 0
  OBVIOUS
<1>1. {i \in DOMAIN <<>> : <<>>[i].id = j} = {}
  OBVIOUS
<1> QED
  BY <1>1, FS_EmptySet DEF Listed

LEMMA ListedAppend ==
    ASSUME NEW E, NEW s \in Seq(E), NEW e \in E, NEW j
    PROVE  Listed(Append(s, e), j) = IF e.id = j THEN Listed(s, j) + 1 ELSE Listed(s, j)
<1> DEFINE A == {i \in DOMAIN s : s[i].id = j}
           B == {i \in DOMAIN Append(s, e) : Append(s, e)[i].id = j}
           n == Len(s) + 1
<1>1. IsFiniteSet(A)
  BY ListedFinite
<1>2. B = (IF e.id = j THEN A \cup {n} ELSE A) /\ n \notin A
  OBVIOUS
<1>3. Cardinality(B) = IF e.id = j THEN Cardinality(A) + 1 ELSE Cardinality(A)
  <2> HIDE DEF A, B, n
  <2> QED
    BY <1>1, <1>2, FS_AddElement
<1> QED
  BY <1>3 DEF Listed

LEMMA ListedTail ==
    ASSUME NEW E, NEW s \in Seq(E), s # <<>>, NEW j
    PROVE  Listed(s, j) = IF Head(s).id = j THEN Listed(Tail(s), j) + 1 ELSE Listed(Tail(s), j)
<1> DEFINE A == {i \in DOMAIN Tail(s) : Tail(s)[i].id = j}
           B == {i \in DOMAIN s : i > 1 /\ s[i].id = j}
           D == {i \in DOMAIN s : s[i].id = j}
           f == [i \in A |-> i + 1]
<1>1. IsFiniteSet(A)
  <2>1. Tail(s) \in Seq(E)
    OBVIOUS
  <2> QED
    BY <2>1, ListedFinite
<1>2. f \in Bijection(A, B)
  <2>1. f \in [A -> B]
    OBVIOUS
  <2>2. \A a, b \in A : f[a] = f[b] => a = b
    OBVIOUS
  <2>3. \A b \in B : \E a \in A : f[a] = b
    <3> SUFFICES ASSUME NEW b \in B PROVE b - 1 \in A
      OBVIOUS
    <3> QED
      OBVIOUS
  <2> QED
    BY <2>1, <2>2, <2>3 DEF Bijection, Injection, Surjection, IsInjective
<1>3. IsFiniteSet(B) /\ Cardinality(B) = Cardinality(A)
  <2> HIDE DEF A, B, f
  <2> QED
    BY <1>1, <1>2, FS_Bijection DEF ExistsBijection
<1>4. D = (IF Head(s).id = j THEN B \cup {1} ELSE B) /\ 1 \notin B
  OBVIOUS
<1>5. Cardinality(D) = IF Head(s).id = j THEN Cardinality(B) + 1 ELSE Cardinality(B)
  <2> HIDE DEF B, D
  <2> QED
    BY <1>3, <1>4, FS_AddElement
<1> QED
  BY <1>3, <1>5 DEF Listed

\* A job is listed exactly when some entry has its ID.
LEMMA ListedPresent ==
    ASSUME NEW E, NEW s \in Seq(E), NEW j
    PROVE  Listed(s, j) = 0 <=> \A i \in DOMAIN s : s[i].id # j
<1> DEFINE A == {i \in DOMAIN s : s[i].id = j}
<1>1. IsFiniteSet(A)
  BY ListedFinite
<1>2. Cardinality(A) = 0 <=> A = {}
  <2> HIDE DEF A
  <2> QED
    BY <1>1, FS_EmptySet
<1> QED
  BY <1>2 DEF Listed

-----------------------------------------------------------------------------
(* The loop of promoteDelayed.                                             *)

\* Where promoteDelayed takes the entries of the two lists from.
Due == {e \in Range(delayed) : isDue(e)}
Lists == [ready : Seq(Range(ready) \cup Due), kept : Seq(Range(delayed))]

LEMMA PromotedLoop ==
    ASSUME NEW E, ready \in Seq(E), delayed \in Seq(E)
    PROVE  /\ \A i \in 0..Len(delayed) : promoted[i] \in Lists
           /\ promoted[0] = [ready |-> ready, kept |-> <<>>]
           /\ \A i \in 1..Len(delayed) :
                IF isDue(delayed[i])
                THEN /\ promoted[i].ready = Append(promoted[i-1].ready, delayed[i])
                     /\ promoted[i].kept = promoted[i-1].kept
                ELSE /\ promoted[i].ready = promoted[i-1].ready
                     /\ promoted[i].kept = Append(promoted[i-1].kept, delayed[i])
<1> DEFINE n == Len(delayed)
           base == [ready |-> ready, kept |-> <<>>]
           Step(x, i) == [ready |-> IF isDue(delayed[i]) THEN Append(x.ready, delayed[i]) ELSE x.ready,
                          kept |-> IF isKept(delayed[i]) THEN Append(x.kept, delayed[i]) ELSE x.kept]
           step == [i \in 1..n |-> [x \in Lists |-> Step(x, i)]]
<1>1. n \in Nat /\ base \in Lists
  BY DEF Lists, Range
<1>2. ASSUME NEW x \in Lists, NEW i \in 1..n PROVE Step(x, i) \in Lists
  <2>1. delayed[i] \in Range(delayed) /\ (isDue(delayed[i]) => delayed[i] \in Due)
    BY DEF Range, Due
  <2> QED
    BY <2>1 DEF Lists
<1>3. step \in [1..n -> [Lists -> Lists]]
  <2> HIDE DEF Step
  <2> QED
    BY <1>2
<1>4. PICK g \in [0..n -> Lists] : Iterates(g, n, base, step)
  <2> HIDE DEF n, base, step, Step
  <2> QED
    BY <1>1, <1>3, Recursion
<1>5. g = [i \in 0..n |-> IF i = 0 THEN base ELSE Step(g[i-1], i)]
  <2>1. ASSUME NEW i \in 1..n PROVE g[i] = Step(g[i-1], i)
    <3>1. g[i-1] \in Lists /\ g[i] = step[i][g[i-1]]
      <4> HIDE DEF Step, step, base
      <4> QED
        BY <1>1, <1>4 DEF Iterates
    <3> HIDE DEF Step
    <3> QED
      BY <3>1
  <2> HIDE DEF step, base, Step
  <2> QED
    BY <1>1, <1>4, <2>1 DEF Iterates
<1>6. promoted = [i \in 0..n |-> IF i = 0 THEN base ELSE Step(promoted[i-1], i)]
  BY <1>5 DEF promoted
<1>7. promoted[0] = base /\ \A i \in 1..n : promoted[i] = Step(promoted[i-1], i)
  <2> HIDE DEF Step, base
  <2> QED
    BY <1>1, <1>6
<1>8. \A i \in 0..n : promoted[i] \in Lists
  <2> DEFINE T == {i \in 0..n : promoted[i] \in Lists}
  <2>1. 0 \in T /\ \A i \in 1..n : i - 1 \in T => i \in T
    <3> HIDE DEF Step, base
    <3> QED
      BY <1>1, <1>2, <1>7
  <2>2. 0..n \subseteq T
    <3> HIDE DEF T
    <3> QED
      BY <1>1, <2>1, UpToN
  <2> QED
    BY <2>2
<1>9. ASSUME NEW i \in 1..n
      PROVE  IF isDue(delayed[i])
             THEN /\ promoted[i].ready = Append(promoted[i-1].ready, delayed[i])
                  /\ promoted[i].kept = promoted[i-1].kept
             ELSE /\ promoted[i].ready = promoted[i-1].ready
                  /\ promoted[i].kept = Append(promoted[i-1].kept, delayed[i])
  <2> PICK x, y, d : x = promoted[i-1] /\ y = promoted[i] /\ d = delayed[i]
    OBVIOUS
  <2>1. y = [ready |-> IF isDue(d) THEN Append(x.ready, d) ELSE x.ready,
             kept |-> IF isKept(d) THEN Append(x.kept, d) ELSE x.kept]
    <3>1. promoted[i] = Step(promoted[i-1], i)
      <4> HIDE DEF Step
      <4> QED
        BY <1>7
    <3> HIDE DEF isDue, isKept
    <3> QED
      BY <3>1
  <2>2. isKept(d) <=> ~isDue(d)
    BY DEF isKept
  <2>3. /\ y.ready = IF isDue(d) THEN Append(x.ready, d) ELSE x.ready
        /\ y.kept = IF isDue(d) THEN x.kept ELSE Append(x.kept, d)
    BY <2>1, <2>2
  <2> QED
    BY <2>3
<1> QED
  BY <1>7, <1>8, <1>9

\* The loop neither loses nor doubles an entry.
LEMMA PromotedCounts ==
    ASSUME NEW E, ready \in Seq(E), delayed \in Seq(E), NEW j
    PROVE  LET last == promoted[Len(delayed)]
           IN  Listed(last.ready, j) + Listed(last.kept, j) = Listed(ready, j) + Listed(delayed, j)
<1> DEFINE n == Len(delayed)
           Seen(i) == {k \in 1..i : delayed[k].id = j}
           Count(i) == Listed(promoted[i].ready, j) + Listed(promoted[i].kept, j)
           T == {i \in 0..n : Count(i) = Listed(ready, j) + Cardinality(Seen(i))}
<1>0. n \in Nat /\ DOMAIN delayed = 1..n
  OBVIOUS
<1>1. ASSUME NEW i \in 0..n PROVE IsFiniteSet(Seen(i)) /\ Cardinality(Seen(i)) \in Nat
  <2>1. Seen(i) \in SUBSET (1..i) /\ IsFiniteSet(1..i)
    BY FS_Interval
  <2> HIDE DEF Seen
  <2> QED
    BY <2>1, FS_Subset, FS_CardinalityType
<1>2. Listed(ready, j) \in Nat
  BY ListedFinite
<1>3. \A i \in 0..n : /\ promoted[i].ready \in Seq(Range(ready) \cup Due) /\ promoted[i].kept \in Seq(Range(delayed))
                      /\ Listed(promoted[i].ready, j) \in Nat /\ Listed(promoted[i].kept, j) \in Nat
  BY PromotedLoop, ListedFinite DEF Lists
<1>4. 0 \in T
  <2>1. Seen(0) = {}
    OBVIOUS
  <2>2. Cardinality(Seen(0)) = 0
    <3> HIDE DEF Seen
    <3> QED
      BY <2>1, FS_EmptySet
  <2>3. promoted[0] = [ready |-> ready, kept |-> <<>>]
    BY PromotedLoop
  <2>4. Count(0) = Listed(ready, j)
    BY <1>2, <2>3, ListedEmpty
  <2> HIDE DEF Seen, Count
  <2> QED
    BY <1>0, <1>2, <2>2, <2>4
<1>5. ASSUME NEW i \in 1..n, i - 1 \in T PROVE i \in T
  <2> DEFINE e == delayed[i]
  <2>1. Seen(i) = (IF e.id = j THEN Seen(i-1) \cup {i} ELSE Seen(i-1)) /\ i \notin Seen(i-1)
    OBVIOUS
  <2>2. Cardinality(Seen(i)) = IF e.id = j THEN Cardinality(Seen(i-1)) + 1 ELSE Cardinality(Seen(i-1))
    <3>1. i - 1 \in 0..n
      OBVIOUS
    <3> HIDE DEF Seen, e
    <3> QED
      BY <1>1, <2>1, <3>1, FS_AddElement
  <2>3. e \in Range(delayed) /\ (isDue(e) => e \in Due)
    BY DEF Range, Due
  <2>4. Count(i) = IF e.id = j THEN Count(i-1) + 1 ELSE Count(i-1)
    <3> DEFINE r == promoted[i-1].ready  k == promoted[i-1].kept
               R == Range(ready) \cup Due  K == Range(delayed)
    <3>1. r \in Seq(R) /\ k \in Seq(K) /\ Listed(r, j) \in Nat /\ Listed(k, j) \in Nat
      <4>1. i - 1 \in 0..n
        OBVIOUS
      <4> QED
        BY <1>3, <4>1
    <3>2. /\ isDue(e) => promoted[i].ready = Append(r, e) /\ promoted[i].kept = k
          /\ ~isDue(e) => promoted[i].ready = r /\ promoted[i].kept = Append(k, e)
      BY PromotedLoop
    <3>3. /\ isDue(e) => Listed(Append(r, e), j) = IF e.id = j THEN Listed(r, j) + 1 ELSE Listed(r, j)
          /\ Listed(Append(k, e), j) = IF e.id = j THEN Listed(k, j) + 1 ELSE Listed(k, j)
      <4>1. (isDue(e) => e \in R) /\ e \in K
        BY <2>3
      <4> HIDE DEF e, r, k, R, K
      <4> QED
        BY <3>1, <4>1, ListedAppend
    <3> HIDE DEF e, r, k
    <3>4. Count(i-1) = Listed(r, j) + Listed(k, j)
      BY DEF r, k
    <3>5. Count(i) = IF e.id = j THEN Listed(r, j) + Listed(k, j) + 1 ELSE Listed(r, j) + Listed(k, j)
      <4>1. CASE isDue(e)
        <5>1. Count(i) = Listed(Append(r, e), j) + Listed(k, j)
          BY <3>2, <4>1
        <5> HIDE DEF Count
        <5> QED
          BY <3>1, <3>3, <4>1, <5>1
      <4>2. CASE ~isDue(e)
        <5>1. Count(i) = Listed(r, j) + Listed(Append(k, e), j)
          BY <3>2, <4>2
        <5> HIDE DEF Count
        <5> QED
          BY <3>1, <3>3, <4>2, <5>1
      <4> QED
        BY <4>1, <4>2
    <3> HIDE DEF Count
    <3> QED
      BY <3>4, <3>5
  <2>5. i \in 0..n /\ i - 1 \in 0..n
    OBVIOUS
  <2> HIDE DEF Seen, Count, e
  <2> QED
    BY <1>1, <1>2, <1>5, <2>2, <2>4, <2>5
<1>6. n \in T
  <2> HIDE DEF T, n
  <2>1. 0..n \subseteq T
    BY <1>0, <1>4, <1>5, UpToN
  <2> QED
    BY <1>0, <2>1
<1> QED
  BY <1>0, <1>6 DEF Listed

\* Delayed jobs that are not fresh leave the order of the ready list alone.
LEMMA PromotedSorted ==
    ASSUME NEW E, ready \in Seq(E), delayed \in Seq(E), Sorted(ready),
           \A e \in Range(delayed) : ~Fresh(e.id)
    PROVE  Sorted(promoted[Len(delayed)].ready)
<1> DEFINE n == Len(delayed)
           T == {i \in 0..n : Sorted(promoted[i].ready)}
<1>0. n \in Nat
  OBVIOUS
<1>1. 0 \in T
  BY <1>0, PromotedLoop
<1>2. ASSUME NEW i \in 1..n, i - 1 \in T PROVE i \in T
  <2>1. promoted[i-1].ready \in Seq(Range(ready) \cup Due) /\ Sorted(promoted[i-1].ready)
    BY <1>2, PromotedLoop DEF Lists
  <2>2. ~Fresh(delayed[i].id)
    BY DEF Range
  <2>3. promoted[i].ready \in {promoted[i-1].ready, Append(promoted[i-1].ready, delayed[i])}
    BY PromotedLoop
  <2>4. Sorted(promoted[i].ready)
    <3> DEFINE s == promoted[i-1].ready  t == promoted[i].ready  e == delayed[i]
    <3> HIDE DEF s, t, e
    <3>1. s \in Seq(Range(ready) \cup Due) /\ Sorted(s) /\ ~Fresh(e.id) /\ t \in {s, Append(s, e)}
      BY <2>1, <2>2, <2>3 DEF s, t, e
    <3>2. \A p \in DOMAIN t : (p \in DOMAIN s /\ t[p] = s[p]) \/ ~Fresh(t[p].id)
      BY <3>1, SMTT(30)
    <3>3. Sorted(t)
      BY <3>1, <3>2 DEF Sorted
    <3> QED
      BY <3>3 DEF t
  <2> QED
    BY <2>4
<1>3. n \in T
  <2> HIDE DEF T, n
  <2>1. 0..n \subseteq T
    BY <1>0, <1>1, <1>2, UpToN
  <2> QED
    BY <1>0, <2>1
<1> QED
  BY <1>3

-----------------------------------------------------------------------------
(* The inductive invariant.                                                *)

\* w has a job between Pop and the end of Ack or Nack.
Held(w) == pc[w] \in Handling \cup {"requeue"}

QType ==
    /\ ready \in Seq(Unspent) /\ delayed \in Seq(Unspent)
    /\ signal \in BOOLEAN /\ exits \in 0..MaxExits
    /\ pc \in [Workers -> PC] /\ hold = [w \in Workers |-> hold[w]]
    /\ \A w \in Workers : IF Held(w) THEN hold[w] \in Unspent ELSE hold[w] = None
    /\ order \in Seq(Jobs) /\ concluded \subseteq pushed
    /\ asked \in [Jobs -> 0..MaxDelay] /\ rest \in [Jobs -> 0..RestCap]
    /\ starts \in [Jobs -> Nat] /\ failedCalls \in [Jobs -> Nat]

\* The in-flight map has the entries that the workers handle.
InMap ==
    /\ DOMAIN in = {hold[w].id : w \in {v \in Workers : pc[v] \in Handling}}
    /\ \A w \in Workers : pc[w] \in Handling => in[hold[w].id] = hold[w]

OneCopy ==
    /\ \A j \in Jobs : IsFiniteSet(Holders(j)) /\ Copies(j) <= 1
    /\ \A j \in pushed : j \notin concluded => Copies(j) = 1
    /\ \A j \in Jobs : j \notin pushed => Copies(j) = 0 /\ starts[j] = 0 /\ failedCalls[j] = 0

\* An entry that waits for a delivery: its attempts are the runs so far, and its
\* delay covers what is left of the wait.
Waiting(e) ==
    /\ e.id \notin concluded /\ starts[e.id] = e.attempts /\ failedCalls[e.id] = 0
    /\ rest[e.id] + e.due >= Wait(e)

\* What a worker's position says about its job.
Phase(w) ==
    LET e == hold[w]
    IN  /\ pc[w] \in {"run", "nack", "requeue"} =>
             e.id \notin concluded /\ starts[e.id] = e.attempts + 1 /\ failedCalls[e.id] = 0
        /\ pc[w] = "run" => rest[e.id] >= Wait(e)
        /\ pc[w] \in {"nack", "requeue"} => e.attempts + 1 < MaxRetry
        /\ pc[w] = "ack" => e.id \in concluded

Phases ==
    /\ \A e \in Range(ready) : Waiting(e) /\ e.due = 0
    /\ \A e \in Range(delayed) : Waiting(e) /\ ~Fresh(e.id)
    /\ \A w \in Workers : Phase(w)

MQInv == QType /\ InMap /\ OneCopy /\ Phases /\ RetryBudget /\ Sorted(ready) /\ FirstDeliveryInOrder

LEMMA AtMostOne ==
    ASSUME NEW S, IsFiniteSet(S), Cardinality(S) <= 1, NEW a \in S, NEW b \in S
    PROVE  a = b
<1> SUFFICES ASSUME a # b PROVE FALSE
  OBVIOUS
<1>1. IsFiniteSet(S \ {a}) /\ Cardinality(S \ {a}) = Cardinality(S) - 1
  BY FS_RemoveElement
<1>2. Cardinality(S \ {a}) # 0 /\ Cardinality(S \ {a}) \in Nat /\ Cardinality(S) \in Nat
  BY <1>1, FS_EmptySet, FS_CardinalityType
<1> QED
  BY <1>1, <1>2

\* What Append does to a list.
LEMMA Appended ==
    ASSUME NEW E, NEW s \in Seq(E), NEW e \in E
    PROVE  /\ Append(s, e) \in Seq(E) /\ Range(Append(s, e)) = Range(s) \cup {e}
           /\ DOMAIN Append(s, e) = DOMAIN s \cup {Len(s) + 1} /\ Len(s) \in Nat
           /\ \A p \in DOMAIN s : /\ p \in Nat /\ p < Len(s) + 1 /\ Append(s, e)[p] = s[p]
                                  /\ s[p] \in Range(s) /\ s[p] \in E
           /\ Append(s, e)[Len(s) + 1] = e
<1>1. /\ Append(s, e) \in Seq(E) /\ DOMAIN Append(s, e) = DOMAIN s \cup {Len(s) + 1} /\ Len(s) \in Nat
      /\ \A p \in DOMAIN s : p \in Nat /\ p < Len(s) + 1 /\ Append(s, e)[p] = s[p] /\ s[p] \in E
      /\ Append(s, e)[Len(s) + 1] = e
  OBVIOUS
<1>2. \A p \in DOMAIN s : s[p] \in Range(s)
  BY DEF Range
<1>3. Range(Append(s, e)) = Range(s) \cup {e}
  <2> DEFINE t == Append(s, e)
  <2> HIDE DEF t
  <2> QED
    BY <1>1 DEF Range, t
<1> QED
  BY <1>1, <1>2, <1>3

LEMMA PushedJobs ==
    QType => pushed \subseteq Jobs /\ \A a \in DOMAIN order : a \in Nat /\ order[a] \in pushed /\ order[a] \in Jobs
<1> SUFFICES ASSUME order \in Seq(Jobs)
             PROVE  pushed \subseteq Jobs /\ \A a \in DOMAIN order : a \in Nat /\ order[a] \in pushed /\ order[a] \in Jobs
  BY DEF QType
<1>1. \A a \in DOMAIN order : a \in Nat /\ order[a] \in Jobs
  OBVIOUS
<1> QED
  BY <1>1 DEF pushed, Range

\* The three parts of Copies are numbers, and say where a job is.
LEMMA CopiesParts ==
    ASSUME QType, OneCopy, NEW j \in Jobs
    PROVE  /\ Listed(ready, j) \in Nat /\ Listed(delayed, j) \in Nat /\ Cardinality(Holders(j)) \in Nat
           /\ Copies(j) = Listed(ready, j) + Listed(delayed, j) + Cardinality(Holders(j)) /\ Copies(j) <= 1
           /\ Listed(ready, j) = 0 <=> \A e \in Range(ready) : e.id # j
           /\ Listed(delayed, j) = 0 <=> \A e \in Range(delayed) : e.id # j
           /\ Cardinality(Holders(j)) = 0 <=> \A w \in Workers : ~(Held(w) /\ hold[w].id = j)
<1>1. Listed(ready, j) \in Nat /\ Listed(delayed, j) \in Nat
  BY ListedFinite DEF QType
<1>2. IsFiniteSet(Holders(j)) /\ Cardinality(Holders(j)) \in Nat
  BY FS_CardinalityType DEF OneCopy
<1>3. Listed(ready, j) = 0 <=> \A e \in Range(ready) : e.id # j
  BY ListedPresent DEF QType, Range
<1>4. Listed(delayed, j) = 0 <=> \A e \in Range(delayed) : e.id # j
  BY ListedPresent DEF QType, Range
<1>5. Cardinality(Holders(j)) = 0 <=> Holders(j) = {}
  BY <1>2, FS_EmptySet
<1>6. Holders(j) = {} <=> \A w \in Workers : ~(Held(w) /\ hold[w].id = j)
  BY DEF Holders, Held
<1> QED
  BY <1>1, <1>2, <1>3, <1>4, <1>5, <1>6 DEF OneCopy, Copies

\* The job that a worker holds is nowhere else.
LEMMA HeldAlone ==
    ASSUME QType, OneCopy, NEW w \in Workers, Held(w)
    PROVE  /\ hold[w] \in Unspent /\ hold[w].id \in Jobs /\ hold[w].id \in pushed
           /\ \A e \in Range(ready) \cup Range(delayed) : e.id # hold[w].id
           /\ \A v \in Workers : Held(v) /\ hold[v].id = hold[w].id => v = w
           /\ Holders(hold[w].id) = {w} /\ Copies(hold[w].id) = 1
<1> DEFINE j == hold[w].id
<1>1. hold[w] \in Unspent /\ j \in Jobs
  BY DEF QType, Unspent, Entry
<1>2. w \in Holders(j)
  BY DEF Holders, Held
<1> HIDE DEF j
<1>3. /\ Listed(ready, j) \in Nat /\ Listed(delayed, j) \in Nat /\ Cardinality(Holders(j)) \in Nat
      /\ Copies(j) = Listed(ready, j) + Listed(delayed, j) + Cardinality(Holders(j)) /\ Copies(j) <= 1
      /\ IsFiniteSet(Holders(j)) /\ Cardinality(Holders(j)) # 0
  BY <1>1, <1>2, CopiesParts, FS_EmptySet DEF OneCopy
<1>4. Listed(ready, j) = 0 /\ Listed(delayed, j) = 0 /\ Cardinality(Holders(j)) = 1 /\ Copies(j) = 1
  BY <1>3
<1>5. Holders(j) = {w}
  BY <1>2, <1>3, <1>4, AtMostOne
<1>6. \A e \in Range(ready) \cup Range(delayed) : e.id # j
  BY <1>1, <1>4, CopiesParts
<1>7. \A v \in Workers : Held(v) /\ hold[v].id = j => v = w
  BY <1>5 DEF Holders, Held
<1>8. j \in pushed
  BY <1>1, <1>4 DEF OneCopy
<1> QED
  BY <1>1, <1>4, <1>5, <1>6, <1>7, <1>8 DEF j

\* Nothing moves: a step of a worker that holds no job, between Pop's sections.
LEMMA ControlStep ==
    ASSUME MQInv, UNCHANGED <<ready, delayed, in, hold, hvars>>, signal' \in BOOLEAN,
           exits' \in 0..MaxExits, pc' \in [Workers -> PC],
           \A w \in Workers : pc'[w] = pc[w] \/ (~Held(w) /\ pc'[w] \notin Handling \cup {"requeue"})
    PROVE  MQInv' /\ \A j \in Jobs : Copies(j)' = Copies(j)
<1>1. \A w \in Workers : /\ Held(w)' <=> Held(w)
                         /\ pc'[w] \in Handling <=> pc[w] \in Handling
                         /\ Held(w) => pc'[w] = pc[w]
  BY DEF Held
<1>2. \A j \in Jobs : Holders(j)' = Holders(j)
  BY <1>1 DEF Holders, Held
<1>3. \A j \in Jobs : Copies(j)' = Copies(j)
  BY <1>2 DEF Copies
<1>4. QType'
  BY <1>1 DEF MQInv, QType, hvars, pushed
<1>5. InMap'
  BY <1>1 DEF MQInv, InMap, Held
<1>6. OneCopy'
  BY <1>2, <1>3, PushedJobs DEF MQInv, OneCopy, hvars, pushed
<1>7. Phases'
  BY <1>1 DEF MQInv, Phases, Phase, Held, Handling, Waiting, Wait, Fresh, hvars, pushed
<1> QED
  BY <1>3, <1>4, <1>5, <1>6, <1>7
  DEF MQInv, RetryBudget, Sorted, Fresh, Earlier, FirstDeliveryInOrder, hvars, pushed

\* enqueue adds one entry to one of the lists.
LEMMA EnqueueStep ==
    ASSUME QType, NEW e \in Unspent, enqueue(e)
    PROVE  /\ ready' \in Seq(Unspent) /\ delayed' \in Seq(Unspent) /\ signal' = TRUE
           /\ \A x \in Range(ready') : x \in Range(ready) \/ (x = e /\ e.due = 0)
           /\ \A x \in Range(delayed') : x \in Range(delayed) \/ (x = e /\ e.due > 0)
           /\ \A j : Listed(ready', j) + Listed(delayed', j)
                       = Listed(ready, j) + Listed(delayed, j) + IF e.id = j THEN 1 ELSE 0
<1>1. e.due \in Nat
  BY DEF Unspent, Entry
<1>2. \A j : Listed(ready, j) \in Nat /\ Listed(delayed, j) \in Nat
  BY ListedFinite DEF QType
<1>3. CASE e.due > 0
  <2>1. delayed' = Append(delayed, e) /\ ready' = ready
    BY <1>3 DEF enqueue
  <2>2. \A j : Listed(delayed', j) = IF e.id = j THEN Listed(delayed, j) + 1 ELSE Listed(delayed, j)
    BY <2>1, ListedAppend DEF QType
  <2>3. \A x \in Range(delayed') : x \in Range(delayed) \/ x = e
    BY <2>1 DEF QType, Range
  <2> QED
    BY <1>2, <1>3, <2>1, <2>2, <2>3 DEF QType, enqueue
<1>4. CASE ~(e.due > 0)
  <2>1. ready' = Append(ready, e) /\ delayed' = delayed
    BY <1>4 DEF enqueue
  <2>2. \A j : Listed(ready', j) = IF e.id = j THEN Listed(ready, j) + 1 ELSE Listed(ready, j)
    BY <2>1, ListedAppend DEF QType
  <2>3. \A x \in Range(ready') : x \in Range(ready) \/ x = e
    BY <2>1 DEF QType, Range
  <2> QED
    BY <1>1, <1>2, <1>4, <2>1, <2>2, <2>3 DEF QType, enqueue
<1> QED
  BY <1>3, <1>4

LEMMA PushStep ==
    ASSUME MQInv, NEW j \in Jobs, NEW delay \in 0..MaxDelay, Push(j, delay)
    PROVE  MQInv' /\ \A i \in Jobs : Copies(i)' = IF i = j THEN Copies(j) + 1 ELSE Copies(i)
<1> DEFINE e == [id |-> j, attempts |-> 0, due |-> delay]
<1>0. /\ QType /\ InMap /\ OneCopy /\ Phases /\ RetryBudget /\ Sorted(ready) /\ FirstDeliveryInOrder
      /\ enqueue(e) /\ order' = Append(order, j) /\ asked' = [asked EXCEPT ![j] = delay] /\ j \notin pushed
      /\ UNCHANGED <<in, pc, hold, exits, concluded, starts, failedCalls, rest>>
  BY DEF MQInv, Push, wvars
<1>1. e \in Unspent /\ delay \in Nat /\ e.id = j /\ e.attempts = 0 /\ e.due = delay
  BY MaxRetryAssumption, BoundsAssumption DEF Unspent, Entry
<1> HIDE DEF e
<1>2. /\ ready' \in Seq(Unspent) /\ delayed' \in Seq(Unspent) /\ signal' = TRUE
      /\ \A x \in Range(ready') : x \in Range(ready) \/ (x = e /\ delay = 0)
      /\ \A x \in Range(delayed') : x \in Range(delayed) \/ (x = e /\ delay > 0)
      /\ \A i : Listed(ready', i) + Listed(delayed', i)
                  = Listed(ready, i) + Listed(delayed, i) + IF j = i THEN 1 ELSE 0
  <2>1. /\ ready' \in Seq(Unspent) /\ delayed' \in Seq(Unspent) /\ signal' = TRUE
        /\ \A x \in Range(ready') : x \in Range(ready) \/ (x = e /\ e.due = 0)
        /\ \A x \in Range(delayed') : x \in Range(delayed) \/ (x = e /\ e.due > 0)
        /\ \A i : Listed(ready', i) + Listed(delayed', i)
                    = Listed(ready, i) + Listed(delayed, i) + IF e.id = i THEN 1 ELSE 0
    <3>1. QType /\ e \in Unspent /\ enqueue(e)
      BY <1>0, <1>1
    <3> QED
      BY <3>1, EnqueueStep
  <2> QED
    BY <1>1, <2>1
<1>3. pushed' = pushed \cup {j} /\ pushed \subseteq Jobs
  BY <1>0, PushedJobs, Appended, SMTT(30) DEF QType, pushed
<1>4. \A i \in Jobs : Holders(i)' = Holders(i)
  BY <1>0 DEF Holders
<1>5. \A i \in Jobs : Copies(i)' = IF i = j THEN Copies(j) + 1 ELSE Copies(i)
  BY <1>0, <1>2, <1>4, CopiesParts, SMTT(30) DEF Copies
<1>6. Copies(j) = 0 /\ starts[j] = 0 /\ failedCalls[j] = 0 /\ j \notin concluded /\ rest[j] \in Nat
  BY <1>0, BoundsAssumption DEF OneCopy, QType
<1>7. QType'
  BY <1>0, <1>2, <1>3 DEF QType, Held
<1>8. InMap'
  BY <1>0 DEF InMap
<1>9. OneCopy'
  <2>1. \A i \in Jobs : IsFiniteSet(Holders(i)') /\ Copies(i)' <= 1
    BY <1>0, <1>4, <1>5, <1>6 DEF OneCopy
  <2> QED
    BY <1>0, <1>3, <1>5, <1>6, <2>1 DEF OneCopy
<1>10. \A x \in Range(ready) \cup Range(delayed) : x.id # j
  BY <1>0, <1>6, CopiesParts
<1>11. \A w \in Workers : Held(w) => hold[w].id # j
  BY <1>0, HeldAlone
<1>12. Phases'
  <2>1. ASSUME NEW x \in Range(ready') PROVE Waiting(x)' /\ x.due = 0
    BY <1>0, <1>1, <1>2, <1>6, <1>10, <2>1 DEF Phases, Waiting, Wait, QType
  <2>2. ASSUME NEW x \in Range(delayed') PROVE Waiting(x)' /\ ~Fresh(x.id)'
    BY <1>0, <1>1, <1>2, <1>3, <1>6, <1>10, <2>2, SMTT(30) DEF Phases, Waiting, Wait, Fresh, QType
  <2>3. ASSUME NEW w \in Workers PROVE Phase(w)'
    BY <1>0, <1>11 DEF Phases, Phase, Wait, Held, Handling
  <2> QED
    BY <2>1, <2>2, <2>3 DEF Phases
<1>13. /\ Len(order) \in Nat
       /\ \A a \in DOMAIN order : /\ a \in Nat /\ a < Len(order) + 1 /\ order'[a] = order[a]
                                  /\ order[a] # j /\ order[a] \in Jobs
       /\ \A a \in DOMAIN order' : a \in DOMAIN order \/ (a = Len(order) + 1 /\ order'[a] = j)
  <2>1. order \in Seq(Jobs) /\ order' = Append(order, j) /\ j \notin Range(order)
    BY <1>0 DEF QType, pushed
  <2> QED
    BY <2>1, Appended
<1>14. Sorted(ready)'
  <2>1. \A x \in Range(ready) : Fresh(x.id)' => Fresh(x.id)
    BY <1>0, <1>3, <1>10 DEF Fresh, QType
  <2>2. ASSUME NEW x \in Range(ready) PROVE x.id # j /\ Earlier(x.id, j)'
    BY <1>10, <1>13 DEF Earlier
  <2>3. ASSUME NEW x \in Range(ready), NEW y \in Range(ready), Earlier(x.id, y.id) PROVE Earlier(x.id, y.id)'
    BY <1>10, <1>13, <2>3 DEF Earlier
  <2>4. \A p \in DOMAIN ready' : \/ p \in DOMAIN ready /\ ready'[p] = ready[p] /\ ready[p] \in Range(ready)
                                 \/ p = Len(ready) + 1 /\ ready'[p].id = j
    <3>1. ready \in Seq(Unspent) /\ (ready' = ready \/ ready' = Append(ready, e))
      BY <1>0 DEF enqueue, QType
    <3>2. CASE ready' = ready
      BY <3>2 DEF Range
    <3>3. CASE ready' = Append(ready, e)
      BY <1>1, <3>1, <3>3, Appended
    <3> QED
      BY <3>1, <3>2, <3>3
  <2>5. \A p \in DOMAIN ready : p < Len(ready) + 1
    BY <1>0 DEF QType
  <2>6. Len(ready) + 1 \in Nat /\ DOMAIN ready \subseteq Nat
    BY <1>0 DEF QType
  <2> QED
    BY <1>0, <2>1, <2>2, <2>3, <2>4, <2>5, <2>6 DEF Sorted
<1>15. FirstDeliveryInOrder'
  <2>1. starts'[j] = 0 /\ j \notin concluded'
    BY <1>0, <1>6
  <2>2. \A i \in Jobs : i # j => asked'[i] = asked[i] /\ starts'[i] = starts[i]
    BY <1>0 DEF QType
  <2>3. concluded' = concluded
    BY <1>0
  <2>4. FirstDeliveryInOrder
    BY <1>0
  <2> QED
    BY <1>13, <2>1, <2>2, <2>3, <2>4 DEF FirstDeliveryInOrder
<1>16. RetryBudget'
  BY <1>0 DEF RetryBudget
<1> QED
  BY <1>5, <1>7, <1>8, <1>9, <1>12, <1>14, <1>15, <1>16 DEF MQInv

LEMMA PromoteStep ==
    ASSUME MQInv, NEW w \in Workers, promoteDelayed(w)
    PROVE  MQInv' /\ \A j \in Jobs : Copies(j)' = Copies(j)
<1>0. /\ QType /\ InMap /\ OneCopy /\ Phases /\ RetryBudget /\ Sorted(ready) /\ FirstDeliveryInOrder
      /\ pc[w] = "pop" /\ pc' = [pc EXCEPT ![w] = "take"] /\ pc \in [Workers -> PC]
      /\ UNCHANGED <<in, signal, hold, exits, order, asked, concluded, starts, failedCalls, rest>>
      /\ ready \in Seq(Unspent) /\ delayed \in Seq(Unspent)
  BY DEF MQInv, promoteDelayed, hvars, QType
<1>1. ready' \in Seq(Range(ready) \cup Due) /\ delayed' \in Seq(Range(delayed))
  <2>1. promoted[Len(delayed)] \in Lists
    BY <1>0, PromotedLoop
  <2> QED
    BY <2>1 DEF Lists, promoteDelayed
<1>2. /\ \A e \in Range(ready') : e \in Range(ready) \/ (e \in Range(delayed) /\ e.due = 0)
      /\ \A e \in Range(delayed') : e \in Range(delayed)
  BY <1>1 DEF Range, Due, isDue
<1>3. ready' \in Seq(Unspent) /\ delayed' \in Seq(Unspent)
  <2>1. Range(ready) \cup Due \subseteq Unspent /\ Range(delayed) \subseteq Unspent
    BY <1>0 DEF Range, Due
  <2> QED
    BY <1>1, <2>1
<1>4. \A v \in Workers : /\ Held(v)' <=> Held(v)
                         /\ pc'[v] \in Handling <=> pc[v] \in Handling
                         /\ Held(v) => pc'[v] = pc[v]
  BY <1>0 DEF Held, Handling
<1>5. \A j \in Jobs : Holders(j)' = Holders(j)
  BY <1>0, <1>4 DEF Holders, Held
<1>6. \A j \in Jobs : Copies(j)' = Copies(j)
  <2>1. \A j : Listed(ready', j) + Listed(delayed', j) = Listed(ready, j) + Listed(delayed, j)
    BY <1>0, PromotedCounts DEF promoteDelayed
  <2> QED
    BY <1>5, <2>1 DEF Copies
<1>7. QType'
  BY <1>0, <1>3, <1>4 DEF QType, pushed, PC
<1>8. InMap'
  BY <1>0, <1>4 DEF InMap, Held
<1>9. OneCopy'
  BY <1>0, <1>5, <1>6, PushedJobs DEF OneCopy, pushed
<1>10. Phases'
  <2>1. \A e : (Waiting(e)' <=> Waiting(e)) /\ (Fresh(e.id)' <=> Fresh(e.id))
    BY <1>0 DEF Waiting, Wait, Fresh, pushed
  <2>2. ASSUME NEW v \in Workers PROVE Phase(v)'
    BY <1>0 DEF Phases, Phase, Wait
  <2> QED
    BY <1>0, <1>2, <2>1, <2>2 DEF Phases
<1>11. Sorted(ready)'
  <2>1. Sorted(promoted[Len(delayed)].ready)
    BY <1>0, PromotedSorted DEF Phases
  <2> DEFINE s == promoted[Len(delayed)].ready
  <2> HIDE DEF s
  <2>2. Sorted(s) /\ ready' = s
    BY <2>1 DEF s, promoteDelayed
  <2> QED
    BY <1>0, <2>2 DEF Sorted, Fresh, Earlier, pushed
<1> QED
  BY <1>0, <1>6, <1>7, <1>8, <1>9, <1>10, <1>11 DEF MQInv, RetryBudget, FirstDeliveryInOrder

LEMMA TakeStep ==
    ASSUME MQInv, NEW w \in Workers, PopTake(w)
    PROVE  MQInv' /\ \A i \in Jobs : Copies(i)' = Copies(i)
<1> PICK e, j, p : e = Head(ready) /\ j = e.id /\ p = IF j \in Unhandled THEN "ack" ELSE "run"
  OBVIOUS
<1>0. /\ QType /\ InMap /\ OneCopy /\ Phases /\ RetryBudget /\ Sorted(ready) /\ FirstDeliveryInOrder
      /\ ready \in Seq(Unspent) /\ delayed \in Seq(Unspent)
      /\ pc[w] = "take" /\ ready # <<>> /\ ready' = Tail(ready) /\ in' = With(in, e)
      /\ hold' = [hold EXCEPT ![w] = e] /\ pc' = [pc EXCEPT ![w] = p]
      /\ concluded' = (IF j \in Unhandled THEN concluded \cup {j} ELSE concluded)
      /\ starts' = (IF j \in Unhandled THEN starts ELSE [starts EXCEPT ![j] = @ + 1])
      /\ UNCHANGED <<delayed, signal, exits, order, asked, failedCalls, rest>>
  BY DEF MQInv, PopTake, QType
<1>1. /\ e \in Unspent /\ e \in Range(ready) /\ j \in Jobs /\ e.attempts \in Nat /\ e.attempts < MaxRetry
      /\ Range(Tail(ready)) \subseteq Range(ready) /\ Tail(ready) \in Seq(Unspent)
  <2>1. e \in Unspent /\ e \in Range(ready)
    BY <1>0 DEF Range
  <2>2. Range(Tail(ready)) \subseteq Range(ready) /\ Tail(ready) \in Seq(Unspent)
    BY <1>0 DEF Range
  <2> QED
    BY <2>1, <2>2 DEF Unspent, Entry
<1>2. \A i : Listed(ready, i) = IF j = i THEN Listed(ready', i) + 1 ELSE Listed(ready', i)
  BY <1>0, ListedTail
<1>3. /\ Listed(ready', j) = 0 /\ Listed(delayed, j) = 0 /\ Cardinality(Holders(j)) = 0 /\ Copies(j) = 1
      /\ \A i : Listed(ready', i) \in Nat
  <2>1. \A i : Listed(ready', i) \in Nat
    BY <1>0, <1>1, ListedFinite
  <2> QED
    BY <1>0, <1>1, <1>2, <2>1, CopiesParts, SMTT(30)
<1>4. /\ \A x \in Range(ready') : x \in Range(ready) /\ x.id # j
      /\ \A x \in Range(delayed) : x.id # j
      /\ \A v \in Workers : Held(v) => hold[v].id # j
  <2>1. \A x \in Range(ready') : x.id # j
    <3>1. ready' \in Seq(Unspent) /\ Listed(ready', j) = 0
      BY <1>0, <1>1, <1>3
    <3>2. \A i \in DOMAIN ready' : ready'[i].id # j
      BY <3>1, ListedPresent
    <3> QED
      BY <3>2 DEF Range
  <2> QED
    BY <1>0, <1>1, <1>3, <2>1, CopiesParts
<1>5. /\ ~Held(w) /\ p \in {"ack", "run"}
      /\ pc'[w] = p /\ hold'[w] = e
      /\ \A v \in Workers : v # w => pc'[v] = pc[v] /\ hold'[v] = hold[v]
  BY <1>0 DEF QType, Held, Handling
<1>6. \A i \in Jobs : Holders(i)' = IF i = j THEN {w} ELSE Holders(i)
  BY <1>4, <1>5 DEF Holders, Held, Handling
<1>7. \A i \in Jobs : Copies(i)' = Copies(i)
  <2> SUFFICES ASSUME NEW i \in Jobs PROVE Copies(i)' = Copies(i)
    OBVIOUS
  <2>1. CASE i = j
    <3>1. Holders(j)' = {w} /\ Cardinality({w}) = 1
      BY <1>1, <1>6, FS_Singleton
    <3>2. Copies(j)' = Listed(ready', j) + Listed(delayed, j) + Cardinality(Holders(j)')
      BY <1>0 DEF Copies
    <3>3. Cardinality(Holders(j)') = 1
      BY <3>1
    <3>4. Copies(j)' = 1
      BY <1>3, <3>2, <3>3
    <3> QED
      BY <1>3, <2>1, <3>4
  <2>2. CASE i # j
    BY <1>0, <1>2, <1>6, <2>2 DEF Copies
  <2> QED
    BY <2>1, <2>2
<1>8. j \in pushed /\ j \notin concluded /\ starts[j] = e.attempts /\ failedCalls[j] = 0 /\ e.due = 0 /\ rest[j] >= Wait(e)
  <2>1. Waiting(e) /\ e.due = 0 /\ j \in pushed /\ rest[j] \in Nat
    BY <1>0, <1>1, <1>3, BoundsAssumption, SMTT(30) DEF Phases, OneCopy, QType
  <2> QED
    BY <2>1 DEF Waiting
<1>9. QType'
  <2>1. starts' \in [Jobs -> Nat] /\ concluded' \subseteq pushed /\ pc' \in [Workers -> PC]
    BY <1>0, <1>1, <1>8, SMTT(30) DEF QType, PC
  <2>2. \A v \in Workers : IF Held(v)' THEN hold'[v] \in Unspent ELSE hold'[v] = None
    BY <1>0, <1>1, <1>5 DEF QType, Held, Handling
  <2>3. hold' = [v \in Workers |-> hold'[v]]
    BY <1>0 DEF QType
  <2> QED
    BY <1>0, <1>1, <2>1, <2>2, <2>3 DEF QType, pushed
<1>10. InMap'
  <2>1. DOMAIN in' = DOMAIN in \cup {j} /\ in'[j] = e /\ \A x \in DOMAIN in : x # j => in'[x] = in[x]
    BY <1>0 DEF With
  <2>2. {hold'[v].id : v \in {u \in Workers : pc'[u] \in Handling}}
          = {hold[v].id : v \in {u \in Workers : pc[u] \in Handling}} \cup {j}
    BY <1>5 DEF Handling, Held
  <2>3. \A v \in Workers : pc'[v] \in Handling => in'[hold'[v].id] = hold'[v]
    BY <1>0, <1>4, <1>5, <2>1 DEF InMap, Held
  <2> QED
    BY <1>0, <2>1, <2>2, <2>3 DEF InMap
<1>11. OneCopy'
  <2>1. \A i \in Jobs : IsFiniteSet(Holders(i)')
    BY <1>0, <1>6, FS_Singleton DEF OneCopy
  <2>2. \A i \in Jobs : i \notin pushed => starts'[i] = starts[i]
    BY <1>0, <1>8 DEF QType
  <2>3. concluded \subseteq concluded' /\ pushed' = pushed /\ pushed \subseteq Jobs
    BY <1>0, PushedJobs DEF pushed
  <2> QED
    BY <1>0, <1>7, <2>1, <2>2, <2>3 DEF OneCopy
<1>12. \A i \in Jobs : i # j => /\ starts'[i] = starts[i] /\ (i \in concluded' <=> i \in concluded)
                                /\ (Fresh(i)' <=> Fresh(i))
  BY <1>0 DEF QType, Fresh, pushed
<1>13. ~Fresh(j)'
  BY <1>0, <1>1, <1>8 DEF Fresh, QType
<1>14. \A x \in Range(ready') \cup Range(delayed') : x.id \in Jobs /\ x.id # j /\ (Waiting(x) => Waiting(x)')
  <2>1. \A x \in Range(ready) \cup Range(delayed) : x.id \in Jobs
    BY <1>0, SMTT(30) DEF Range, Unspent, Entry
  <2>2. \A x : x.id \in Jobs /\ x.id # j /\ Waiting(x) => Waiting(x)'
    BY <1>0, <1>12 DEF Waiting, Wait
  <2> QED
    BY <1>0, <1>4, <2>1, <2>2
<1>15. Phases'
  <2>1. Phase(w)'
    <3>1. CASE j \in Unhandled
      BY <1>0, <1>5, <3>1 DEF Phase
    <3>2. CASE j \notin Unhandled
      <4>1. starts'[j] = e.attempts + 1 /\ concluded' = concluded /\ p = "run" /\ Wait(e)' = Wait(e)
        BY <1>0, <1>1, <1>8, <3>2 DEF QType, Wait
      <4> QED
        BY <1>0, <1>5, <1>8, <4>1 DEF Phase
    <3> QED
      BY <3>1, <3>2
  <2>2. ASSUME NEW v \in Workers, v # w PROVE Phase(v)'
    <3>1. CASE Held(v)
      <4>1. hold[v].id \in Jobs /\ hold[v].id # j
        BY <1>0, <1>4, <3>1, HeldAlone
      <4> QED
        BY <1>0, <1>5, <1>12, <2>2, <4>1 DEF Phases, Phase, Wait
    <3>2. CASE ~Held(v)
      BY <1>5, <2>2, <3>2 DEF Phase, Held, Handling
    <3> QED
      BY <3>1, <3>2
  <2>3. \A x \in Range(ready') : Waiting(x)' /\ x.due = 0
    BY <1>0, <1>4, <1>14 DEF Phases
  <2>4. \A x \in Range(delayed') : Waiting(x)' /\ ~Fresh(x.id)'
    BY <1>0, <1>12, <1>14 DEF Phases
  <2> QED
    BY <2>1, <2>2, <2>3, <2>4 DEF Phases
<1>16. RetryBudget'
  <2> SUFFICES ASSUME NEW i \in Jobs
               PROVE  /\ starts'[i] <= MaxRetry
                      /\ failedCalls[i] > 0 => failedCalls[i] = 1 /\ starts'[i] = MaxRetry
    BY <1>0 DEF RetryBudget
  <2>1. CASE i = j
    <3>1. starts'[j] \in {e.attempts, e.attempts + 1}
      BY <1>0, <1>1, <1>8 DEF QType
    <3> QED
      BY <1>1, <1>8, <2>1, <3>1, MaxRetryAssumption
  <2>2. CASE i # j
    BY <1>0, <1>12, <2>2 DEF RetryBudget
  <2> QED
    BY <2>1, <2>2
<1>17. Sorted(ready)'
  <2>1. \A q \in DOMAIN ready' : q + 1 \in DOMAIN ready /\ ready'[q] = ready[q + 1] /\ q \in Nat
    BY <1>0
  <2>2. \A q \in DOMAIN ready' : ready'[q] \in Range(ready')
    BY DEF Range
  <2>3. \A x \in Range(ready') : Fresh(x.id)' => Fresh(x.id)
    BY <1>12, <1>14
  <2>4. \A x, y : Earlier(x, y)' <=> Earlier(x, y)
    BY <1>0 DEF Earlier
  <2> QED
    BY <1>0, <2>1, <2>2, <2>3, <2>4 DEF Sorted
<1>18. FirstDeliveryInOrder'
  <2> SUFFICES ASSUME NEW a \in DOMAIN order, NEW b \in DOMAIN order, a < b,
                      asked[order[a]] = 0, asked[order[b]] = 0,
                      starts'[order[b]] > 0 \/ order[b] \in concluded',
                      ~(starts'[order[a]] > 0 \/ order[a] \in concluded')
               PROVE  FALSE
    BY <1>0 DEF FirstDeliveryInOrder
  <2> PICK i : i = order[a]
    OBVIOUS
  <2>1. i \in Jobs /\ i \in pushed /\ order[b] \in Jobs /\ a \in Nat /\ b \in Nat
    BY <1>0, PushedJobs
  <2>2. i # j
    <3>1. j \in concluded' \/ starts'[j] = starts[j] + 1
      BY <1>0, <1>1 DEF QType
    <3> QED
      BY <1>1, <1>8, <3>1
  <2>3. starts[i] = 0 /\ i \notin concluded /\ Fresh(i)
    <3>1. starts[i] \in Nat /\ starts'[i] = starts[i] /\ (i \in concluded' <=> i \in concluded)
      BY <1>0, <1>12, <2>1, <2>2 DEF QType
    <3> QED
      BY <2>1, <3>1 DEF Fresh
  <2>4. order[b] = j
    BY <1>0, <1>12, <2>1, <2>3 DEF FirstDeliveryInOrder
  <2>5. Fresh(j)
    <3>1. ~(starts[j] > 0)
      BY <1>0, <2>3, <2>4 DEF FirstDeliveryInOrder
    <3> QED
      BY <1>1, <1>8, <2>4, <3>1 DEF Fresh
  <2>6. Copies(i) = 1
    BY <1>0, <2>1, <2>3 DEF OneCopy
  <2>7. Listed(delayed, i) = 0
    BY <1>0, <2>1, <2>3, CopiesParts DEF Phases
  <2>8. ASSUME NEW v \in Workers, Held(v), hold[v].id = i PROVE FALSE
    <3>1. hold[v].attempts \in Nat
      BY <1>0, <2>8, HeldAlone DEF Unspent, Entry
    <3> QED
      BY <1>0, <2>3, <2>8, <3>1 DEF Phases, Phase, Held, Handling
  <2>9. Cardinality(Holders(i)) = 0
    BY <1>0, <2>1, <2>8, CopiesParts
  <2>10. PICK q \in DOMAIN ready : ready[q].id = i
    <3>1. Listed(ready, i) # 0
      BY <1>0, <2>1, <2>6, <2>7, <2>9, CopiesParts
    <3> QED
      BY <1>0, <3>1, ListedPresent
  <2>11. 1 \in DOMAIN ready /\ ready[1] = e /\ q \in Nat /\ q >= 1
    BY <1>0, <2>10
  <2>12. q > 1
    BY <2>2, <2>10, <2>11
  <2>13. Earlier(j, i)
    BY <1>0, <2>3, <2>5, <2>10, <2>11, <2>12 DEF Sorted
  <2> QED
    BY <2>1, <2>4, <2>13 DEF Earlier
<1> QED
  BY <1>7, <1>9, <1>10, <1>11, <1>15, <1>16, <1>17, <1>18 DEF MQInv

\* A step about the job j of worker w alone leaves what is known of the others.
LEMMA OthersWait ==
    ASSUME MQInv, NEW j \in Jobs, UNCHANGED <<order, asked>>,
           \A i \in Jobs : i # j => /\ starts'[i] = starts[i] /\ failedCalls'[i] = failedCalls[i]
                                    /\ rest'[i] = rest[i] /\ (i \in concluded' <=> i \in concluded)
    PROVE  /\ \A x \in Range(ready) \cup Range(delayed) :
                x.id # j => x.id \in Jobs /\ (Waiting(x) => Waiting(x)') /\ (Fresh(x.id)' <=> Fresh(x.id))
           /\ \A v \in Workers : Held(v) /\ hold[v].id # j /\ pc'[v] = pc[v] /\ hold'[v] = hold[v] => Phase(v)'
<1>1. \A x \in Range(ready) \cup Range(delayed) : x.id \in Jobs
  <2>1. ready \in Seq(Unspent) /\ delayed \in Seq(Unspent)
    BY DEF MQInv, QType
  <2> QED
    BY <2>1 DEF Range, Unspent, Entry
<1>2. \A x : x.id \in Jobs /\ x.id # j => (Waiting(x) => Waiting(x)') /\ (Fresh(x.id)' <=> Fresh(x.id))
  BY DEF Waiting, Wait, Fresh, pushed
<1>3. ASSUME NEW v \in Workers, Held(v), hold[v].id # j, pc'[v] = pc[v], hold'[v] = hold[v] PROVE Phase(v)'
  <2>1. hold[v].id \in Jobs /\ Phase(v)
    BY <1>3, HeldAlone DEF MQInv, Phases
  <2> QED
    BY <1>3, <2>1 DEF Phase, Wait
<1> QED
  BY <1>1, <1>2, <1>3

LEMMA HandleStep ==
    ASSUME MQInv, NEW w \in Workers, handleSucceeds(w) \/ handleFails(w)
    PROVE  /\ MQInv' /\ \A i \in Jobs : Copies(i)' = Copies(i)
           /\ concluded' = concluded \/ concluded' = concluded \cup {hold[w].id}
<1> PICK e, j : e = hold[w] /\ j = e.id
  OBVIOUS
<1>0. /\ QType /\ InMap /\ OneCopy /\ Phases /\ RetryBudget /\ Sorted(ready) /\ FirstDeliveryInOrder
      /\ pc[w] = "run" /\ Held(w) /\ pc \in [Workers -> PC]
      /\ UNCHANGED <<ready, delayed, in, signal, hold, exits, order, asked, starts>>
  BY DEF MQInv, handleSucceeds, handleFails, qvars, QType, Held, Handling
<1>1. \/ /\ pc' = [pc EXCEPT ![w] = "ack"] /\ concluded' = concluded \cup {j} /\ rest' = rest
         /\ \/ failedCalls' = failedCalls
            \/ failedCalls' = [failedCalls EXCEPT ![j] = @ + 1] /\ e.attempts + 1 >= MaxRetry
      \/ /\ pc' = [pc EXCEPT ![w] = "nack"] /\ UNCHANGED <<concluded, failedCalls>>
         /\ rest' = [rest EXCEPT ![j] = 0] /\ ~(e.attempts + 1 >= MaxRetry)
  BY DEF handleSucceeds, handleFails, Exhausted, hvars
<1>2. /\ e \in Unspent /\ j \in Jobs /\ j \in pushed /\ e.attempts \in Nat /\ e.attempts < MaxRetry
      /\ \A x \in Range(ready) \cup Range(delayed) : x.id # j
      /\ \A v \in Workers : Held(v) /\ hold[v].id = j => v = w
  BY <1>0, HeldAlone DEF Unspent, Entry
<1>3. j \notin concluded /\ starts[j] = e.attempts + 1 /\ failedCalls[j] = 0
  BY <1>0 DEF Phases, Phase
<1>4. /\ pc'[w] \in {"ack", "nack"} /\ \A v \in Workers : v # w => pc'[v] = pc[v]
      /\ \A v \in Workers : (Held(v)' <=> Held(v)) /\ (pc'[v] \in Handling <=> pc[v] \in Handling)
  BY <1>0, <1>1 DEF Held, Handling
<1>5. \A i \in Jobs : Holders(i)' = Holders(i)
  BY <1>0, <1>4 DEF Holders, Held
<1>6. \A i \in Jobs : Copies(i)' = Copies(i)
  BY <1>0, <1>5 DEF Copies
<1>7. QType'
  <2>1. pc' \in [Workers -> PC] /\ concluded' \subseteq pushed
    BY <1>0, <1>1, <1>2 DEF QType, PC
  <2>2. failedCalls' \in [Jobs -> Nat] /\ rest' \in [Jobs -> 0..RestCap]
    <3>1. failedCalls \in [Jobs -> Nat] /\ rest \in [Jobs -> 0..RestCap] /\ 0 \in 0..RestCap
      BY <1>0, BoundsAssumption DEF QType
    <3>2. failedCalls' \in [Jobs -> Nat]
      BY <1>1, <3>1
    <3>3. rest' \in [Jobs -> 0..RestCap]
      BY <1>1, <3>1
    <3> QED
      BY <3>2, <3>3
  <2> QED
    BY <1>0, <1>4, <2>1, <2>2 DEF QType, pushed
<1>8. InMap'
  BY <1>0, <1>4 DEF InMap
<1>9. \A i \in Jobs : i # j => /\ starts'[i] = starts[i] /\ failedCalls'[i] = failedCalls[i]
                               /\ rest'[i] = rest[i] /\ (i \in concluded' <=> i \in concluded)
  BY <1>0, <1>1 DEF QType
<1>10. OneCopy'
  <2>1. concluded \subseteq concluded' /\ pushed' = pushed /\ pushed \subseteq Jobs
    BY <1>0, <1>1, PushedJobs DEF pushed
  <2> QED
    BY <1>0, <1>2, <1>5, <1>6, <1>9, <2>1 DEF OneCopy
<1>11. Phases'
  <2>1. Phase(w)'
    <3>1. hold'[w] = e /\ starts' = starts
      BY <1>0
    <3>2. CASE pc' = [pc EXCEPT ![w] = "ack"] /\ concluded' = concluded \cup {j}
      BY <1>0, <3>1, <3>2 DEF Phase
    <3>3. CASE pc' = [pc EXCEPT ![w] = "nack"] /\ UNCHANGED <<concluded, failedCalls>> /\ ~(e.attempts + 1 >= MaxRetry)
      BY <1>0, <1>2, <1>3, <3>1, <3>3, MaxRetryAssumption DEF Phase
    <3> QED
      BY <1>1, <3>2, <3>3
  <2>2. ASSUME NEW v \in Workers, v # w PROVE Phase(v)'
    <3>1. CASE Held(v)
      BY <1>0, <1>2, <1>4, <1>9, <2>2, <3>1, OthersWait
    <3>2. CASE ~Held(v)
      BY <1>4, <2>2, <3>2 DEF Phase, Held, Handling
    <3> QED
      BY <3>1, <3>2
  <2>3. \A x \in Range(ready) \cup Range(delayed) : (Waiting(x) => Waiting(x)') /\ (Fresh(x.id)' <=> Fresh(x.id))
    BY <1>0, <1>2, <1>9, OthersWait
  <2> QED
    BY <1>0, <2>1, <2>2, <2>3 DEF Phases
<1>12. RetryBudget'
  <2> SUFFICES ASSUME NEW i \in Jobs
               PROVE  /\ starts[i] <= MaxRetry
                      /\ failedCalls'[i] > 0 => failedCalls'[i] = 1 /\ starts[i] = MaxRetry
    BY <1>0 DEF RetryBudget
  <2>1. CASE i = j
    <3>1. failedCalls'[j] = 0 \/ (failedCalls'[j] = 1 /\ e.attempts + 1 >= MaxRetry)
      <4>1. failedCalls \in [Jobs -> Nat] /\ j \in Jobs /\ failedCalls[j] = 0
        BY <1>0, <1>2, <1>3 DEF QType
      <4>2. CASE failedCalls' = failedCalls
        BY <4>1, <4>2
      <4>3. CASE failedCalls' = [failedCalls EXCEPT ![j] = @ + 1] /\ e.attempts + 1 >= MaxRetry
        BY <4>1, <4>3
      <4> QED
        BY <1>1, <4>2, <4>3
    <3> QED
      BY <1>2, <1>3, <2>1, <3>1, MaxRetryAssumption
  <2>2. CASE i # j
    BY <1>0, <1>9, <2>2 DEF RetryBudget
  <2> QED
    BY <2>1, <2>2
<1>13. Sorted(ready)'
  <2>1. \A p \in DOMAIN ready : ready[p] \in Range(ready)
    BY DEF Range
  <2>2. \A x \in Range(ready) : Fresh(x.id)' => Fresh(x.id)
    BY <1>0, <1>2, <1>9, OthersWait
  <2>3. \A x, y : Earlier(x, y)' <=> Earlier(x, y)
    BY <1>0 DEF Earlier
  <2> QED
    BY <1>0, <2>1, <2>2, <2>3 DEF Sorted
<1>14. FirstDeliveryInOrder'
  <2>1. starts[j] > 0 /\ starts' = starts
    BY <1>0, <1>2, <1>3
  <2>2. \A a \in DOMAIN order : order[a] \in Jobs /\ (order[a] # j => (order[a] \in concluded' <=> order[a] \in concluded))
    BY <1>0, <1>9, PushedJobs
  <2>3. FirstDeliveryInOrder /\ UNCHANGED <<order, asked>>
    BY <1>0
  <2> QED
    BY <2>1, <2>2, <2>3 DEF FirstDeliveryInOrder
<1>15. concluded' = concluded \/ concluded' = concluded \cup {hold[w].id}
  BY <1>1
<1> QED
  BY <1>6, <1>7, <1>8, <1>10, <1>11, <1>12, <1>13, <1>14, <1>15 DEF MQInv

\* Ack and the first section of Nack take the job out of the in-flight map.
LEMMA TakenOut ==
    ASSUME MQInv, NEW w \in Workers, pc[w] \in Handling, in' = Without(in, hold[w].id),
           pc'[w] \notin Handling,
           \A v \in Workers : v # w => pc'[v] = pc[v] /\ hold'[v] = hold[v]
    PROVE  InMap' /\ in[hold[w].id] = hold[w] /\ hold[w].id \in DOMAIN in
<1> PICK j : j = hold[w].id
  OBVIOUS
<1>1. QType /\ OneCopy /\ InMap /\ Held(w)
  BY DEF MQInv, Held
<1>2. \A v \in Workers : Held(v) /\ hold[v].id = j => v = w
  BY <1>1, HeldAlone
<1>3. DOMAIN in' = DOMAIN in \ {j} /\ \A x \in DOMAIN in' : in'[x] = in[x]
  BY DEF Without
<1>4. {hold'[v].id : v \in {u \in Workers : pc'[u] \in Handling}}
        = {hold[v].id : v \in {u \in Workers : pc[u] \in Handling}} \ {j}
  BY <1>2 DEF Held
<1>5. \A v \in Workers : pc'[v] \in Handling => in'[hold'[v].id] = hold'[v]
  <2> SUFFICES ASSUME NEW v \in Workers, pc'[v] \in Handling PROVE in'[hold'[v].id] = hold'[v]
    OBVIOUS
  <2>1. v # w /\ hold'[v] = hold[v] /\ pc[v] \in Handling
    OBVIOUS
  <2>2. hold[v].id # j
    BY <1>2, <2>1 DEF Held
  <2>3. hold[v].id \in DOMAIN in' /\ in[hold[v].id] = hold[v]
    BY <1>1, <1>3, <2>1, <2>2 DEF InMap
  <2> QED
    BY <1>3, <2>1, <2>3
<1> QED
  BY <1>1, <1>3, <1>4, <1>5 DEF InMap

LEMMA AckStep ==
    ASSUME MQInv, NEW w \in Workers, Ack(w)
    PROVE  /\ MQInv' /\ hold[w].id \in Jobs \cap concluded /\ Copies(hold[w].id) = 1
           /\ \A i \in Jobs : Copies(i)' = IF i = hold[w].id THEN 0 ELSE Copies(i)
<1> PICK j : j = hold[w].id
  OBVIOUS
<1>0. /\ QType /\ InMap /\ OneCopy /\ Phases
      /\ pc[w] = "ack" /\ Held(w) /\ pc[w] \in Handling /\ in' = Without(in, j)
      /\ pc' = [pc EXCEPT ![w] = "pop"] /\ hold' = [hold EXCEPT ![w] = None]
      /\ UNCHANGED <<ready, delayed, signal, exits, order, asked, concluded, starts, failedCalls, rest>>
  BY DEF MQInv, Ack, Held, Handling, hvars
<1>1. j \in Jobs /\ Holders(j) = {w} /\ Copies(j) = 1
  BY <1>0, HeldAlone
<1>2. /\ pc'[w] = "pop" /\ hold'[w] = None /\ ~Held(w)' /\ pc'[w] \notin Handling
      /\ \A v \in Workers : v # w => pc'[v] = pc[v] /\ hold'[v] = hold[v] /\ (Held(v)' <=> Held(v))
  BY <1>0 DEF QType, Held, Handling
<1>3. InMap'
  BY <1>0, <1>2, TakenOut
<1>4. \A i \in Jobs : Holders(i)' = Holders(i) \ {w}
  BY <1>2 DEF Holders, Held
<1>5. \A i \in Jobs : i # j => w \notin Holders(i)
  BY DEF Holders
<1>6. \A i \in Jobs : Copies(i)' = IF i = j THEN 0 ELSE Copies(i)
  <2>1. Holders(j)' = {} /\ Cardinality({}) = 0 /\ Cardinality({w}) = 1
    BY <1>1, <1>4, FS_EmptySet, FS_Singleton
  <2>2. Listed(ready, j) + Listed(delayed, j) = 0 /\ Listed(ready, j) \in Nat /\ Listed(delayed, j) \in Nat
    BY <1>0, <1>1, <2>1, CopiesParts
  <2>3. Cardinality(Holders(j)') = 0
    BY <2>1
  <2>4. Copies(j)' = 0
    BY <1>0, <2>2, <2>3 DEF Copies
  <2>5. \A i \in Jobs : i # j => Holders(i)' = Holders(i)
    BY <1>4, <1>5
  <2>6. \A i \in Jobs : i # j => Copies(i)' = Copies(i)
    BY <1>0, <2>5 DEF Copies
  <2> QED
    BY <2>4, <2>6
<1>7. j \in concluded
  BY <1>0 DEF Phases, Phase
<1>8. QType'
  <2>1. pc' \in [Workers -> PC] /\ hold' = [v \in Workers |-> hold'[v]]
    BY <1>0 DEF QType, PC
  <2> QED
    BY <1>0, <1>2, <2>1 DEF QType, pushed
<1>9. OneCopy'
  <2>1. \A i \in Jobs : IsFiniteSet(Holders(i)')
    BY <1>0, <1>4, FS_RemoveElement DEF OneCopy
  <2>2. pushed' = pushed /\ pushed \subseteq Jobs
    BY <1>0, PushedJobs DEF pushed
  <2> QED
    BY <1>0, <1>6, <1>7, <2>1, <2>2 DEF OneCopy
<1>10. Phases'
  <2>1. \A x : (Waiting(x)' <=> Waiting(x)) /\ (Fresh(x.id)' <=> Fresh(x.id))
    BY <1>0 DEF Waiting, Wait, Fresh, pushed
  <2>2. ASSUME NEW v \in Workers PROVE Phase(v)'
    BY <1>0, <1>2 DEF Phases, Phase, Wait
  <2> QED
    BY <1>0, <2>1, <2>2 DEF Phases
<1> QED
  BY <1>0, <1>1, <1>3, <1>6, <1>7, <1>8, <1>9, <1>10
  DEF MQInv, RetryBudget, Sorted, Fresh, Earlier, FirstDeliveryInOrder, pushed

LEMMA NackTakeOutStep ==
    ASSUME MQInv, NEW w \in Workers, NackTakeOut(w)
    PROVE  MQInv' /\ \A i \in Jobs : Copies(i)' = Copies(i)
<1> PICK j : j = hold[w].id
  OBVIOUS
<1>0. /\ QType /\ InMap /\ OneCopy /\ Phases
      /\ pc[w] = "nack" /\ Held(w) /\ pc[w] \in Handling /\ in' = Without(in, j)
      /\ UNCHANGED <<ready, delayed, signal, exits, order, asked, concluded, starts, failedCalls, rest>>
  BY DEF MQInv, NackTakeOut, Held, Handling, hvars
<1>1. j \in DOMAIN in /\ in[j] = hold[w]
  BY <1>0 DEF InMap
<1>2. pc' = [pc EXCEPT ![w] = "requeue"] /\ hold' = [hold EXCEPT ![w] = in[j]]
  BY <1>1 DEF NackTakeOut
<1>3. /\ pc'[w] = "requeue" /\ Held(w)' /\ pc'[w] \notin Handling
      /\ \A v \in Workers : hold'[v] = hold[v] /\ (Held(v)' <=> Held(v)) /\ (v # w => pc'[v] = pc[v])
  BY <1>0, <1>1, <1>2 DEF QType, Held, Handling
<1>4. InMap'
  BY <1>0, <1>3, TakenOut
<1>5. \A i \in Jobs : Holders(i)' = Holders(i)
  BY <1>3 DEF Holders, Held
<1>6. \A i \in Jobs : Copies(i)' = Copies(i)
  BY <1>0, <1>5 DEF Copies
<1>7. QType'
  <2>1. pc' \in [Workers -> PC] /\ hold' = [v \in Workers |-> hold'[v]]
    BY <1>0, <1>2 DEF QType, PC
  <2> QED
    BY <1>0, <1>3, <2>1 DEF QType, pushed
<1>8. OneCopy'
  BY <1>0, <1>5, <1>6, PushedJobs DEF OneCopy, pushed
<1>9. Phases'
  <2>1. \A x : (Waiting(x)' <=> Waiting(x)) /\ (Fresh(x.id)' <=> Fresh(x.id))
    BY <1>0 DEF Waiting, Wait, Fresh, pushed
  <2>2. ASSUME NEW v \in Workers PROVE Phase(v)'
    BY <1>0, <1>3 DEF Phases, Phase, Wait
  <2> QED
    BY <1>0, <2>1, <2>2 DEF Phases
<1> QED
  BY <1>0, <1>4, <1>6, <1>7, <1>8, <1>9
  DEF MQInv, RetryBudget, Sorted, Fresh, Earlier, FirstDeliveryInOrder, pushed

\* The delay that handle asks for is what the next delivery has to wait for.
LEMMA RetryDelayWaits ==
    ASSUME NEW a \in Nat
    PROVE  /\ RetryDelay(a) \in Nat
           /\ \A e : e.attempts = a + 1 => Wait(e) = RetryDelay(a)
<1> DEFINE shift == IF a > MaxShift THEN MaxShift ELSE a
<1>1. shift \in Nat /\ RetryDelay(a) = Backoff * 2 ^ shift
  BY DEF RetryDelay, backoffMultiplier, MaxShift
<1>2. 2 ^ shift \in Nat
  <2> HIDE DEF shift
  <2>1. IsFiniteSet(1..shift) /\ Cardinality(1..shift) = shift
    BY <1>1, FS_Interval
  <2>2. IsFiniteSet(SUBSET (1..shift)) /\ Cardinality(SUBSET (1..shift)) = 2 ^ shift
    BY <2>1, FS_SUBSET
  <2> QED
    BY <2>2, FS_CardinalityType
<1>3. RetryDelay(a) \in Nat
  <2> HIDE DEF shift
  <2> QED
    BY <1>1, <1>2, BackoffAssumption
<1>4. ASSUME NEW e, e.attempts = a + 1 PROVE Wait(e) = RetryDelay(a)
  <2>1. e.attempts # 0 /\ (IF e.attempts > MaxShift THEN MaxShift ELSE e.attempts - 1) = shift
    BY <1>4 DEF MaxShift
  <2> HIDE DEF shift
  <2> QED
    BY <1>1, <2>1 DEF Wait
<1> QED
  BY <1>3, <1>4

\* What a delivery waits for is never longer than the history variable can tell.
LEMMA WaitBounded ==
    ASSUME QType, NEW x \in Unspent
    PROVE  Wait(x) \in Nat /\ Wait(x) <= RestCap
<1>1. x.attempts \in Nat /\ x.attempts < MaxRetry /\ x.id \in Jobs
  BY DEF Unspent, Entry
<1>2. CASE x.attempts = 0
  <2>1. Wait(x) = asked[x.id] /\ asked[x.id] \in 0..MaxDelay
    BY <1>1, <1>2 DEF Wait, QType
  <2> QED
    BY <2>1, BoundsAssumption
<1>3. CASE x.attempts # 0
  <2> PICK a : a = x.attempts - 1
    OBVIOUS
  <2>1. a \in Nat /\ a \in 0..(MaxRetry - 2) /\ x.attempts = a + 1
    BY <1>1, <1>3, MaxRetryAssumption
  <2>2. Wait(x) = RetryDelay(a) /\ RetryDelay(a) \in Nat
    BY <2>1, RetryDelayWaits
  <2> QED
    BY <2>1, <2>2, BoundsAssumption
<1> QED
  BY <1>2, <1>3

LEMMA NackPutBackStep ==
    ASSUME MQInv, NEW w \in Workers, NackPutBack(w)
    PROVE  MQInv' /\ \A i \in Jobs : Copies(i)' = Copies(i)
<1> PICK e, j, r : /\ e = hold[w] /\ j = e.id
                   /\ r = [e EXCEPT !.attempts = @ + 1, !.due = RetryDelay(e.attempts)]
  OBVIOUS
<1>0. /\ QType /\ InMap /\ OneCopy /\ Phases /\ RetryBudget /\ Sorted(ready) /\ FirstDeliveryInOrder
      /\ pc[w] = "requeue" /\ Held(w) /\ pc[w] \notin Handling /\ enqueue(r)
      /\ pc' = [pc EXCEPT ![w] = "pop"] /\ hold' = [hold EXCEPT ![w] = None]
      /\ UNCHANGED <<in, exits, order, asked, concluded, starts, failedCalls, rest>>
  BY DEF MQInv, NackPutBack, Held, Handling, hvars
<1>1. /\ e \in Unspent /\ j \in Jobs /\ Holders(j) = {w} /\ Copies(j) = 1 /\ j \in pushed
      /\ e.attempts \in Nat /\ e.attempts + 1 < MaxRetry /\ j \notin concluded
      /\ starts[j] = e.attempts + 1 /\ failedCalls[j] = 0
  BY <1>0, HeldAlone DEF Unspent, Entry, Phases, Phase
<1>2. RetryDelay(e.attempts) \in Nat
  BY <1>1, RetryDelayWaits
<1>3. r \in Unspent /\ r.id = j /\ r.attempts = e.attempts + 1 /\ r.due = RetryDelay(e.attempts)
  <2> PICK d : d = RetryDelay(e.attempts)
    OBVIOUS
  <2>1. e \in Entry /\ d \in Nat /\ r = [e EXCEPT !.attempts = @ + 1, !.due = d]
    BY <1>1, <1>2 DEF Unspent
  <2>2. r = [id |-> e.id, attempts |-> e.attempts + 1, due |-> d]
    BY <2>1 DEF Entry
  <2>3. r.id = j /\ r.attempts = e.attempts + 1 /\ r.due = d /\ e.attempts + 1 \in Nat
    BY <1>1, <2>2
  <2>4. r \in Entry /\ r.attempts < MaxRetry
    BY <1>1, <2>1, <2>2, <2>3 DEF Entry
  <2> QED
    BY <2>3, <2>4 DEF Unspent
<1>4. /\ ready' \in Seq(Unspent) /\ delayed' \in Seq(Unspent) /\ signal' = TRUE
      /\ \A x \in Range(ready') : x \in Range(ready) \/ (x = r /\ r.due = 0)
      /\ \A x \in Range(delayed') : x \in Range(delayed) \/ x = r
      /\ \A i : Listed(ready', i) + Listed(delayed', i)
                  = Listed(ready, i) + Listed(delayed, i) + IF j = i THEN 1 ELSE 0
  <2>1. r \in Unspent /\ enqueue(r) /\ QType
    BY <1>0, <1>3
  <2> HIDE DEF enqueue, QType
  <2>2. /\ ready' \in Seq(Unspent) /\ delayed' \in Seq(Unspent) /\ signal' = TRUE
        /\ \A x \in Range(ready') : x \in Range(ready) \/ (x = r /\ r.due = 0)
        /\ \A x \in Range(delayed') : x \in Range(delayed) \/ (x = r /\ r.due > 0)
        /\ \A i : Listed(ready', i) + Listed(delayed', i)
                    = Listed(ready, i) + Listed(delayed, i) + IF r.id = i THEN 1 ELSE 0
    BY <2>1, EnqueueStep, Zenon
  <2>3. r.id = j
    BY <1>3
  <2> QED
    BY <2>2, <2>3
<1>5. /\ pc'[w] = "pop" /\ hold'[w] = None /\ ~Held(w)' /\ pc'[w] \notin Handling
      /\ \A v \in Workers : v # w => pc'[v] = pc[v] /\ hold'[v] = hold[v] /\ (Held(v)' <=> Held(v))
  BY <1>0 DEF QType, Held, Handling
<1>6. InMap'
  BY <1>0, <1>5 DEF InMap
<1>7. \A i \in Jobs : Holders(i)' = (IF i = j THEN {} ELSE Holders(i))
  BY <1>1, <1>5 DEF Holders, Held
<1>8. \A i \in Jobs : Copies(i)' = Copies(i)
  <2>1. Cardinality(Holders(j)') = 0 /\ Cardinality(Holders(j)) = 1
    BY <1>1, <1>7, FS_EmptySet, FS_Singleton
  <2>2. /\ \A i \in Jobs : Listed(ready, i) \in Nat /\ Listed(delayed, i) \in Nat
        /\ \A i : Listed(ready', i) \in Nat /\ Listed(delayed', i) \in Nat
    BY <1>0, <1>4, CopiesParts, ListedFinite
  <2>3. Copies(j)' = Copies(j)
    BY <1>1, <1>4, <2>1, <2>2 DEF Copies
  <2>4. \A i \in Jobs : i # j => Copies(i)' = Copies(i)
    BY <1>4, <1>7, <2>2 DEF Copies
  <2> QED
    BY <2>3, <2>4
<1>9. QType'
  <2>1. pc' \in [Workers -> PC] /\ hold' = [v \in Workers |-> hold'[v]]
    BY <1>0 DEF QType, PC
  <2> QED
    BY <1>0, <1>4, <1>5, <2>1 DEF QType, pushed
<1>10. OneCopy'
  <2>1. \A i \in Jobs : IsFiniteSet(Holders(i)')
    BY <1>0, <1>7, FS_EmptySet DEF OneCopy
  <2> QED
    BY <1>0, <1>8, <2>1, PushedJobs DEF OneCopy, pushed
<1>11. \A x : (Waiting(x)' <=> Waiting(x)) /\ (Fresh(x.id)' <=> Fresh(x.id))
  BY <1>0 DEF Waiting, Wait, Fresh, pushed
<1>12. Phases'
  <2>1. Waiting(r) /\ ~Fresh(j)
    <3>1. rest[j] \in Nat
      BY <1>0, <1>1, BoundsAssumption DEF QType
    <3>2. Wait(r) = RetryDelay(e.attempts)
      BY <1>1, <1>3, RetryDelayWaits
    <3> QED
      BY <1>1, <1>2, <1>3, <3>1, <3>2 DEF Waiting, Fresh
  <2>2. ASSUME NEW v \in Workers PROVE Phase(v)'
    BY <1>0, <1>5 DEF Phases, Phase, Wait
  <2> QED
    BY <1>0, <1>3, <1>4, <1>11, <2>1, <2>2, ZenonT(30) DEF Phases
<1>13. Sorted(ready)'
  <2>1. \A p \in DOMAIN ready' : \/ p \in DOMAIN ready /\ ready'[p] = ready[p]
                                 \/ ~Fresh(ready'[p].id)
    <3>1. ready \in Seq(Unspent) /\ (ready' = ready \/ ready' = Append(ready, r))
      BY <1>0 DEF enqueue, QType
    <3>2. CASE ready' = ready
      BY <3>2
    <3>3. CASE ready' = Append(ready, r)
      <4>1. ~Fresh(r.id)
        BY <1>1, <1>3 DEF Fresh
      <4> QED
        BY <1>3, <3>1, <3>3, <4>1, Appended
    <3> QED
      BY <3>1, <3>2, <3>3
  <2>2. \A x, y : Earlier(x, y)' <=> Earlier(x, y)
    BY <1>0 DEF Earlier
  <2> QED
    BY <1>0, <1>11, <2>1, <2>2 DEF Sorted
<1> QED
  BY <1>0, <1>6, <1>8, <1>9, <1>10, <1>12, <1>13 DEF MQInv, RetryBudget, FirstDeliveryInOrder

LEMMA TickStep ==
    ASSUME MQInv, Tick
    PROVE  MQInv' /\ \A i \in Jobs : Copies(i)' = Copies(i)
<1> DEFINE Older(x) == [x EXCEPT !.due = IF @ > 0 THEN @ - 1 ELSE 0]
<1>0. /\ QType /\ InMap /\ OneCopy /\ Phases /\ RetryBudget /\ Sorted(ready) /\ FirstDeliveryInOrder
      /\ ready \in Seq(Unspent) /\ delayed \in Seq(Unspent) /\ rest \in [Jobs -> 0..RestCap]
      /\ delayed' = [i \in DOMAIN delayed |-> Older(delayed[i])]
      /\ rest' = [j \in Jobs |-> IF rest[j] < RestCap /\ j \in pushed THEN rest[j] + 1 ELSE rest[j]]
      /\ UNCHANGED <<ready, in, signal, pc, hold, exits, order, asked, concluded, starts, failedCalls>>
  BY DEF MQInv, Tick, wvars, QType
<1>1. ASSUME NEW x \in Unspent
      PROVE  /\ Older(x) \in Unspent /\ Older(x).id = x.id /\ Older(x).attempts = x.attempts
             /\ x.due \in Nat /\ Older(x).due = IF x.due > 0 THEN x.due - 1 ELSE 0
  BY DEF Unspent, Entry
<1> HIDE DEF Older
<1>2. /\ delayed' \in Seq(Unspent) /\ DOMAIN delayed' = DOMAIN delayed
      /\ \A i \in DOMAIN delayed : delayed[i] \in Unspent /\ delayed'[i] = Older(delayed[i])
  <2>1. \A i \in DOMAIN delayed : delayed[i] \in Unspent /\ Older(delayed[i]) \in Unspent
    BY <1>0, <1>1
  <2> QED
    BY <1>0, <2>1
<1>3. \A j : Listed(delayed', j) = Listed(delayed, j)
  <2> SUFFICES ASSUME NEW j PROVE Listed(delayed', j) = Listed(delayed, j)
    OBVIOUS
  <2>1. {i \in DOMAIN delayed' : delayed'[i].id = j} = {i \in DOMAIN delayed : delayed[i].id = j}
    BY <1>1, <1>2
  <2> QED
    BY <2>1 DEF Listed
<1>4. \A j \in Jobs : Holders(j)' = Holders(j) /\ Copies(j)' = Copies(j)
  BY <1>0, <1>3 DEF Holders, Copies
<1>5. rest' \in [Jobs -> 0..RestCap] /\ \A j \in Jobs : rest'[j] >= rest[j]
  BY <1>0, BoundsAssumption
<1>6. QType'
  BY <1>0, <1>2, <1>5 DEF QType, Held, pushed
<1>7. OneCopy'
  BY <1>0, <1>4, PushedJobs DEF OneCopy, pushed
<1>8. \A x : (Wait(x)' = Wait(x)) /\ (Fresh(x.id)' <=> Fresh(x.id))
  BY <1>0 DEF Wait, Fresh, pushed
<1>9. Phases'
  <2>1. ASSUME NEW x \in Range(ready) PROVE Waiting(x)' /\ x.due = 0
    <3>1. x.id \in Jobs /\ x.due \in Nat
      BY <1>0 DEF Range, Unspent, Entry
    <3>2. rest[x.id] \in Nat /\ rest'[x.id] \in Nat /\ rest'[x.id] >= rest[x.id] /\ Waiting(x) /\ x.due = 0
      BY <1>0, <1>5, <3>1, BoundsAssumption DEF Phases
    <3>3. Wait(x) \in Nat
      BY <1>0, WaitBounded DEF Range
    <3> QED
      BY <1>0, <1>8, <3>2, <3>3 DEF Waiting
  <2>2. ASSUME NEW y \in Range(delayed') PROVE Waiting(y)' /\ ~Fresh(y.id)'
    <3> PICK i \in DOMAIN delayed : y = delayed'[i]
      BY <1>2 DEF Range
    <3> PICK x : x = delayed[i]
      OBVIOUS
    <3>1. /\ x \in Unspent /\ y.id = x.id /\ y.attempts = x.attempts /\ x.id \in Jobs /\ x.attempts \in Nat
          /\ x.attempts < MaxRetry /\ x.due \in Nat /\ y.due = IF x.due > 0 THEN x.due - 1 ELSE 0
      BY <1>1, <1>2 DEF Unspent, Entry
    <3>2. Waiting(x) /\ ~Fresh(x.id)
      BY <1>0 DEF Phases, Range
    <3>3. x.id \in pushed
      BY <1>0, <3>1, CopiesParts, SMTT(30) DEF OneCopy, Range
    <3>4. Wait(y) = Wait(x) /\ Wait(x) \in Nat /\ Wait(x) <= RestCap
      BY <1>0, <3>1, WaitBounded DEF Wait
    <3>5. rest[x.id] \in Nat /\ rest[x.id] <= RestCap /\ rest[x.id] + x.due >= Wait(x)
      BY <1>0, <3>1, <3>2, BoundsAssumption DEF Waiting
    <3>6. rest'[x.id] = IF rest[x.id] < RestCap THEN rest[x.id] + 1 ELSE rest[x.id]
      BY <1>0, <3>1, <3>3
    <3>7. rest'[y.id] + y.due >= Wait(y)
      BY <3>1, <3>4, <3>5, <3>6, BoundsAssumption
    <3>8. Waiting(y)'
      BY <1>0, <1>8, <3>1, <3>2, <3>7 DEF Waiting
    <3> QED
      BY <1>8, <3>1, <3>2, <3>8
  <2>3. ASSUME NEW w \in Workers PROVE Phase(w)'
    <3>1. CASE pc[w] = "run"
      <4>1. hold[w].id \in Jobs /\ hold[w] \in Unspent
        BY <1>0, <3>1, HeldAlone DEF Held, Handling
      <4>2. rest[hold[w].id] \in Nat /\ rest'[hold[w].id] \in Nat /\ rest'[hold[w].id] >= rest[hold[w].id]
        BY <1>0, <1>5, <4>1, BoundsAssumption
      <4>3. Wait(hold[w]) \in Nat
        BY <1>0, <4>1, WaitBounded
      <4>4. Wait(hold[w])' = Wait(hold[w])
        BY <1>0 DEF Wait
      <4> QED
        BY <1>0, <3>1, <4>2, <4>3, <4>4 DEF Phases, Phase
    <3>2. CASE pc[w] # "run"
      BY <1>0, <3>2 DEF Phases, Phase
    <3> QED
      BY <3>1, <3>2
  <2> QED
    BY <1>0, <1>2, <2>1, <2>2, <2>3 DEF Phases, Range
<1> QED
  BY <1>0, <1>4, <1>6, <1>7, <1>9
  DEF MQInv, InMap, RetryBudget, Sorted, Fresh, Earlier, FirstDeliveryInOrder, pushed
-----------------------------------------------------------------------------
(* The invariant holds, and every step is a step of the contract or none.  *)

LEMMA MQInit == Init => MQInv /\ C!Init
<1> SUFFICES ASSUME Init PROVE MQInv /\ C!Init
  OBVIOUS
<1>0. /\ ready = <<>> /\ delayed = <<>> /\ in = <<>> /\ order = <<>> /\ concluded = {}
      /\ \A w \in Workers : pc[w] = "pop" /\ hold[w] = None
      /\ \A j \in Jobs : starts[j] = 0 /\ failedCalls[j] = 0
  BY DEF Init
<1>1. pushed = {} /\ Range(ready) = {} /\ Range(delayed) = {} /\ DOMAIN in = {}
  BY <1>0 DEF pushed, Range
<1>2. \A w \in Workers : ~Held(w) /\ pc[w] \notin Handling
  BY <1>0 DEF Held, Handling
<1>3. \A j \in Jobs : Holders(j) = {}
  BY <1>2 DEF Holders, Held
<1>4. \A j \in Jobs : Copies(j) = 0 /\ IsFiniteSet(Holders(j))
  <2>1. \A j : {i \in DOMAIN ready : ready[i].id = j} = {} /\ {i \in DOMAIN delayed : delayed[i].id = j} = {}
    BY <1>0
  <2>2. \A j : Listed(ready, j) = 0 /\ Listed(delayed, j) = 0
    BY <2>1, FS_EmptySet DEF Listed
  <2> QED
    BY <1>3, <2>2, FS_EmptySet DEF Copies
<1>5. QType
  <2>1. ready \in Seq(Unspent) /\ delayed \in Seq(Unspent) /\ order \in Seq(Jobs)
    BY <1>0
  <2>2. /\ signal \in BOOLEAN /\ exits \in 0..MaxExits /\ pc \in [Workers -> PC]
        /\ hold = [w \in Workers |-> hold[w]] /\ asked \in [Jobs -> 0..MaxDelay]
        /\ rest \in [Jobs -> 0..RestCap] /\ starts \in [Jobs -> Nat] /\ failedCalls \in [Jobs -> Nat]
    <3>1. 0 \in 0..MaxExits /\ 0 \in 0..MaxDelay /\ 0 \in 0..RestCap /\ 0 \in Nat
      BY BoundsAssumption
    <3> QED
      BY <3>1 DEF Init, PC
  <2> QED
    BY <1>0, <1>1, <1>2, <2>1, <2>2 DEF QType
<1>6. InMap /\ OneCopy
  BY <1>0, <1>1, <1>2, <1>4 DEF InMap, OneCopy
<1>7. Phases
  BY <1>0, <1>1 DEF Phases, Phase
<1>8. RetryBudget /\ Sorted(ready) /\ FirstDeliveryInOrder
  BY <1>0, MaxRetryAssumption DEF RetryBudget, Sorted, FirstDeliveryInOrder
<1>9. C!Init
  BY <1>0, <1>1, <1>4 DEF C!Init, live
<1> QED
  BY <1>5, <1>6, <1>7, <1>8, <1>9 DEF MQInv

\* Steps that leave the copies alone leave the contract's live jobs alone.
LEMMA SameLive ==
    ASSUME \A i \in Jobs : Copies(i)' = Copies(i)
    PROVE  live' = live
  BY DEF live

LEMMA MQStep == MQInv /\ [Next]_vars => MQInv' /\ [C!Next]_(C!vars)
<1> SUFFICES ASSUME MQInv, [Next]_vars PROVE MQInv' /\ [C!Next]_(C!vars)
  OBVIOUS
<1> DEFINE Goal == MQInv' /\ [C!Next]_(C!vars)
<1>0. /\ pc \in [Workers -> PC] /\ signal \in BOOLEAN /\ exits \in 0..MaxExits
      /\ \A j \in Jobs : Copies(j) \in Nat
  BY CopiesParts, SMTT(30) DEF MQInv, QType
<1>1. ASSUME NEW j \in Jobs, NEW delay \in 0..MaxDelay, Push(j, delay) PROVE Goal
  <2>1. MQInv' /\ \A i \in Jobs : Copies(i)' = IF i = j THEN Copies(j) + 1 ELSE Copies(i)
    BY <1>1, PushStep
  <2>2. order \in Seq(Jobs) /\ order' = Append(order, j) /\ j \notin pushed /\ concluded' = concluded
    BY <1>1 DEF Push, MQInv, QType
  <2>3. pushed' = pushed \cup {j}
    BY <2>2, Appended DEF pushed, Range
  <2>4. live' = live \cup {j}
    BY <1>0, <2>1 DEF live
  <2>5. C!Push(j)
    BY <2>2, <2>3, <2>4 DEF C!Push
  <2> QED
    BY <2>1, <2>5 DEF C!Next
<1>2. ASSUME NEW w \in Workers, promoteDelayed(w) PROVE Goal
  <2>1. MQInv' /\ \A i \in Jobs : Copies(i)' = Copies(i)
    BY <1>2, PromoteStep
  <2> QED
    BY <1>2, <2>1, SameLive DEF promoteDelayed, hvars, pushed, C!vars
<1>3. ASSUME NEW w \in Workers, PopTake(w) PROVE Goal
  <2> PICK e : e = Head(ready)
    OBVIOUS
  <2>1. MQInv' /\ live' = live
    BY <1>3, TakeStep, SameLive
  <2>2. pushed' = pushed /\ (concluded' = concluded \/ concluded' = concluded \cup {e.id})
    BY <1>3 DEF PopTake, pushed
  <2>3. e.id \in Jobs /\ e.id \in pushed
    <3>1. ready \in Seq(Unspent) /\ ready # <<>>
      BY <1>3 DEF MQInv, QType, PopTake
    <3>2. e \in Range(ready) /\ e \in Unspent
      BY <3>1 DEF Range
    <3>3. e.id \in Jobs
      BY <3>2 DEF Unspent, Entry
    <3> QED
      <4>1. QType /\ OneCopy /\ Listed(ready, e.id) # 0
        BY <3>2, <3>3, CopiesParts DEF MQInv
      <4>2. Copies(e.id) # 0
        BY <3>3, <4>1, CopiesParts
      <4> QED
        BY <3>3, <4>1, <4>2 DEF OneCopy
  <2>4. CASE concluded' = concluded
    BY <2>1, <2>2, <2>4 DEF C!vars
  <2>5. CASE concluded' = concluded \cup {e.id}
    <3>1. C!Conclude(e.id)
      BY <2>1, <2>2, <2>3, <2>5 DEF C!Conclude
    <3> QED
      BY <2>1, <2>3, <3>1 DEF C!Next
  <2> QED
    BY <2>2, <2>4, <2>5
<1>4. ASSUME NEW w \in Workers,
             PopEmpty(w) \/ PopSignal(w) \/ PopTimer(w) \/ RunExit(w) \/ RunStart(w)
      PROVE  Goal
  <2>1. /\ UNCHANGED <<ready, delayed, in, hold, order, asked, concluded, starts, failedCalls, rest>>
        /\ signal' \in BOOLEAN /\ exits' \in 0..MaxExits
    <3>1. MaxExits \in Nat /\ (exits < MaxExits => exits + 1 \in 0..MaxExits)
      BY <1>0, BoundsAssumption
    <3> QED
      BY <1>0, <1>4, <3>1 DEF PopEmpty, PopSignal, PopTimer, RunExit, RunStart, qvars, hvars
  <2>2. /\ pc' \in [Workers -> PC]
        /\ \A v \in Workers : pc'[v] = pc[v] \/ (~Held(v) /\ pc'[v] \notin Handling \cup {"requeue"})
    BY <1>0, <1>4 DEF PopEmpty, PopSignal, PopTimer, RunExit, RunStart, PC, Held, Handling
  <2>3. UNCHANGED hvars
    BY <2>1 DEF hvars
  <2>4. MQInv' /\ \A i \in Jobs : Copies(i)' = Copies(i)
    BY <2>1, <2>2, <2>3, ControlStep
  <2> QED
    BY <2>1, <2>4, SameLive DEF pushed, C!vars
<1>5. ASSUME NEW w \in Workers, handleSucceeds(w) \/ handleFails(w) PROVE Goal
  <2> PICK j : j = hold[w].id
    OBVIOUS
  <2>1. MQInv' /\ live' = live /\ (concluded' = concluded \/ concluded' = concluded \cup {j})
    BY <1>5, HandleStep, SameLive
  <2>2. pushed' = pushed /\ Held(w)
    BY <1>5 DEF handleSucceeds, handleFails, pushed, Held, Handling
  <2>3. j \in Jobs /\ j \in pushed
    BY <2>2, HeldAlone DEF MQInv
  <2>4. CASE concluded' = concluded
    BY <2>1, <2>2, <2>4 DEF C!vars
  <2>5. CASE concluded' = concluded \cup {j}
    <3>1. C!Conclude(j)
      BY <2>1, <2>2, <2>3, <2>5 DEF C!Conclude
    <3> QED
      BY <2>1, <2>3, <3>1 DEF C!Next
  <2> QED
    BY <2>1, <2>4, <2>5
<1>6. ASSUME NEW w \in Workers, Ack(w) PROVE Goal
  <2> PICK j : j = hold[w].id
    OBVIOUS
  <2>1. /\ MQInv' /\ j \in Jobs \cap concluded /\ Copies(j) = 1
        /\ \A i \in Jobs : Copies(i)' = IF i = j THEN 0 ELSE Copies(i)
    BY <1>6, AckStep
  <2>2. live' = live \ {j} /\ j \in live
    BY <1>0, <2>1 DEF live
  <2>3. C!Remove(j)
    BY <1>6, <2>1, <2>2 DEF C!Remove, Ack, hvars, pushed
  <2> QED
    BY <2>1, <2>3 DEF C!Next
<1>7. ASSUME NEW w \in Workers, NackTakeOut(w) PROVE Goal
  <2>1. MQInv' /\ live' = live
    BY <1>7, NackTakeOutStep, SameLive
  <2> QED
    BY <1>7, <2>1 DEF NackTakeOut, hvars, pushed, C!vars
<1>8. ASSUME NEW w \in Workers, NackPutBack(w) PROVE Goal
  <2>1. MQInv' /\ live' = live
    BY <1>8, NackPutBackStep, SameLive
  <2> QED
    BY <1>8, <2>1 DEF NackPutBack, hvars, pushed, C!vars
<1>9. CASE Tick
  <2>1. MQInv' /\ live' = live
    BY <1>9, TickStep, SameLive
  <2> QED
    BY <1>9, <2>1 DEF Tick, pushed, C!vars
<1>10. CASE UNCHANGED vars
  <2>1. UNCHANGED <<ready, delayed, in, signal, pc, hold, exits, hvars>>
    BY <1>10 DEF vars, qvars, wvars
  <2>2. MQInv' /\ \A i \in Jobs : Copies(i)' = Copies(i)
    BY <1>0, <2>1, ControlStep
  <2> QED
    BY <2>1, <2>2, SameLive DEF hvars, pushed, C!vars
<1> HIDE DEF Goal
<1> QED
  BY <1>1, <1>2, <1>3, <1>4, <1>5, <1>6, <1>7, <1>8, <1>9, <1>10 DEF Next, Work, Goal

\* The inductive invariant is stronger than the queue's safety.
LEMMA MQInvSafe == MQInv => Safety
<1> SUFFICES ASSUME MQInv PROVE Safety
  OBVIOUS
<1>0. QType /\ InMap /\ OneCopy /\ Phases /\ RetryBudget /\ FirstDeliveryInOrder
  BY DEF MQInv
<1>1. pushed \subseteq Jobs
  BY <1>0, PushedJobs
<1>2. Range(ready) \subseteq Unspent /\ Range(delayed) \subseteq Unspent
  BY <1>0 DEF QType, Range
<1>3. \A w \in Workers : Held(w) => hold[w] \in Unspent /\ hold[w].id \in Jobs
  BY <1>0 DEF QType, Unspent, Entry
<1>4. \A v \in Workers : pc[v] \in Handling => Held(v)
  BY DEF Held
<1>5. Range(in) \subseteq Unspent /\ DOMAIN in \subseteq Jobs
  BY <1>0, <1>3, <1>4 DEF InMap, Range
<1>6. TypeOK
  <2>1. \A w \in Workers :
          IF pc[w] \in Handling \cup {"requeue"} THEN hold[w] \in Entry ELSE hold[w] = None
    BY <1>0, <1>3 DEF QType, Held, Unspent
  <2> QED
    BY <1>0, <1>1, <1>2, <1>5, <2>1 DEF TypeOK, QType, Unspent
<1>7. Custody
  BY <1>0, <1>1 DEF Custody, OneCopy, InMap
<1>8. NeverEarly
  BY <1>0 DEF NeverEarly, Phases, Phase
<1> QED
  BY <1>0, <1>6, <1>7, <1>8 DEF Safety

\* For any number of jobs and workers, any retry limit and backoff, and any
\* interleaving of the critical sections of Pop and Nack: no job is lost or
\* doubled, run more than MaxRetry times, started before its delay or backoff
\* has passed, or overtaken before its first delivery.
THEOREM QueueSafe == Spec => []Safety
<1>1. Spec => []MQInv
  BY MQInit, MQStep, PTL DEF Spec
<1> QED
  BY <1>1, MQInvSafe, PTL

\* The in-memory driver implements the Queue contract: a job stays live, in a
\* list or with a worker, until a delivery of it has been concluded.
THEOREM MemoryQueueContract == Spec => AtLeastOnce
BY MQInit, MQStep, PTL DEF Spec, AtLeastOnce, C!Spec
=============================================================================
