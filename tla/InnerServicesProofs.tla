------------------------ MODULE InnerServicesProofs -------------------------
(***************************************************************************)
(* The properties of InnerServices hold for every value of the constants.  *)
(* A behaviour is about one part, and no step changes which: each part's   *)
(* inductive invariant, which its module states under the names of its own *)
(* variables, holds initially and is preserved by the part's steps (a      *)
(* lemma ...Start and a lemma ...Step for each), and implies the part's    *)
(* properties (a lemma ...Safe, where it does not contain them).  The      *)
(* theorems at the end put the parts of a theme together.                  *)
(***************************************************************************)
EXTENDS InnerServices, SequenceTheorems, FiniteSetTheorems, WellFoundedInduction, TLAPS
-----------------------------------------------------------------------------
(* Facts about sequences and numbers. *)

\* The empty sequence and sequences of one element.
LEMMA ShortSeqs ==
  ASSUME NEW S
  PROVE  /\ <<>> \in Seq(S) /\ Len(<<>>) = 0
         /\ \A x \in S : <<x>> \in Seq(S) /\ Len(<<x>>) = 1 /\ <<x>>[1] = x
OBVIOUS

\* A function on 1..n is a sequence of length n.
LEMMA FunctionIsSeq ==
  ASSUME NEW S, NEW n \in Nat, NEW f \in [1 .. n -> S]
  PROVE  f \in Seq(S) /\ Len(f) = n
OBVIOUS

\* A ring of C cells, n the next to write, after the entries h: before and after it has wrapped.
Filling(b, n, h, C) == n \in 0 .. C - 1 /\ Len(h) = n /\ \A i \in 1 .. n : b[i - 1] = h[i]
Rolling(b, n, h, C) ==
    /\ n \in 0 .. C - 1 /\ Len(h) >= C
    /\ \A i \in 1 .. n : b[i - 1] = h[Len(h) - n + i]
    /\ \A i \in n + 1 .. C : b[i - 1] = h[Len(h) - C - n + i]

\* A write into a ring that is not full adds to its history, and may fill it.
LEMMA RingFills ==
  ASSUME NEW C \in Nat \ {0}, NEW T, NEW b \in [0 .. C - 1 -> T], NEW h \in Seq(T), NEW n, NEW e \in T, Filling(b, n, h, C)
  PROVE  /\ [b EXCEPT ![n] = e] \in [0 .. C - 1 -> T]
         /\ n + 1 # C => Filling([b EXCEPT ![n] = e], n + 1, Append(h, e), C)
         /\ n + 1 = C => Rolling([b EXCEPT ![n] = e], 0, Append(h, e), C)
<1> DEFINE c == [b EXCEPT ![n] = e]  k == Append(h, e)
<1>1. n \in 0 .. C - 1 /\ n \in Nat /\ Len(h) = n
  BY DEF Filling
<1>2. c \in [0 .. C - 1 -> T] /\ \A i \in 0 .. C - 1 : c[i] = IF i = n THEN e ELSE b[i]
  BY <1>1
<1>3. k \in Seq(T) /\ Len(k) = n + 1 /\ \A i \in 1 .. n + 1 : k[i] = IF i = n + 1 THEN e ELSE h[i]
  BY <1>1
<1> HIDE DEF c, k
<1>4. \A i \in 1 .. n + 1 : c[i - 1] = k[i]
  BY <1>1, <1>2, <1>3 DEF Filling
<1>5. n + 1 # C => Filling(c, n + 1, k, C)
  BY <1>1, <1>3, <1>4 DEF Filling
<1>6. n + 1 = C => Rolling(c, 0, k, C)
  BY <1>1, <1>3, <1>4 DEF Rolling
<1> QED
  BY <1>2, <1>5, <1>6 DEF c, k

\* A write into a full ring replaces the oldest element.
LEMMA RingRolls ==
  ASSUME NEW C \in Nat \ {0}, NEW T, NEW b \in [0 .. C - 1 -> T], NEW h \in Seq(T), NEW n, NEW e \in T, Rolling(b, n, h, C)
  PROVE  /\ [b EXCEPT ![n] = e] \in [0 .. C - 1 -> T]
         /\ Rolling([b EXCEPT ![n] = e], IF n + 1 = C THEN 0 ELSE n + 1, Append(h, e), C)
<1> DEFINE c == [b EXCEPT ![n] = e]  k == Append(h, e)  l == Len(h)
<1>1. n \in 0 .. C - 1 /\ n \in Nat /\ l \in Nat /\ l >= C
  BY LenProperties DEF Rolling
<1>2. c \in [0 .. C - 1 -> T] /\ \A i \in 0 .. C - 1 : c[i] = IF i = n THEN e ELSE b[i]
  BY <1>1
<1>3. k \in Seq(T) /\ Len(k) = l + 1 /\ \A i \in 1 .. l + 1 : k[i] = IF i = l + 1 THEN e ELSE h[i]
  BY <1>1
<1>4. (\A i \in 1 .. n : b[i - 1] = h[l - n + i]) /\ (\A i \in n + 1 .. C : b[i - 1] = h[l - C - n + i])
  BY DEF Rolling
<1> HIDE DEF c, k, l
<1>5. \A i \in 1 .. n + 1 : c[i - 1] = k[(l + 1) - (n + 1) + i]
  <2> SUFFICES ASSUME NEW i \in 1 .. n + 1 PROVE c[i - 1] = k[(l + 1) - (n + 1) + i]
    OBVIOUS
  <2>1. CASE i = n + 1
    BY <1>1, <1>2, <1>3, <2>1
  <2>2. CASE i # n + 1
    <3>1. i \in 1 .. n /\ i - 1 \in 0 .. C - 1 /\ i - 1 # n /\ (l + 1) - (n + 1) + i = l - n + i /\ l - n + i \in 1 .. l + 1 /\ l - n + i # l + 1
      BY <1>1, <2>2
    <3> QED
      BY <1>2, <1>3, <1>4, <3>1
  <2> QED
    BY <2>1, <2>2
<1>6. \A i \in n + 2 .. C : c[i - 1] = k[(l + 1) - C - (n + 1) + i]
  <2> SUFFICES ASSUME NEW i \in n + 2 .. C PROVE c[i - 1] = k[(l + 1) - C - (n + 1) + i]
    OBVIOUS
  <2>1. i \in n + 1 .. C /\ i - 1 \in 0 .. C - 1 /\ i - 1 # n /\ (l + 1) - C - (n + 1) + i = l - C - n + i
        /\ l - C - n + i \in 1 .. l + 1 /\ l - C - n + i # l + 1
    BY <1>1
  <2> QED
    BY <1>2, <1>3, <1>4, <2>1
<1>7. CASE n + 1 = C
  <2>1. \A i \in 0 + 1 .. C : c[i - 1] = k[Len(k) - C - 0 + i]
    <3> SUFFICES ASSUME NEW i \in 0 + 1 .. C PROVE c[i - 1] = k[Len(k) - C - 0 + i]
      OBVIOUS
    <3>1. i \in 1 .. n + 1 /\ (l + 1) - (n + 1) + i = Len(k) - C - 0 + i
      BY <1>1, <1>3, <1>7
    <3> QED
      BY <1>5, <3>1
  <2>2. Rolling(c, 0, k, C)
    BY <1>1, <1>3, <2>1 DEF Rolling
  <2> QED
    BY <1>2, <1>7, <2>2 DEF c, k
<1>8. CASE n + 1 # C
  <2>1. /\ n + 1 \in 0 .. C - 1 /\ Len(k) >= C
        /\ \A i \in 1 .. n + 1 : c[i - 1] = k[Len(k) - (n + 1) + i]
        /\ \A i \in (n + 1) + 1 .. C : c[i - 1] = k[Len(k) - C - (n + 1) + i]
    <3>1. n + 1 \in 0 .. C - 1 /\ Len(k) >= C /\ (n + 1) + 1 = n + 2
      BY <1>1, <1>3, <1>8
    <3> QED
      BY <1>3, <1>5, <1>6, <3>1
  <2>2. Rolling(c, n + 1, k, C)
    BY <2>1 DEF Rolling
  <2> QED
    BY <1>2, <1>8, <2>2 DEF c, k
<1> QED
  BY <1>7, <1>8

\* Read from the oldest cell on, a ring is the end of its history, and all of it until the ring is
\* full.
LEMMA RingShows ==
  ASSUME NEW C \in Nat \ {0}, NEW T, NEW b \in [0 .. C - 1 -> T], NEW h \in Seq(T), NEW n
  PROVE  /\ Filling(b, n, h, C) => [i \in 1 .. (n - 1) - 0 + 1 |-> b[0 + i - 1]] = SubSeq(h, 1, Len(h)) /\ Len(h) < C
         /\ Rolling(b, n, h, C) =>
               /\ [i \in 1 .. (C - 1) - n + 1 |-> b[n + i - 1]] \o [i \in 1 .. (n - 1) - 0 + 1 |-> b[0 + i - 1]]
                     = SubSeq(h, Len(h) - C + 1, Len(h))
               /\ Len(h) >= C
<1> DEFINE l == Len(h)  lo == [i \in 1 .. (n - 1) - 0 + 1 |-> b[0 + i - 1]]  hi == [i \in 1 .. (C - 1) - n + 1 |-> b[n + i - 1]]
<1>0. l \in Nat /\ \A i \in 1 .. l : h[i] \in T
  BY LenProperties
<1>1. n \in 0 .. C - 1 => /\ n \in Nat
                          /\ lo \in Seq(T) /\ Len(lo) = n /\ (\A i \in 1 .. n : lo[i] = b[i - 1])
                          /\ hi \in Seq(T) /\ Len(hi) = C - n /\ (\A i \in 1 .. C - n : hi[i] = b[n + i - 1])
  <2> SUFFICES ASSUME n \in 0 .. C - 1
               PROVE /\ lo \in Seq(T) /\ Len(lo) = n /\ (\A i \in 1 .. n : lo[i] = b[i - 1])
                     /\ hi \in Seq(T) /\ Len(hi) = C - n /\ (\A i \in 1 .. C - n : hi[i] = b[n + i - 1])
    OBVIOUS
  <2>1. n \in Nat /\ C - n \in Nat /\ (n - 1) - 0 + 1 = n /\ (C - 1) - n + 1 = C - n
    OBVIOUS
  <2>2. lo = [i \in 1 .. n |-> b[i - 1]] /\ hi = [i \in 1 .. C - n |-> b[n + i - 1]]
    BY <2>1
  <2>3. lo \in [1 .. n -> T] /\ hi \in [1 .. C - n -> T]
    BY <2>1, <2>2
  <2> QED
    BY <2>1, <2>2, <2>3
<1> HIDE DEF lo, hi, l
<1>2. ASSUME Filling(b, n, h, C) PROVE lo = SubSeq(h, 1, l) /\ l < C
  <2>1. n = l /\ l < C /\ n \in 0 .. C - 1 /\ \A i \in 1 .. n : b[i - 1] = h[i]
    BY <1>2 DEF Filling, l
  <2>2. SubSeq(h, 1, l) = h
    BY DEF l
  <2>3. lo = h
    BY <1>0, <1>1, <2>1, SeqEqual DEF l
  <2> QED
    BY <2>1, <2>2, <2>3
<1>3. ASSUME Rolling(b, n, h, C) PROVE hi \o lo = SubSeq(h, l - C + 1, l) /\ l >= C
  <2>1. /\ l >= C /\ n \in 0 .. C - 1 /\ n \in Nat /\ (\A i \in 1 .. n : b[i - 1] = h[l - n + i])
        /\ (\A i \in n + 1 .. C : b[i - 1] = h[l - C - n + i])
    BY <1>3 DEF Rolling, l
  <2> DEFINE s == SubSeq(h, l - C + 1, l)
  <2>2. s \in Seq(T) /\ Len(s) = C /\ \A i \in 1 .. C : s[i] = h[l - C + i]
    <3>1. \A i \in l - C + 1 .. l : h[i] \in T
      BY <1>0, <2>1
    <3>2. /\ s \in Seq(T) /\ Len(s) = IF l - C + 1 <= l THEN l - (l - C + 1) + 1 ELSE 0
          /\ \A i \in 1 .. l - (l - C + 1) + 1 : s[i] = h[l - C + 1 + i - 1]
      BY <1>0, <2>1, <3>1, SubSeqProperties
    <3> QED
      BY <1>0, <2>1, <3>2
  <2>3. /\ hi \o lo \in Seq(T) /\ Len(hi \o lo) = C
        /\ \A i \in 1 .. C : (hi \o lo)[i] = IF i <= C - n THEN hi[i] ELSE lo[i - (C - n)]
    <3>1. /\ hi \o lo \in Seq(T) /\ Len(hi \o lo) = Len(hi) + Len(lo)
          /\ \A i \in 1 .. Len(hi) + Len(lo) : (hi \o lo)[i] = IF i <= Len(hi) THEN hi[i] ELSE lo[i - Len(hi)]
      BY <1>1, <2>1, ConcatProperties
    <3> QED
      BY <1>1, <2>1, <3>1
  <2> HIDE DEF s
  <2>4. ASSUME NEW i \in 1 .. C PROVE (hi \o lo)[i] = s[i]
    <3>1. CASE i <= C - n
      <4>1. n + i \in n + 1 .. C /\ i \in 1 .. C - n /\ l - C - n + (n + i) = l - C + i
        BY <1>0, <2>1, <3>1
      <4>2. b[(n + i) - 1] = h[l - C - n + (n + i)]
        BY <2>1, <4>1
      <4>3. (hi \o lo)[i] = hi[i] /\ s[i] = h[l - C + i]
        BY <2>2, <2>3, <3>1
      <4>4. hi[i] = b[n + i - 1]
        BY <1>1, <2>1, <4>1
      <4>5. n + i - 1 = (n + i) - 1
        BY <2>1
      <4> QED
        BY <4>1, <4>2, <4>3, <4>4, <4>5
    <3>2. CASE ~(i <= C - n)
      <4>1. i - (C - n) \in 1 .. n /\ l - n + (i - (C - n)) = l - C + i
        BY <1>0, <2>1, <3>2
      <4>2. lo[i - (C - n)] = b[(i - (C - n)) - 1]
        BY <1>1, <2>1, <4>1
      <4>3. b[(i - (C - n)) - 1] = h[l - n + (i - (C - n))]
        BY <2>1, <4>1
      <4> QED
        BY <2>2, <2>3, <3>2, <4>1, <4>2, <4>3
    <3> QED
      BY <3>1, <3>2
  <2>5. hi \o lo = s
    BY <2>2, <2>3, <2>4, SeqEqual
  <2> QED
    BY <2>1, <2>5 DEF s
<1> QED
  BY <1>2, <1>3 DEF lo, hi, l

\* append(s[:n], s[n+1:]...) is s without its n-th element.
LEMMA Spliced ==
  ASSUME NEW S, NEW s \in Seq(S), NEW n \in 1 .. Len(s)
  PROVE  LET w == SubSeq(s, 1, n - 1) \o SubSeq(s, n + 1, Len(s)) IN
         /\ w \in Seq(S) /\ Len(w) = Len(s) - 1
         /\ \A i \in 1 .. Len(s) - 1 : w[i] = IF i < n THEN s[i] ELSE s[i + 1]
<1> DEFINE a == SubSeq(s, 1, n - 1)  b == SubSeq(s, n + 1, Len(s))
<1>1. Len(s) \in Nat /\ n \in Int /\ n >= 1 /\ n <= Len(s) /\ \A i \in 1 .. Len(s) : s[i] \in S
  BY LenProperties
<1>2. a \in Seq(S) /\ Len(a) = n - 1 /\ \A i \in 1 .. n - 1 : a[i] = s[i]
  BY <1>1, SubSeqProperties
<1>3. b \in Seq(S) /\ Len(b) = Len(s) - n /\ \A i \in 1 .. Len(s) - n : b[i] = s[n + i]
  <2>1. \A i \in n + 1 .. Len(s) : s[i] \in S
    BY <1>1
  <2>2. /\ b \in Seq(S) /\ Len(b) = IF n + 1 <= Len(s) THEN Len(s) - (n + 1) + 1 ELSE 0
        /\ \A i \in 1 .. Len(s) - (n + 1) + 1 : b[i] = s[n + 1 + i - 1]
    BY <1>1, <2>1, SubSeqProperties
  <2> QED
    BY <1>1, <2>2
<1> HIDE DEF a, b
<1>4. /\ a \o b \in Seq(S) /\ Len(a \o b) = Len(a) + Len(b)
      /\ \A i \in 1 .. Len(a) + Len(b) : (a \o b)[i] = IF i <= Len(a) THEN a[i] ELSE b[i - Len(a)]
  BY <1>2, <1>3, ConcatProperties
<1>5. Len(a \o b) = Len(s) - 1
  BY <1>1, <1>2, <1>3, <1>4
<1>6. ASSUME NEW i \in 1 .. Len(s) - 1 PROVE (a \o b)[i] = IF i < n THEN s[i] ELSE s[i + 1]
  <2>1. (a \o b)[i] = IF i <= n - 1 THEN a[i] ELSE b[i - (n - 1)]
    BY <1>1, <1>2, <1>3, <1>4
  <2>2. CASE i < n
    BY <1>1, <1>2, <2>1, <2>2
  <2>3. CASE ~(i < n)
    <3>1. i - (n - 1) \in 1 .. Len(s) - n /\ n + (i - (n - 1)) = i + 1 /\ ~(i <= n - 1)
      BY <1>1, <2>3
    <3> QED
      BY <1>3, <2>1, <2>3, <3>1
  <2> QED
    BY <2>2, <2>3
<1> QED
  BY <1>4, <1>5, <1>6 DEF a, b

\* If no two elements of s are equal, splicing one out removes it from the elements, and they stay
\* distinct.
LEMMA SplicedOut ==
  ASSUME NEW S, NEW s \in Seq(S), NEW n \in 1 .. Len(s), \A i, k \in DOMAIN s : s[i] = s[k] => i = k
  PROVE  LET w == SubSeq(s, 1, n - 1) \o SubSeq(s, n + 1, Len(s)) IN
         /\ w \in Seq(S) /\ Len(w) = Len(s) - 1
         /\ {w[i] : i \in DOMAIN w} = {s[i] : i \in DOMAIN s} \ {s[n]}
         /\ \A i, k \in DOMAIN w : w[i] = w[k] => i = k
<1> DEFINE w == SubSeq(s, 1, n - 1) \o SubSeq(s, n + 1, Len(s))
<1>1. w \in Seq(S) /\ Len(w) = Len(s) - 1 /\ \A i \in 1 .. Len(s) - 1 : w[i] = IF i < n THEN s[i] ELSE s[i + 1]
  BY Spliced
<1> HIDE DEF w
<1>2. /\ Len(s) \in Nat /\ n \in Nat /\ n >= 1 /\ n <= Len(s)
      /\ DOMAIN s = 1 .. Len(s) /\ DOMAIN w = 1 .. Len(s) - 1
  BY <1>1, LenProperties
<1>3. ASSUME NEW i \in DOMAIN w
      PROVE  \E k \in DOMAIN s : k = (IF i < n THEN i ELSE i + 1) /\ k # n /\ w[i] = s[k]
  BY <1>1, <1>2
<1>4. ASSUME NEW k \in DOMAIN s, k # n PROVE \E i \in DOMAIN w : w[i] = s[k]
  <2>1. CASE k < n
    BY <1>1, <1>2, <2>1
  <2>2. CASE k > n
    <3>1. k - 1 \in DOMAIN w /\ w[k - 1] = s[k]
      BY <1>1, <1>2, <2>2
    <3> QED
      BY <3>1
  <2> QED
    BY <1>2, <1>4, <2>1, <2>2
<1>5. \A i, k \in DOMAIN w : w[i] = w[k] => i = k
  <2> SUFFICES ASSUME NEW i \in DOMAIN w, NEW k \in DOMAIN w, w[i] = w[k] PROVE i = k
    OBVIOUS
  <2>1. (IF i < n THEN i ELSE i + 1) = (IF k < n THEN k ELSE k + 1)
    BY <1>3
  <2> QED
    BY <1>2, <2>1
<1>6. {w[i] : i \in DOMAIN w} = {s[i] : i \in DOMAIN s} \ {s[n]}
  BY <1>2, <1>3, <1>4
<1> QED
  BY <1>1, <1>5, <1>6 DEF w

\* The first index of x in a sequence that has it.
LEMMA FirstIndex ==
  ASSUME NEW S, NEW s \in Seq(S), NEW x, \E i \in DOMAIN s : s[i] = x, \A i, k \in DOMAIN s : s[i] = s[k] => i = k
  PROVE  LET n == CHOOSE i \in DOMAIN s : s[i] = x /\ \A k \in 1 .. i - 1 : s[k] # x IN
         n \in 1 .. Len(s) /\ s[n] = x
<1>1. PICK i \in DOMAIN s : s[i] = x
  OBVIOUS
<1>2. i \in 1 .. Len(s) /\ DOMAIN s = 1 .. Len(s) /\ Len(s) \in Nat
  BY <1>1, LenProperties
<1>3. \A k \in 1 .. i - 1 : k \in DOMAIN s /\ k # i
  BY <1>2
<1>4. \E k \in DOMAIN s : s[k] = x /\ \A m \in 1 .. k - 1 : s[m] # x
  BY <1>1, <1>3
<1> QED
  BY <1>2, <1>4

\* If no two elements of s are equal, Tail removes the first from the elements, and they stay
\* distinct.
LEMMA TailOut ==
  ASSUME NEW S, NEW s \in Seq(S), s # <<>>, \A i, k \in DOMAIN s : s[i] = s[k] => i = k
  PROVE  /\ Tail(s) \in Seq(S) /\ Len(Tail(s)) = Len(s) - 1 /\ s[1] \in {s[i] : i \in DOMAIN s}
         /\ {Tail(s)[i] : i \in DOMAIN Tail(s)} = {s[i] : i \in DOMAIN s} \ {s[1]}
         /\ \A i, k \in DOMAIN Tail(s) : Tail(s)[i] = Tail(s)[k] => i = k
<1> DEFINE t == Tail(s)  l == Len(s)
<1>1. t \in Seq(S) /\ Len(t) = l - 1 /\ (\A i \in 1 .. l - 1 : t[i] = s[i + 1]) /\ l \in Nat /\ l # 0
  BY HeadTailProperties, LenProperties
<1>2. DOMAIN s = 1 .. l /\ DOMAIN t = 1 .. l - 1
  BY <1>1, LenProperties
<1> HIDE DEF t, l
<1>3. ASSUME NEW i \in DOMAIN t PROVE i + 1 \in DOMAIN s /\ t[i] = s[i + 1] /\ i \in Nat /\ i + 1 # 1
  BY <1>1, <1>2
<1>4. ASSUME NEW k \in DOMAIN s, k # 1 PROVE \E i \in DOMAIN t : t[i] = s[k]
  <2>1. k - 1 \in DOMAIN t /\ t[k - 1] = s[k]
    BY <1>1, <1>2, <1>4
  <2> QED
    BY <2>1
<1>5. 1 \in DOMAIN s
  BY <1>1, <1>2
<1>6. \A i, k \in DOMAIN t : t[i] = t[k] => i = k
  <2> SUFFICES ASSUME NEW i \in DOMAIN t, NEW k \in DOMAIN t, t[i] = t[k] PROVE i = k
    OBVIOUS
  <2>1. i + 1 = k + 1 /\ i \in Nat /\ k \in Nat
    BY <1>3
  <2> QED
    BY <2>1
<1>7. {t[i] : i \in DOMAIN t} = {s[i] : i \in DOMAIN s} \ {s[1]}
  BY <1>3, <1>4, <1>5
<1> QED
  BY <1>1, <1>5, <1>6, <1>7 DEF t, l

\* Appending an element that is not there adds it to the elements, and they stay distinct.
LEMMA AppendIn ==
  ASSUME NEW S, NEW s \in Seq(S), NEW x \in S, x \notin {s[i] : i \in DOMAIN s},
         \A i, k \in DOMAIN s : s[i] = s[k] => i = k
  PROVE  /\ Append(s, x) \in Seq(S) /\ Len(Append(s, x)) = Len(s) + 1
         /\ {Append(s, x)[i] : i \in DOMAIN Append(s, x)} = {s[i] : i \in DOMAIN s} \cup {x}
         /\ \A i, k \in DOMAIN Append(s, x) : Append(s, x)[i] = Append(s, x)[k] => i = k
<1> DEFINE t == Append(s, x)  l == Len(s)
<1>1. /\ l \in Nat /\ t \in Seq(S) /\ Len(t) = l + 1 /\ DOMAIN t = 1 .. l + 1 /\ DOMAIN s = 1 .. l
      /\ \A i \in 1 .. l + 1 : t[i] = IF i = l + 1 THEN x ELSE s[i]
  OBVIOUS
<1> HIDE DEF t, l
<1>2. ASSUME NEW i \in DOMAIN t PROVE (i = l + 1 /\ t[i] = x) \/ (i \in DOMAIN s /\ t[i] = s[i])
  BY <1>1
<1>3. ASSUME NEW i \in DOMAIN s PROVE i \in DOMAIN t /\ t[i] = s[i]
  BY <1>1
<1>4. l + 1 \in DOMAIN t /\ t[l + 1] = x
  BY <1>1
<1>5. {t[i] : i \in DOMAIN t} = {s[i] : i \in DOMAIN s} \cup {x}
  BY <1>2, <1>3, <1>4
<1>6. \A i, k \in DOMAIN t : t[i] = t[k] => i = k
  BY <1>2
<1> QED
  BY <1>1, <1>5, <1>6 DEF t, l

\* A nonempty set of naturals has a least element.
LEMMA LeastNat ==
  ASSUME NEW T \in SUBSET Nat, T # {}
  PROVE  \E x \in T : \A y \in T : x <= y
<1>1. PICK x \in T : \A y \in T : ~(<<y, x>> \in OpToRel(<, Nat))
  BY WFMin, NatLessThanWellFounded
<1>2. \A y \in T : ~(y < x)
  BY <1>1 DEF OpToRel
<1> QED
  BY <1>2
-----------------------------------------------------------------------------
(* The instances count as FiniteSets does. *)

LEMMA TelCounts == \A S : Tel!Cardinality(S) = Cardinality(S) /\ (Tel!IsFiniteSet(S) <=> IsFiniteSet(S))
<1>1. \A S : Tel!IsFiniteSet(S) <=> IsFiniteSet(S)
  BY DEF Tel!IsFiniteSet, IsFiniteSet
<1>2. \A S : Tel!Cardinality(S) = Cardinality(S)
  BY <1>1 DEF Tel!Cardinality, Cardinality
<1> QED
  BY <1>1, <1>2

LEMMA ObsCounts == \A S : Obs!Cardinality(S) = Cardinality(S) /\ (Obs!IsFiniteSet(S) <=> IsFiniteSet(S))
<1>1. \A S : Obs!IsFiniteSet(S) <=> IsFiniteSet(S)
  BY DEF Obs!IsFiniteSet, IsFiniteSet
<1>2. \A S : Obs!Cardinality(S) = Cardinality(S)
  BY <1>1 DEF Obs!Cardinality, Cardinality
<1> QED
  BY <1>1, <1>2
-----------------------------------------------------------------------------
(***************************************************************************)
(* Container, the instance Cont: its variables are v1 gen, v2 stack, v3    *)
(* ret, v4 once, v5 value, v6 used, v7 makes, v8 binds.                    *)
(***************************************************************************)

\* The invariant of the container holds initially.
LEMMA ContStart == Cont!Init => Cont!ContInv
<1> SUFFICES ASSUME Cont!Init PROVE Cont!ContInv
  OBVIOUS
<1>1. Cont!ContType
  BY ContAssumption DEF Cont!Init, Cont!ContType, Cont!idle
<1>2. \A g \in Goroutines : v2[g] = <<>>
  BY DEF Cont!Init, Cont!idle
<1>3. \A g \in Goroutines : Cont!StackOK(v2[g]) /\ Cont!Entered(v2[g]) = {}
  <2>0. DOMAIN <<>> = {}
    OBVIOUS
  <2>1. \A g \in Goroutines : DOMAIN v2[g] = {}
    BY <1>2, <2>0, Zenon
  <2> QED
    BY <2>1 DEF Cont!StackOK, Cont!Entered
<1> QED
  BY <1>1, <1>3, ContAssumption DEF Cont!Init, Cont!ContInv

\* resolve: a frame for a key that is not being resolved, and that the frame below needs, goes on a
\* stack.
LEMMA StackPush ==
  ASSUME NEW s \in Seq(Cont!Frames), Cont!StackOK(s), NEW f \in Cont!Frames, Cont!FrameOK(f), ~f.inside,
         \A i \in DOMAIN s : s[i].key # f.key, s # <<>> => f.key \in Cont!Needs(s[Len(s)].key)
  PROVE  Append(s, f) \in Seq(Cont!Frames) /\ Cont!StackOK(Append(s, f)) /\ Cont!Entered(Append(s, f)) = Cont!Entered(s)
<1> DEFINE t == Append(s, f)  n == Len(s)
<1>1. /\ t \in Seq(Cont!Frames) /\ n \in Nat /\ DOMAIN s = 1 .. n /\ DOMAIN t = 1 .. n + 1
      /\ \A i \in 1 .. n + 1 : t[i] = IF i = n + 1 THEN f ELSE s[i]
  OBVIOUS
<1>2. s # <<>> <=> n # 0
  OBVIOUS
<1> HIDE DEF t, n
<1>3. \A i \in DOMAIN t : (i = n + 1 /\ t[i] = f) \/ (i \in DOMAIN s /\ t[i] = s[i])
  BY <1>1
<1>4. \A i \in DOMAIN s : i \in DOMAIN t /\ t[i] = s[i]
  BY <1>1
<1>5. \A i \in DOMAIN t : Cont!FrameOK(t[i])
  BY <1>3 DEF Cont!StackOK
<1>6. \A i, j \in DOMAIN t : t[i].key = t[j].key => i = j
  BY <1>3 DEF Cont!StackOK
<1>7. ASSUME NEW i \in DOMAIN t, i + 1 \in DOMAIN t PROVE t[i + 1].key \in Cont!Needs(t[i].key)
  <2>1. CASE i + 1 = n + 1
    <3>1. i = n /\ t[i] = s[n] /\ t[i + 1] = f /\ n # 0
      BY <1>1, <2>1
    <3> QED
      BY <1>2, <3>1 DEF n
  <2>2. CASE i + 1 # n + 1
    <3>1. i \in DOMAIN s /\ i + 1 \in DOMAIN s /\ t[i] = s[i] /\ t[i + 1] = s[i + 1]
      BY <1>1, <1>7, <2>2
    <3> QED
      BY <3>1 DEF Cont!StackOK
  <2> QED
    BY <2>1, <2>2
<1>8. Cont!Entered(t) = Cont!Entered(s)
  BY <1>3, <1>4 DEF Cont!Entered
<1> QED
  BY <1>1, <1>5, <1>6, <1>7, <1>8 DEF Cont!StackOK, t

\* A resolution that ends: its frame leaves the stack, and its once, if it is inside one.
LEMMA StackPop ==
  ASSUME NEW s \in Seq(Cont!Frames), s # <<>>, Cont!StackOK(s)
  PROVE  LET t == SubSeq(s, 1, Len(s) - 1)  f == s[Len(s)] IN
         /\ t \in Seq(Cont!Frames) /\ Cont!StackOK(t) /\ f \in Cont!Frames /\ Cont!FrameOK(f)
         /\ f.inside => f.prov \in Cont!Entered(s) /\ Cont!Entered(t) = Cont!Entered(s) \ {f.prov}
         /\ ~f.inside => Cont!Entered(t) = Cont!Entered(s)
<1> DEFINE t == SubSeq(s, 1, Len(s) - 1)  f == s[Len(s)]  n == Len(s)
<1>0. n \in Nat /\ n # 0 /\ DOMAIN s = 1 .. n
  OBVIOUS
<1>1. t \in Seq(Cont!Frames) /\ DOMAIN t = 1 .. n - 1 /\ \A i \in 1 .. n - 1 : t[i] = s[i]
  BY <1>0
<1>2. f = s[n] /\ n \in DOMAIN s /\ f \in Cont!Frames
  BY <1>0
<1> HIDE DEF t, n, f
<1>3. \A i \in DOMAIN s : (i = n /\ s[i] = f) \/ (i \in DOMAIN t /\ t[i] = s[i])
  BY <1>0, <1>1, <1>2
<1>4. \A i \in DOMAIN t : i \in DOMAIN s /\ t[i] = s[i] /\ i # n
  BY <1>0, <1>1
<1>5. \A i \in DOMAIN t : i + 1 \in DOMAIN t => i + 1 \in DOMAIN s
  BY <1>4
<1>6. Cont!StackOK(t) /\ Cont!FrameOK(f)
  BY <1>2, <1>4, <1>5 DEF Cont!StackOK
<1>7. ASSUME f.inside PROVE f.prov \in Cont!Entered(s) /\ Cont!Entered(t) = Cont!Entered(s) \ {f.prov}
  <2>1. \A i \in DOMAIN t : t[i].prov # f.prov
    BY <1>2, <1>4 DEF Cont!StackOK, Cont!FrameOK
  <2> QED
    BY <1>2, <1>3, <1>4, <1>7, <2>1 DEF Cont!Entered
<1>8. ASSUME ~f.inside PROVE Cont!Entered(t) = Cont!Entered(s)
  BY <1>3, <1>4, <1>8 DEF Cont!Entered
<1> QED
  BY <1>1, <1>2, <1>6, <1>7, <1>8 DEF t, f, n

\* A step within a resolution changes the top frame only.
LEMMA StackTop ==
  ASSUME NEW s \in Seq(Cont!Frames), s # <<>>, Cont!StackOK(s), NEW f \in Cont!Frames, NEW old, old = s[Len(s)], Cont!FrameOK(f),
         f.key = old.key, f.prov = old.prov
  PROVE  LET t == [s EXCEPT ![Len(s)] = f] IN
         /\ t \in Seq(Cont!Frames) /\ t # <<>> /\ Len(t) = Len(s) /\ t[Len(t)] = f /\ Cont!StackOK(t)
         /\ {t[i].key : i \in DOMAIN t} = {s[i].key : i \in DOMAIN s}
         /\ (f.inside <=> old.inside) => Cont!Entered(t) = Cont!Entered(s)
         /\ f.inside => Cont!Entered(t) = Cont!Entered(s) \cup {f.prov}
<1> DEFINE t == [s EXCEPT ![Len(s)] = f]  n == Len(s)
<1>0. n \in Nat /\ n # 0 /\ DOMAIN s = 1 .. n /\ n \in DOMAIN s
  OBVIOUS
<1>1. t \in Seq(Cont!Frames) /\ Len(t) = n /\ DOMAIN t = DOMAIN s /\ \A i \in DOMAIN s : t[i] = IF i = n THEN f ELSE s[i]
  BY <1>0, ExceptSeq
<1>2. old = s[n] /\ t # <<>> /\ t[n] = f
  BY <1>0, <1>1 DEF n
<1> HIDE DEF t, n
<1>3. \A i \in DOMAIN t : t[i].key = s[i].key /\ t[i].prov = s[i].prov /\ Cont!FrameOK(t[i])
  BY <1>1, <1>2 DEF Cont!StackOK
<1>4. Cont!StackOK(t)
  BY <1>1, <1>3 DEF Cont!StackOK
<1>5. {t[i].key : i \in DOMAIN t} = {s[i].key : i \in DOMAIN s}
  BY <1>1, <1>3
<1>6. (f.inside <=> old.inside) => Cont!Entered(t) = Cont!Entered(s)
  <2> SUFFICES ASSUME f.inside <=> old.inside PROVE Cont!Entered(t) = Cont!Entered(s)
    OBVIOUS
  <2>1. \A i \in DOMAIN t : t[i].inside <=> s[i].inside
    BY <1>1, <1>2
  <2> QED
    BY <1>1, <1>3, <2>1 DEF Cont!Entered
<1>7. f.inside => Cont!Entered(t) = Cont!Entered(s) \cup {f.prov}
  <2> SUFFICES ASSUME f.inside PROVE Cont!Entered(t) = Cont!Entered(s) \cup {f.prov}
    OBVIOUS
  <2>1. \A i \in DOMAIN t : t[i].inside <=> s[i].inside \/ i = n
    BY <1>1
  <2>2. n \in DOMAIN t /\ t[n].prov = f.prov
    BY <1>0, <1>1
  <2> QED
    BY <1>1, <1>3, <2>1, <2>2 DEF Cont!Entered
<1> QED
  BY <1>1, <1>2, <1>4, <1>5, <1>6, <1>7 DEF t, n

\* The frame of a key that a container can resolve.
LEMMA FrameMade ==
  ASSUME Cont!ContType, NEW c \in Cont!Containers, NEW k \in Keys, Cont!lookup(c, k) # "none"
  PROVE  /\ Cont!Frame(c, k) \in Cont!Frames /\ Cont!FrameOK(Cont!Frame(c, k)) /\ Cont!Frame(c, k).key = k /\ ~Cont!Frame(c, k).inside
<1> DEFINE o == Cont!lookup(c, k)  f == Cont!Frame(c, k)
<1>1. o \in Cont!Containers
  BY DEF Cont!lookup, Cont!Containers
<1>2. v1[o][k] \in 0 .. MaxBinds
  <2>1. v1[o][k] \in Nat /\ v1[o][k] <= v8 /\ v8 \in Nat /\ v8 <= MaxBinds
    BY <1>1, ContAssumption DEF Cont!ContType
  <2> QED
    BY <2>1, ContAssumption
<1>3. Cont!factoryArg(c, o, k) \in Cont!Containers /\ (Kind[o][k] = "singleton" => Cont!factoryArg(c, o, k) = o)
  BY <1>1 DEF Cont!factoryArg
<1>4. <<o, k, v1[o][k]>> \in Cont!Providers
  BY <1>1, <1>2 DEF Cont!Providers
<1>5. f = [key |-> k, owner |-> o, prov |-> <<o, k, v1[o][k]>>, ctx |-> Cont!factoryArg(c, o, k), next |-> 1, inside |-> FALSE]
  BY DEF Cont!Frame
<1> HIDE DEF o, f
<1>6. f \in Cont!Frames /\ f.key = k /\ f.owner = o /\ f.prov = <<o, k, v1[o][k]>> /\ f.ctx = Cont!factoryArg(c, o, k) /\ ~f.inside /\ f.next = 1
  BY <1>1, <1>3, <1>4, <1>5 DEF Cont!Frames
<1>7. Cont!FrameOK(f)
  BY <1>3, <1>6 DEF Cont!FrameOK, Cont!KindOf
<1> QED
  BY <1>6, <1>7 DEF f

\* Every step of the container preserves the invariant.
LEMMA ContStep == Cont!ContInv /\ [Cont!Next]_Cont!conVars => Cont!ContInv'
<1> SUFFICES ASSUME Cont!ContInv, [Cont!Next]_Cont!conVars PROVE Cont!ContInv'
  OBVIOUS
<1>0. /\ Cont!ContType /\ (\A g \in Goroutines : Cont!StackOK(v2[g])) /\ v2 \in [Goroutines -> Seq(Cont!Frames)]
      /\ v4 \in [Cont!Providers -> Goroutines \cup {"new", "done"}]
      /\ (\A g \in Goroutines, p \in Cont!Providers : v4[p] = g <=> p \in Cont!Entered(v2[g]))
      /\ \A p \in Cont!Providers : p[1] = "root" => "scope" \notin v6[p]
  BY DEF Cont!ContInv, Cont!ContType
\* The stack of g becomes t, with the same factories entered.
<1>s. ASSUME NEW g \in Goroutines, NEW t \in Seq(Cont!Frames), Cont!StackOK(t), v2' = [v2 EXCEPT ![g] = t],
             Cont!Entered(t) = Cont!Entered(v2[g]), UNCHANGED <<v1, v4, v6, v8>>
      PROVE  Cont!ContInv'
  <2>1. v2' \in [Goroutines -> Seq(Cont!Frames)] /\ \A h \in Goroutines : v2'[h] = IF h = g THEN t ELSE v2[h]
    BY <1>0, <1>s
  <2>2. Cont!ContType'
    BY <1>0, <1>s, <2>1 DEF Cont!ContType
  <2>3. \A h \in Goroutines : Cont!StackOK(v2'[h]) /\ Cont!Entered(v2'[h]) = Cont!Entered(v2[h])
    BY <1>0, <1>s, <2>1
  <2> QED
    BY <1>0, <1>s, <2>2, <2>3 DEF Cont!ContInv
\* What a goroutine with frames has on top.
<1>t. ASSUME NEW g \in Goroutines, v2[g] # Cont!idle
      PROVE  /\ v2[g] \in Seq(Cont!Frames) /\ v2[g] # <<>> /\ Cont!Top(g) = v2[g][Len(v2[g])]
             /\ Cont!Top(g) \in Cont!Frames /\ Cont!FrameOK(Cont!Top(g))
             /\ Cont!Top(g).inside => Cont!Top(g).prov \in Cont!Entered(v2[g])
  <2>1. v2[g] \in Seq(Cont!Frames) /\ v2[g] # <<>> /\ Cont!StackOK(v2[g])
    BY <1>0, <1>t DEF Cont!idle
  <2> QED
    BY <2>1, StackPop DEF Cont!Top
<1>1. ASSUME NEW g \in Goroutines, Cont!Make(g) PROVE Cont!ContInv'
  <2>1. PICK c \in Cont!Containers, k \in Keys : Cont!enter(g, c, k)
    BY <1>1 DEF Cont!Make
  <2>2. v2[g] = <<>> /\ v2[g] \in Seq(Cont!Frames) /\ Cont!StackOK(v2[g]) /\ UNCHANGED <<v1, v4, v6, v8>>
    BY <1>0, <1>1 DEF Cont!Make, Cont!idle
  <2>3. CASE v2' = v2
    <3>1. v2' = [v2 EXCEPT ![g] = v2[g]]
      BY <1>0, <2>3
    <3> QED
      BY <1>s, <2>2, <3>1
  <2>4. CASE Cont!lookup(c, k) # "none" /\ v2' = [v2 EXCEPT ![g] = Append(v2[g], Cont!Frame(c, k))]
    <3> DEFINE f == Cont!Frame(c, k)  t == Append(v2[g], f)
    <3>1. f \in Cont!Frames /\ Cont!FrameOK(f) /\ ~f.inside
      BY <1>0, <2>4, FrameMade
    <3> HIDE DEF f
    <3>2. t \in Seq(Cont!Frames) /\ Cont!StackOK(t) /\ Cont!Entered(t) = Cont!Entered(v2[g])
      <4>1. DOMAIN v2[g] = {}
        BY <2>2
      <4> QED
        BY <2>2, <3>1, <4>1, StackPush
    <3>3. v2' = [v2 EXCEPT ![g] = t]
      BY <2>4 DEF f
    <3> HIDE DEF t
    <3> QED
      BY <1>s, <2>2, <3>2, <3>3
  <2> QED
    BY <2>1, <2>3, <2>4 DEF Cont!enter
<1>2. ASSUME NEW c \in Cont!Containers, NEW k \in Keys, Cont!register(c, k) PROVE Cont!ContInv'
  <2>1. /\ v1' = [v1 EXCEPT ![c][k] = v1[c][k] + 1] /\ v8' = v8 + 1 /\ v8 < MaxBinds
        /\ UNCHANGED <<v2, v4, v6>>
    BY <1>2 DEF Cont!register
  <2>2. v1 \in [Cont!Containers -> [Keys -> Nat]] /\ v8 \in Nat /\ \A d \in Cont!Containers, j \in Keys : v1[d][j] <= v8
    BY <1>0, ContAssumption DEF Cont!ContType
  <2>3. v1' \in [Cont!Containers -> [Keys -> Nat]]
        /\ \A d \in Cont!Containers, j \in Keys : v1'[d][j] = IF d = c /\ j = k THEN v1[d][j] + 1 ELSE v1[d][j]
    BY <2>1, <2>2
  <2>4. \A d \in Cont!Containers, j \in Keys : v1'[d][j] <= v8'
    <3> SUFFICES ASSUME NEW d \in Cont!Containers, NEW j \in Keys PROVE v1'[d][j] <= v8'
      OBVIOUS
    <3>1. PICK n \in Nat : n = v1[d][j] /\ n <= v8
      BY <2>2
    <3> QED
      BY <2>1, <2>2, <2>3, <3>1
  <2>5. v8' \in 0 .. MaxBinds
    BY <2>1, <2>2, ContAssumption
  <2>6. Cont!ContType'
    BY <1>0, <2>1, <2>3, <2>4, <2>5 DEF Cont!ContType
  <2> QED
    BY <1>0, <2>1, <2>6 DEF Cont!ContInv
\* g returns from its innermost frame, with or without leaving a factory of a singleton.
<1>r. ASSUME NEW g \in Goroutines, v2[g] # Cont!idle, v2' = [v2 EXCEPT ![g] = SubSeq(v2[g], 1, Len(v2[g]) - 1)],
             UNCHANGED <<v1, v8>>
      PROVE  /\ ~Cont!Top(g).inside /\ UNCHANGED <<v4, v6>> => Cont!ContInv'
             /\ \A u \in SUBSET {"root", "scope", "none"} :
                   /\ Cont!Top(g).inside /\ v4' = [v4 EXCEPT ![Cont!Top(g).prov] = "done"]
                   /\ v6' = [v6 EXCEPT ![Cont!Top(g).prov] = u] /\ (Cont!Top(g).prov[1] = "root" => "scope" \notin u)
                   => Cont!ContInv'
  <2> DEFINE t == SubSeq(v2[g], 1, Len(v2[g]) - 1)
  <2>1. /\ v2[g] \in Seq(Cont!Frames) /\ v2[g] # <<>> /\ Cont!StackOK(v2[g]) /\ Cont!Top(g) = v2[g][Len(v2[g])]
        /\ Cont!Top(g) \in Cont!Frames
    BY <1>0, <1>r, <1>t
  <2>2. PICK f \in Cont!Frames : f = Cont!Top(g)
    BY <2>1
  <2>3. /\ t \in Seq(Cont!Frames) /\ Cont!StackOK(t)
        /\ f.inside => f.prov \in Cont!Entered(v2[g]) /\ Cont!Entered(t) = Cont!Entered(v2[g]) \ {f.prov}
        /\ ~f.inside => Cont!Entered(t) = Cont!Entered(v2[g])
    BY <2>1, <2>2, StackPop
  <2> HIDE DEF t
  <2>4. v2' = [v2 EXCEPT ![g] = t]
    BY <1>r DEF t
  <2>5. ~f.inside /\ UNCHANGED <<v4, v6>> => Cont!ContInv'
    BY <1>r, <1>s, <2>3, <2>4
  <2>6. ASSUME NEW u \in SUBSET {"root", "scope", "none"}, f.inside, v4' = [v4 EXCEPT ![f.prov] = "done"],
               v6' = [v6 EXCEPT ![f.prov] = u], f.prov[1] = "root" => "scope" \notin u
        PROVE  Cont!ContInv'
    <3>1. v2' \in [Goroutines -> Seq(Cont!Frames)] /\ \A h \in Goroutines : v2'[h] = IF h = g THEN t ELSE v2[h]
      BY <1>0, <2>3, <2>4
    <3>2. f.prov \in Cont!Providers /\ v4[f.prov] = g
      BY <1>0, <2>3, <2>6 DEF Cont!Frames
    <3>3. /\ v4' \in [Cont!Providers -> Goroutines \cup {"new", "done"}]
          /\ \A p \in Cont!Providers : v4'[p] = IF p = f.prov THEN "done" ELSE v4[p]
      BY <1>0, <2>6, <3>2
    <3>4. /\ v6' \in [Cont!Providers -> SUBSET {"root", "scope", "none"}]
          /\ \A p \in Cont!Providers : v6'[p] = IF p = f.prov THEN u ELSE v6[p]
      BY <1>0, <2>6, <3>2 DEF Cont!ContType
    <3>5. Cont!ContType'
      BY <1>0, <1>r, <3>1, <3>3, <3>4 DEF Cont!ContType
    <3>6. \A h \in Goroutines, p \in Cont!Providers : v4'[p] = h <=> p \in Cont!Entered(v2'[h])
      <4> SUFFICES ASSUME NEW h \in Goroutines, NEW p \in Cont!Providers PROVE v4'[p] = h <=> p \in Cont!Entered(v2'[h])
        OBVIOUS
      <4>0. h # "done" /\ (v4[p] = h <=> p \in Cont!Entered(v2[h]))
        BY <1>0, ContAssumption
      <4>1. CASE h = g
        <5>1. v2'[h] = t
          BY <3>1, <4>1
        <5>2. p \in Cont!Entered(t) <=> p \in Cont!Entered(v2[h]) /\ p # f.prov
          BY <2>3, <2>6, <4>1
        <5> QED
          BY <3>3, <4>0, <5>1, <5>2
      <4>2. CASE h # g
        <5>1. v2'[h] = v2[h]
          BY <3>1, <4>2
        <5> QED
          BY <3>2, <3>3, <4>0, <4>2, <5>1
      <4> QED
        BY <4>1, <4>2
    <3>7. \A h \in Goroutines : Cont!StackOK(v2'[h])
      BY <1>0, <2>3, <3>1
    <3>8. \A p \in Cont!Providers : p[1] = "root" => "scope" \notin v6'[p]
      BY <1>0, <2>6, <3>4
    <3> QED
      BY <3>5, <3>6, <3>7, <3>8 DEF Cont!ContInv
  <2> QED
    BY <2>2, <2>5, <2>6
<1>3. ASSUME NEW g \in Goroutines, Cont!Cached(g) PROVE Cont!ContInv'
  <2>1. /\ v2[g] # Cont!idle /\ UNCHANGED <<v1, v8, v4, v6>>
        /\ v2' = [v2 EXCEPT ![g] = SubSeq(v2[g], 1, Len(v2[g]) - 1)]
    BY <1>3 DEF Cont!Cached, Cont!return
  <2>2. Cont!KindOf(Cont!Top(g)) = "instance" \/ v4[Cont!Top(g).prov] = "done"
    BY <1>3 DEF Cont!Cached
  <2>3. ~Cont!Top(g).inside
    <3>1. Cont!Top(g) \in Cont!Frames /\ Cont!FrameOK(Cont!Top(g)) /\ (Cont!Top(g).inside => Cont!Top(g).prov \in Cont!Entered(v2[g]))
      BY <1>t, <2>1
    <3>2. ASSUME Cont!Top(g).inside PROVE FALSE
      <4>1. Cont!Top(g).prov \in Cont!Providers /\ v4[Cont!Top(g).prov] = g /\ Cont!KindOf(Cont!Top(g)) = "singleton"
        BY <1>0, <3>1, <3>2 DEF Cont!Frames, Cont!FrameOK
      <4> QED
        BY <2>2, <4>1, ContAssumption
    <3> QED
      BY <3>2
  <2> QED
    BY <1>r, <2>1, <2>3
<1>4. ASSUME NEW g \in Goroutines, Cont!onceDo(g) PROVE Cont!ContInv'
  <2>1. PICK f \in Cont!Frames : f = Cont!Top(g)
    BY <1>4, <1>t DEF Cont!onceDo
  <2> DEFINE m == [f EXCEPT !.inside = TRUE]  s == v2[g]  t == [s EXCEPT ![Len(s)] = m]
  <2>2. s \in Seq(Cont!Frames) /\ s # <<>> /\ Cont!StackOK(s) /\ f = s[Len(s)] /\ Cont!FrameOK(f)
    BY <1>0, <1>4, <1>t, <2>1 DEF Cont!onceDo
  <2>3. /\ v2' = [v2 EXCEPT ![g] = t] /\ v4' = [v4 EXCEPT ![f.prov] = g] /\ Cont!KindOf(f) = "singleton" /\ v4[f.prov] = "new"
        /\ UNCHANGED <<v1, v6, v8>>
    BY <1>4, <2>1 DEF Cont!onceDo, Cont!withTop, Cont!mayRun
  <2>4. m \in Cont!Frames /\ m.key = f.key /\ m.prov = f.prov /\ m.owner = f.owner /\ m.ctx = f.ctx /\ m.inside /\ m.next = f.next
    BY DEF Cont!Frames
  <2>5. Cont!FrameOK(m)
    BY <2>2, <2>3, <2>4 DEF Cont!FrameOK, Cont!KindOf
  <2> HIDE DEF m
  <2>6. t \in Seq(Cont!Frames) /\ Cont!StackOK(t) /\ Cont!Entered(t) = Cont!Entered(s) \cup {f.prov}
    BY <2>2, <2>4, <2>5, StackTop
  <2> HIDE DEF t
  <2>7. v2' \in [Goroutines -> Seq(Cont!Frames)] /\ \A h \in Goroutines : v2'[h] = IF h = g THEN t ELSE v2[h]
    BY <1>0, <2>3, <2>6
  <2>8. f.prov \in Cont!Providers
    BY DEF Cont!Frames
  <2>9. /\ v4' \in [Cont!Providers -> Goroutines \cup {"new", "done"}]
        /\ \A p \in Cont!Providers : v4'[p] = IF p = f.prov THEN g ELSE v4[p]
    BY <1>0, <2>3, <2>8
  <2>10. Cont!ContType'
    BY <1>0, <2>3, <2>7, <2>9 DEF Cont!ContType
  <2>11. \A h \in Goroutines, p \in Cont!Providers : v4'[p] = h <=> p \in Cont!Entered(v2'[h])
    <3> SUFFICES ASSUME NEW h \in Goroutines, NEW p \in Cont!Providers PROVE v4'[p] = h <=> p \in Cont!Entered(v2'[h])
      OBVIOUS
    <3>0. v4[p] = h <=> p \in Cont!Entered(v2[h])
      BY <1>0
    <3>1. CASE h = g
      BY <2>6, <2>7, <2>9, <3>0, <3>1
    <3>2. CASE h # g
      <4>1. v2'[h] = v2[h] /\ h # "new"
        BY <2>7, <3>2, ContAssumption
      <4> QED
        BY <2>3, <2>9, <3>0, <3>2, <4>1
    <3> QED
      BY <3>1, <3>2
  <2>12. \A h \in Goroutines : Cont!StackOK(v2'[h])
    BY <1>0, <2>6, <2>7
  <2> QED
    BY <1>0, <2>3, <2>10, <2>11, <2>12 DEF Cont!ContInv
<1>5. ASSUME NEW g \in Goroutines, Cont!factory(g) PROVE Cont!ContInv'
  <2>0. v2[g] # Cont!idle
    BY <1>5 DEF Cont!factory, Cont!Running
  <2>1. PICK f \in Cont!Frames : f = Cont!Top(g)
    BY <1>t, <2>0
  <2> DEFINE s == v2[g]  m == [f EXCEPT !.next = f.next + 1]  t == [s EXCEPT ![Len(s)] = m]  d == Deps[f.owner][f.key][f.next]
  <2>2. s \in Seq(Cont!Frames) /\ s # <<>> /\ Cont!StackOK(s) /\ f = s[Len(s)] /\ Cont!FrameOK(f)
    BY <1>0, <1>t, <2>0, <2>1
  <2>3. /\ UNCHANGED <<v1, v4, v6, v8>> /\ f.next <= Len(Deps[f.owner][f.key])
        /\ \/ v2' = [v2 EXCEPT ![g] = t]
           \/ /\ Cont!lookup(f.ctx, d) # "none" /\ ~Cont!isCyclic(g, d)
              /\ v2' = [v2 EXCEPT ![g] = Append(t, Cont!Frame(f.ctx, d))]
    BY <1>5, <2>1 DEF Cont!factory, Cont!withTop
  <2>4. m \in Cont!Frames /\ m.key = f.key /\ m.prov = f.prov /\ m.owner = f.owner /\ m.ctx = f.ctx /\ m.inside = f.inside /\ m.next >= 1
    BY DEF Cont!Frames
  <2>5. Cont!FrameOK(m)
    BY <2>2, <2>4 DEF Cont!FrameOK, Cont!KindOf
  <2> HIDE DEF m
  <2>6. /\ t \in Seq(Cont!Frames) /\ t # <<>> /\ t[Len(t)] = m /\ Cont!StackOK(t) /\ Cont!Entered(t) = Cont!Entered(s)
        /\ {t[i].key : i \in DOMAIN t} = {s[i].key : i \in DOMAIN s}
    BY <2>2, <2>4, <2>5, StackTop
  <2> HIDE DEF t
  <2>7. CASE v2' = [v2 EXCEPT ![g] = t]
    BY <1>s, <2>3, <2>6, <2>7
  <2>8. CASE /\ Cont!lookup(f.ctx, d) # "none" /\ ~Cont!isCyclic(g, d)
             /\ v2' = [v2 EXCEPT ![g] = Append(t, Cont!Frame(f.ctx, d))]
    <3>1. f.owner \in Cont!Containers /\ f.key \in Keys /\ f.ctx \in Cont!Containers /\ f.next \in Nat
      BY DEF Cont!Frames
    <3>2. PICK ds \in Seq(Keys) : ds = Deps[f.owner][f.key]
      BY <3>1, ContAssumption DEF Cont!Containers
    <3>3. d \in Keys /\ d \in Cont!Needs(f.key)
      <4>1. f.next >= 1
        BY <2>2 DEF Cont!FrameOK
      <4>2. f.next \in DOMAIN ds
        BY <2>3, <3>1, <3>2, <4>1
      <4> QED
        BY <3>1, <3>2, <4>2 DEF Cont!Needs
    <3> DEFINE n == Cont!Frame(f.ctx, d)  w == Append(t, n)
    <3> HIDE DEF d
    <3>4. n \in Cont!Frames /\ Cont!FrameOK(n) /\ n.key = d /\ ~n.inside
      BY <1>0, <2>8, <3>1, <3>3, FrameMade
    <3> HIDE DEF n
    <3>5. \A i \in DOMAIN t : t[i].key # d
      <4>1. d \notin {s[i].key : i \in DOMAIN s}
        BY <2>8 DEF Cont!isCyclic
      <4> QED
        BY <2>6, <4>1
    <3>6. w \in Seq(Cont!Frames) /\ Cont!StackOK(w) /\ Cont!Entered(w) = Cont!Entered(t)
      BY <2>4, <2>6, <3>3, <3>4, <3>5, StackPush
    <3>7. v2' = [v2 EXCEPT ![g] = w]
      BY <2>8 DEF n
    <3> HIDE DEF w
    <3> QED
      BY <1>s, <2>3, <2>6, <3>6, <3>7
  <2> QED
    BY <2>3, <2>7, <2>8
<1>6. ASSUME NEW g \in Goroutines, Cont!factoryReturns(g) PROVE Cont!ContInv'
  <2>0. v2[g] # Cont!idle
    BY <1>6 DEF Cont!factoryReturns, Cont!Running
  <2>1. PICK f \in Cont!Frames : f = Cont!Top(g)
    BY <1>t, <2>0
  <2>2. v2' = [v2 EXCEPT ![g] = SubSeq(v2[g], 1, Len(v2[g]) - 1)] /\ UNCHANGED <<v1, v8>>
    BY <1>6 DEF Cont!factoryReturns, Cont!return
  <2>3. CASE ~f.inside
    <3>1. UNCHANGED <<v4, v6>>
      BY <1>6, <2>1, <2>3 DEF Cont!factoryReturns
    <3> QED
      BY <1>r, <2>0, <2>1, <2>2, <2>3, <3>1
  <2>4. CASE f.inside
    <3> DEFINE deps == Deps[f.owner][f.key]  u == {Cont!lookup(f.ctx, deps[i]) : i \in DOMAIN deps}
    <3>1. v4' = [v4 EXCEPT ![f.prov] = "done"] /\ v6' = [v6 EXCEPT ![f.prov] = u]
      BY <1>6, <2>1, <2>4 DEF Cont!factoryReturns, Cont!onceAfter
    <3>2. Cont!FrameOK(f) /\ f.ctx \in Cont!Containers /\ f.owner \in Cont!Containers
      BY <1>t, <2>0, <2>1 DEF Cont!Frames
    <3>3. \A x : Cont!lookup(f.ctx, x) \in {"root", "scope", "none"} /\ (f.ctx = "root" => Cont!lookup(f.ctx, x) # "scope")
      BY <3>2 DEF Cont!lookup, Cont!Containers
    <3>4. u \in SUBSET {"root", "scope", "none"} /\ (f.ctx = "root" => "scope" \notin u)
      BY <3>3
    <3>5. f.prov[1] = "root" => f.ctx = "root"
      BY <2>4, <3>2 DEF Cont!FrameOK
    <3> HIDE DEF u
    <3> QED
      BY <1>r, <2>0, <2>1, <2>2, <2>4, <3>1, <3>4, <3>5
  <2> QED
    BY <2>3, <2>4
<1>7. ASSUME NEW g \in Goroutines, Cont!Panic(g) PROVE Cont!ContInv'
  <2> DEFINE ps == Cont!Entered(v2[g])
  <2>1. /\ v4' = [p \in Cont!Providers |-> IF p \in ps THEN "done" ELSE v4[p]] /\ v2' = [v2 EXCEPT ![g] = <<>>]
        /\ UNCHANGED <<v1, v6, v8>>
    BY <1>7 DEF Cont!Panic, Cont!Entered, Cont!idle
  <2> HIDE DEF ps
  <2>2. <<>> \in Seq(Cont!Frames) /\ Cont!StackOK(<<>>) /\ Cont!Entered(<<>>) = {}
    <3>1. DOMAIN <<>> = {} /\ <<>> \in Seq(Cont!Frames)
      OBVIOUS
    <3> QED
      BY <3>1 DEF Cont!StackOK, Cont!Entered
  <2>3. v2' \in [Goroutines -> Seq(Cont!Frames)] /\ \A h \in Goroutines : v2'[h] = IF h = g THEN <<>> ELSE v2[h]
    BY <1>0, <2>1, <2>2
  <2>4. /\ v4' \in [Cont!Providers -> Goroutines \cup {"new", "done"}]
        /\ \A p \in Cont!Providers : v4'[p] = IF p \in ps THEN "done" ELSE v4[p]
    BY <1>0, <2>1
  <2>5. Cont!ContType'
    BY <1>0, <2>1, <2>3, <2>4 DEF Cont!ContType
  <2>6. \A h \in Goroutines, p \in Cont!Providers : v4'[p] = h <=> p \in Cont!Entered(v2'[h])
    <3> SUFFICES ASSUME NEW h \in Goroutines, NEW p \in Cont!Providers PROVE v4'[p] = h <=> p \in Cont!Entered(v2'[h])
      OBVIOUS
    <3>0. h # "done" /\ (v4[p] = h <=> p \in Cont!Entered(v2[h])) /\ (v4[p] = g <=> p \in ps)
      BY <1>0, ContAssumption DEF ps
    <3>1. CASE h = g
      <4>1. p \notin Cont!Entered(v2'[h])
        BY <2>2, <2>3, <3>1
      <4> QED
        BY <2>4, <3>0, <3>1, <4>1
    <3>2. CASE h # g
      <4>1. v2'[h] = v2[h]
        BY <2>3, <3>2
      <4> QED
        BY <2>4, <3>0, <3>2, <4>1
    <3> QED
      BY <3>1, <3>2
  <2>7. \A h \in Goroutines : Cont!StackOK(v2'[h])
    BY <1>0, <2>2, <2>3
  <2> QED
    BY <1>0, <2>1, <2>5, <2>6, <2>7 DEF Cont!ContInv
<1>8. CASE UNCHANGED Cont!conVars
  BY <1>8 DEF Cont!conVars, Cont!ContInv, Cont!ContType
<1> QED
  BY <1>1, <1>2, <1>3, <1>4, <1>5, <1>6, <1>7, <1>8 DEF Cont!Next

\* A frame of a stack needs, directly or through others, the frames above it.
LEMMA StackReaches ==
  ASSUME NEW s \in Seq(Cont!Frames), Cont!StackOK(s), NEW i \in DOMAIN s, NEW j \in DOMAIN s, i < j
  PROVE  Cont!Reaches(s[i].key, s[j].key)
<1>0. Len(s) \in Nat /\ DOMAIN s = 1 .. Len(s)
  OBVIOUS
<1> SUFFICES ASSUME NEW S \in SUBSET Keys, Cont!Needs(s[i].key) \subseteq S, \A x \in S : Cont!Needs(x) \subseteq S
             PROVE  s[j].key \in S
  BY DEF Cont!Reaches
<1> DEFINE T == {k \in Nat : i < k /\ k <= j /\ s[k].key \notin S}
<1> SUFFICES ASSUME T # {} PROVE FALSE
  BY <1>0
<1>1. PICK k \in T : \A y \in T : k <= y
  <2>1. T \in SUBSET Nat
    OBVIOUS
  <2> HIDE DEF T
  <2> QED
    BY <2>1, LeastNat
<1>2. k \in Nat /\ i < k /\ k <= j /\ s[k].key \notin S /\ i \in Nat /\ j \in Nat
  BY <1>0, <1>1
<1>3. k - 1 \in DOMAIN s /\ (k - 1) + 1 \in DOMAIN s /\ (k - 1) + 1 = k
  BY <1>0, <1>2
<1>4. s[k].key \in Cont!Needs(s[k - 1].key)
  BY <1>3 DEF Cont!StackOK
<1>5. CASE k - 1 = i
  BY <1>2, <1>4, <1>5
<1>6. CASE k - 1 # i
  <2>1. k - 1 \notin T
    BY <1>1, <1>2
  <2>2. s[k - 1].key \in S
    BY <1>2, <1>6, <2>1
  <2> QED
    BY <1>2, <1>4, <2>2
<1> QED
  BY <1>5, <1>6

\* The invariant of the container implies the properties.
LEMMA ContSafe == Cont!ContInv => Cont!NoSelfDeadlock /\ Cont!OneFactoryRun /\ Cont!NoCaptiveDependency /\ Cont!DeadlockNeedsCycle
<1> SUFFICES ASSUME Cont!ContInv PROVE Cont!NoSelfDeadlock /\ Cont!OneFactoryRun /\ Cont!NoCaptiveDependency /\ Cont!DeadlockNeedsCycle
  OBVIOUS
<1>0. /\ (\A g \in Goroutines : v2[g] \in Seq(Cont!Frames) /\ Cont!StackOK(v2[g]))
      /\ (\A g \in Goroutines, p \in Cont!Providers : v4[p] = g <=> p \in Cont!Entered(v2[g]))
  BY DEF Cont!ContInv, Cont!ContType
\* A goroutine h that g waits for is inside the factory of g's innermost frame.
<1>1. ASSUME NEW g \in Goroutines, NEW h \in Goroutines, Cont!WaitsFor(g) = h
      PROVE  /\ v2[g] # <<>> /\ ~Cont!Top(g).inside
             /\ \E i \in DOMAIN v2[h] : v2[h][i].inside /\ v2[h][i].prov = Cont!Top(g).prov /\ v2[h][i].key = Cont!Top(g).key
  <2>1. v2[g] # <<>> /\ ~Cont!Top(g).inside /\ v4[Cont!Top(g).prov] = h
    BY <1>1, ContAssumption DEF Cont!WaitsFor, Cont!idle
  <2>2. Cont!Top(g) \in Cont!Frames /\ Cont!FrameOK(Cont!Top(g))
    BY <1>0, <2>1, StackPop DEF Cont!Top
  <2>3. Cont!Top(g).prov \in Cont!Entered(v2[h])
    BY <1>0, <2>1, <2>2 DEF Cont!Frames
  <2>4. PICK i \in DOMAIN v2[h] : v2[h][i].inside /\ v2[h][i].prov = Cont!Top(g).prov
    BY <2>3 DEF Cont!Entered
  <2>5. Cont!FrameOK(v2[h][i])
    BY <1>0 DEF Cont!StackOK
  <2> QED
    BY <2>1, <2>2, <2>4, <2>5 DEF Cont!FrameOK
<1>2. Cont!NoSelfDeadlock
  <2> SUFFICES ASSUME NEW g \in Goroutines, Cont!WaitsFor(g) = g PROVE FALSE
    BY DEF Cont!NoSelfDeadlock
  <2>1. v2[g] \in Seq(Cont!Frames) /\ v2[g] # <<>> /\ ~Cont!Top(g).inside /\ Cont!StackOK(v2[g])
    BY <1>0, <1>1
  <2>2. PICK i \in DOMAIN v2[g] : v2[g][i].inside /\ v2[g][i].key = Cont!Top(g).key
    BY <1>1
  <2>3. Len(v2[g]) \in DOMAIN v2[g]
    BY <2>1
  <2> QED
    BY <2>1, <2>2, <2>3 DEF Cont!StackOK, Cont!Top
<1>3. Cont!OneFactoryRun
  <2> SUFFICES ASSUME NEW g \in Goroutines, NEW h \in Goroutines, NEW i \in DOMAIN v2[g], NEW j \in DOMAIN v2[h]
               PROVE  /\ v2[g][i].inside => v4[v2[g][i].prov] = g
                      /\ (v2[g][i].inside /\ v2[h][j].inside /\ v2[g][i].prov = v2[h][j].prov) => g = h /\ i = j
    BY DEF Cont!OneFactoryRun
  <2>1. v2[g][i] \in Cont!Frames /\ v2[h][j] \in Cont!Frames /\ Cont!FrameOK(v2[g][i]) /\ Cont!FrameOK(v2[h][j])
    BY <1>0 DEF Cont!StackOK
  <2>2. v2[g][i].prov \in Cont!Providers /\ v2[h][j].prov \in Cont!Providers
    BY <2>1 DEF Cont!Frames
  <2>3. v2[g][i].inside => v4[v2[g][i].prov] = g
    BY <1>0, <2>2 DEF Cont!Entered
  <2>4. v2[h][j].inside => v4[v2[h][j].prov] = h
    BY <1>0, <2>2 DEF Cont!Entered
  <2> QED
    BY <1>0, <2>1, <2>3, <2>4 DEF Cont!StackOK, Cont!FrameOK
<1>4. Cont!NoCaptiveDependency
  BY DEF Cont!ContInv, Cont!NoCaptiveDependency
<1>5. ASSUME NEW g \in Goroutines, NEW h \in Goroutines, Cont!WaitsFor(g) = h, Cont!WaitsFor(h) = g
      PROVE  Cont!Reaches(Cont!Top(g).key, Cont!Top(h).key)
  <2>1. v2[h] \in Seq(Cont!Frames) /\ v2[h] # <<>> /\ ~Cont!Top(h).inside /\ Cont!StackOK(v2[h])
    BY <1>0, <1>1, <1>5
  <2>2. PICK i \in DOMAIN v2[h] : v2[h][i].inside /\ v2[h][i].key = Cont!Top(g).key
    BY <1>1, <1>5
  <2>3. Len(v2[h]) \in DOMAIN v2[h] /\ Len(v2[h]) \in Nat /\ i \in 1 .. Len(v2[h]) /\ i # Len(v2[h])
    BY <2>1, <2>2 DEF Cont!Top
  <2>4. Cont!Reaches(v2[h][i].key, v2[h][Len(v2[h])].key)
    BY <2>1, <2>3, StackReaches
  <2> QED
    BY <2>2, <2>4 DEF Cont!Top
<1>6. Cont!DeadlockNeedsCycle
  BY <1>5 DEF Cont!DeadlockNeedsCycle
<1> QED
  BY <1>2, <1>3, <1>4, <1>6

-----------------------------------------------------------------------------
(***************************************************************************)
(* App, the instance App: its variables are v1 entries, v2 phase, v3 at,   *)
(* v4 provs, v5 hooks, v6 booted, v7 log, v8 boots.                        *)
(***************************************************************************)

\* The invariant of the application holds initially.
LEMMA AppStart == App!Init => App!AppInv
<1> SUFFICES ASSUME App!Init PROVE App!AppInv
  OBVIOUS
<1>1. DOMAIN v4 = {} /\ DOMAIN v5 = {} /\ DOMAIN v7 = {}
  BY DEF App!Init
<1>2. App!AppType
  <2>1. v4 \in Seq(STRING) /\ v5 \in Seq(App!Modules) /\ v7 \in Seq({"register", "boot", "mount"} \X STRING)
    BY ShortSeqs DEF App!Init
  <2>2. Len(Entries) \in Nat
    BY AppAssumption, LenProperties
  <2>3. v1 \in 0 .. Len(Entries) /\ v3 \in Nat
    BY <2>2 DEF App!Init
  <2> QED
    BY <2>1, <2>3 DEF App!Init, App!AppType
<1>3. App!Flattened /\ App!Registered /\ App!Mounted /\ App!MountedOnce /\ App!TwoPhases
  BY <1>1 DEF App!Init, App!Flattened, App!BroughtFirst, App!Registered, App!Mounted, App!MountedOnce, App!TwoPhases
<1> QED
  BY <1>2, <1>3 DEF App!AppInv

\* flatten of one entry: a module after the providers it brings.
LEMMA AppEntry ==
  ASSUME NEW i \in DOMAIN Entries
  PROVE  /\ App!providersOf(Entries[i]) \in Seq(STRING)
         /\ App!IsModule(Entries[i]) => Entries[i] \in App!Modules
         /\ App!BroughtFirst(App!providersOf(Entries[i]))
<1> DEFINE e0 == Entries[i]
<1>1. e0 \in [name : STRING] \cup [name : STRING, providers : Seq(STRING), own : BOOLEAN, hook : BOOLEAN]
  BY AppAssumption
<1>2. App!IsModule(e0) => e0 \in App!Modules
  BY DEF App!Modules
<1>3. ASSUME NEW e \in App!Modules PROVE /\ e.name = e0.name => e = e0
                                         /\ App!IsModule(e)
                                         /\ App!IsModule(e0) => \A k \in DOMAIN e0.providers : e0.providers[k] # e.name
  BY AppAssumption DEF App!Modules
<1>4. CASE ~App!IsModule(e0)
  <2>1. e0 \in [name : STRING] /\ App!providersOf(e0) = <<e0.name>>
    BY <1>1, <1>4 DEF App!IsModule, App!providersOf
  <2>2. App!providersOf(e0) \in Seq(STRING) /\ DOMAIN App!providersOf(e0) = {1} /\ App!providersOf(e0)[1] = e0.name
    BY <2>1
  <2> QED
    BY <1>2, <1>3, <1>4, <2>2 DEF App!BroughtFirst
<1>5. CASE App!IsModule(e0)
  <2>1. e0.name \in STRING /\ e0.providers \in Seq(STRING)
    BY <1>1, <1>5 DEF App!IsModule
  <2>2. PICK own \in {<<>>, <<e0.name>>} : App!providersOf(e0) = e0.providers \o own
    BY <1>5 DEF App!providersOf
  <2>3. own \in Seq(STRING) /\ (own = <<>> => Len(own) = 0)
    BY <2>1, <2>2, ShortSeqs
  <2> DEFINE ps == e0.providers  all == App!providersOf(e0)
  <2>4. ps \in Seq(STRING) /\ Len(ps) \in Nat /\ Len(own) \in 0 .. 1 /\ DOMAIN ps = 1 .. Len(ps)
    BY <2>1, <2>2
  <2>5. /\ all \in Seq(STRING) /\ DOMAIN all = 1 .. Len(ps) + Len(own)
        /\ \A k \in 1 .. Len(ps) : all[k] = ps[k]
    BY <2>2, <2>3, <2>4, ConcatProperties
  <2>6. \A k \in DOMAIN all : k \notin DOMAIN ps => k = Len(ps) + 1
    <3> HIDE DEF ps, all
    <3> SUFFICES ASSUME NEW k \in DOMAIN all, k \notin DOMAIN ps PROVE k = Len(ps) + 1
      OBVIOUS
    <3>1. k \in 1 .. Len(ps) + Len(own) /\ k \notin 1 .. Len(ps)
      BY <2>4, <2>5
    <3>2. PICK n \in Nat : n = Len(ps)
      BY <2>4
    <3>3. PICK m \in 0 .. 1 : m = Len(own)
      BY <2>4
    <3>4. k \in 1 .. n + m /\ k \notin 1 .. n
      BY <3>1, <3>2, <3>3
    <3> QED
      BY <3>2, <3>4
  <2> HIDE DEF ps, all
  <2>7. ASSUME NEW e \in App!Modules, NEW k \in DOMAIN all, e.name = all[k], NEW n \in DOMAIN e.providers
        PROVE  \E j \in 1 .. k - 1 : all[j] = e.providers[n]
    <3>1. k \notin DOMAIN ps
      BY <1>3, <1>5, <2>4, <2>5, <2>7 DEF ps
    <3>2. k = Len(ps) + 1
      BY <2>6, <3>1
    <3>3. all[k] = e0.name
      <4>1. own = <<e0.name>>
        BY <2>2, <2>4, <2>5, <3>2
      <4>2. Len(own) = 1 /\ own[1] = e0.name
        BY <4>1
      <4> QED
        BY <2>2, <2>3, <2>4, <3>2, <4>2, ConcatProperties DEF all, ps
    <3>4. e.providers = ps
      BY <1>3, <2>7, <3>3 DEF ps
    <3> QED
      BY <2>4, <2>5, <2>7, <3>2, <3>4
  <2> QED
    BY <1>2, <2>5, <2>7 DEF all, App!BroughtFirst
<1> QED
  BY <1>4, <1>5

\* Putting two lists of providers together keeps modules after what they bring.
LEMMA BroughtFirstConcat ==
  ASSUME NEW S, NEW s \in Seq(S), NEW t \in Seq(S), App!BroughtFirst(s), App!BroughtFirst(t)
  PROVE  App!BroughtFirst(s \o t)
<1>1. PICK a \in Nat, b \in Nat : a = Len(s) /\ b = Len(t)
  OBVIOUS
<1>2. PICK u \in Seq(S) : u = s \o t
  BY ConcatProperties
<1>3. Len(u) = a + b /\ DOMAIN u = 1 .. a + b /\ DOMAIN s = 1 .. a /\ DOMAIN t = 1 .. b
  BY <1>1, <1>2
<1>4. \A k \in 1 .. a : u[k] = s[k]
  BY <1>1, <1>2, ConcatProperties
<1>5. \A k \in 1 .. b : u[a + k] = t[k]
  BY <1>1, <1>2
<1> SUFFICES App!BroughtFirst(u)
  BY <1>2
<1> SUFFICES ASSUME NEW k \in 1 .. a + b, NEW e \in App!Modules, e.name = u[k], NEW n \in DOMAIN e.providers
             PROVE  \E j \in 1 .. k - 1 : u[j] = e.providers[n]
  BY <1>3 DEF App!BroughtFirst
<1>6. CASE k <= a
  <2>1. k \in DOMAIN s /\ e.name = s[k]
    BY <1>3, <1>4, <1>6
  <2>2. PICK j \in 1 .. k - 1 : s[j] = e.providers[n]
    BY <2>1 DEF App!BroughtFirst
  <2>3. u[j] = s[j]
    BY <1>4, <1>6
  <2> QED
    BY <2>2, <2>3
<1>7. CASE k > a
  <2>1. PICK m \in 1 .. b : k = a + m
    BY <1>7
  <2>2. m \in DOMAIN t /\ e.name = t[m]
    BY <1>3, <1>5, <2>1
  <2>3. PICK j \in 1 .. m - 1 : t[j] = e.providers[n]
    BY <2>2 DEF App!BroughtFirst
  <2>4. a + j \in 1 .. k - 1 /\ u[a + j] = t[j]
    BY <1>5, <2>1
  <2> QED
    BY <2>3, <2>4
<1> QED
  BY <1>6, <1>7

\* What appending to the log of calls changes.
LEMMA LogGrows ==
  ASSUME App!AppType, NEW w \in {"register", "boot", "mount"}, NEW p \in STRING, v7' = Append(v7, <<w, p>>)
  PROVE  /\ v7' \in Seq({"register", "boot", "mount"} \X STRING)
         /\ Len(v7) \in Nat /\ DOMAIN v7 = 1 .. Len(v7) /\ DOMAIN v7' = 1 .. Len(v7) + 1
         /\ \A i \in 1 .. Len(v7) : v7'[i] = v7[i]
         /\ v7'[Len(v7) + 1] = <<w, p>> /\ v7'[Len(v7) + 1][1] = w /\ v7'[Len(v7) + 1][2] = p
<1>1. PICK x \in {"register", "boot", "mount"} \X STRING : x = <<w, p>>
  OBVIOUS
<1>2. x[1] = w /\ x[2] = p
  BY <1>1
<1>3. v7 \in Seq({"register", "boot", "mount"} \X STRING) /\ v7' = Append(v7, x)
  BY <1>1 DEF App!AppType
<1> QED
  BY <1>1, <1>2, <1>3, AppendProperties, LenProperties

\* Logging a Register or a Boot keeps MountedOnce, and TwoPhases if a module comes after what it
\* brings.
LEMMA LogBooks ==
  ASSUME App!AppInv, NEW w \in {"register", "boot"}, NEW p \in STRING, v7' = Append(v7, <<w, p>>),
         w = "register" => \A e \in App!Modules : e.name = p =>
             \A k \in DOMAIN e.providers : \E j \in DOMAIN v7 : v7[j] = <<"register", e.providers[k]>>
  PROVE  /\ App!MountedOnce'
         /\ \A i \in DOMAIN v7' : v7'[i][1] = "mount" => i \in DOMAIN v7 /\ v7'[i] = v7[i]
         /\ \A i \in DOMAIN v7 : \E j \in DOMAIN v7' : v7'[j] = v7[i]
         /\ \A i \in DOMAIN v7' : v7'[i][1] = "register" =>
              \A e \in App!Elements(Entries) : App!IsModule(e) /\ e.name = v7'[i][2] =>
                 \A k \in DOMAIN e.providers : \E j \in 1 .. i - 1 : v7'[j] = <<"register", e.providers[k]>>
<1>1. PICK n \in Nat : n = Len(v7) /\ DOMAIN v7 = 1 .. n /\ DOMAIN v7' = 1 .. n + 1
                       /\ (\A i \in 1 .. n : v7'[i] = v7[i])
                       /\ v7'[n + 1][1] = w /\ v7'[n + 1][2] = p
  BY LogGrows DEF App!AppInv
<1>2. \A i \in DOMAIN v7' : v7'[i][1] = "mount" => i \in DOMAIN v7 /\ v7'[i] = v7[i]
  BY <1>1
<1>3. App!MountedOnce'
  <2> SUFFICES ASSUME NEW i \in DOMAIN v7', NEW j \in DOMAIN v7', v7'[i] = v7'[j], v7'[i][1] = "mount" PROVE i = j
    BY DEF App!MountedOnce
  <2>1. i \in DOMAIN v7 /\ j \in DOMAIN v7 /\ v7[i] = v7[j] /\ v7[i][1] = "mount"
    BY <1>2
  <2> QED
    BY <2>1 DEF App!AppInv, App!MountedOnce
<1>4. ASSUME NEW i \in DOMAIN v7', v7'[i][1] = "register", NEW e \in App!Elements(Entries), App!IsModule(e), e.name = v7'[i][2],
             NEW k \in DOMAIN e.providers
      PROVE  \E j \in 1 .. i - 1 : v7'[j] = <<"register", e.providers[k]>>
  <2>0. e \in App!Modules
    BY <1>4 DEF App!Modules, App!Elements
  <2>1. CASE i = n + 1
    <3>1. PICK j \in 1 .. n : v7[j] = <<"register", e.providers[k]>>
      BY <1>1, <1>4, <2>0, <2>1
    <3> QED
      BY <1>1, <2>1, <3>1
  <2>2. CASE i \in 1 .. n
    <3>0. i \in DOMAIN v7 /\ v7[i][1] = "register" /\ e.name = v7[i][2]
      BY <1>1, <1>4, <2>2
    <3>1. PICK j \in 1 .. i - 1 : v7[j] = <<"register", e.providers[k]>>
      BY <1>4, <3>0 DEF App!AppInv, App!TwoPhases
    <3>2. v7'[j] = v7[j]
      BY <1>1, <2>2
    <3> QED
      BY <3>1, <3>2
  <2>3. i = n + 1 \/ i \in 1 .. n
    <3>1. DOMAIN v7' = 1 .. n + 1 /\ n \in Nat
      BY <1>1
    <3> QED
      BY <1>4, <3>1
  <2> QED
    BY <2>1, <2>2, <2>3
<1>5. \A i \in DOMAIN v7 : i \in DOMAIN v7' /\ v7'[i] = v7[i]
  BY <1>1
<1> QED
  BY <1>2, <1>3, <1>4, <1>5

\* Every step of the application preserves the invariant.
LEMMA AppStep == App!AppInv /\ [App!Next]_App!appVars => App!AppInv'
<1> SUFFICES ASSUME App!AppInv, [App!Next]_App!appVars PROVE App!AppInv'
  OBVIOUS
<1> USE DEF App!AppInv
<1>1. CASE App!Register
  <2> USE <1>1 DEF App!Register
  <2>1. App!AppType'
    BY AppAssumption DEF App!AppType
  <2>2. App!Flattened' /\ App!Registered' /\ App!Mounted'
    BY DEF App!Flattened, App!Registered, App!Mounted
  <2>3. App!MountedOnce' /\ App!TwoPhases'
    BY ZenonT(30) DEF App!MountedOnce, App!TwoPhases
  <2> QED
    BY <2>1, <2>2, <2>3
<1>2. CASE App!Boot
  <2>1. CASE v6
    <3>1. UNCHANGED <<v1, v2, v3, v4, v5, v6, v7>>
      BY <1>2, <2>1 DEF App!Boot
    <3>2. App!AppType'
      BY <3>1 DEF App!AppType
    <3>3. App!Flattened' /\ App!Registered' /\ App!Mounted'
      BY <3>1 DEF App!Flattened, App!BroughtFirst, App!Registered, App!Mounted
    <3>4. App!MountedOnce' /\ App!TwoPhases'
      BY <3>1, ZenonT(30) DEF App!MountedOnce, App!TwoPhases
    <3> QED
      BY <3>2, <3>3, <3>4
  <2>2. CASE ~v6
    <3> USE <1>2, <2>2 DEF App!Boot
    <3>1. DOMAIN v4' = {} /\ DOMAIN v5' = {} /\ v4' \in Seq(STRING) /\ v5' \in Seq(App!Modules)
      BY ShortSeqs
    <3>2. App!AppType'
      BY <3>1 DEF App!AppType
    <3>3. App!Flattened' /\ App!Registered' /\ App!Mounted'
      BY <3>1 DEF App!AppType, App!Flattened, App!BroughtFirst, App!Registered, App!Mounted
    <3>4. App!MountedOnce' /\ App!TwoPhases'
      BY ZenonT(30) DEF App!MountedOnce, App!TwoPhases
    <3> QED
      BY <3>2, <3>3, <3>4
  <2> QED
    BY <2>1, <2>2
<1>3. CASE App!flatten
  <2>1. v2 = "flatten" /\ UNCHANGED <<v1, v6, v7, v8>>
    BY <1>3 DEF App!flatten
  <2>2. CASE v3 < v1 /\ App!Goes /\ v4' = v4 \o App!providersOf(Entries[v3 + 1])
             /\ v5' = IF App!IsModule(Entries[v3 + 1]) THEN Append(v5, Entries[v3 + 1]) ELSE v5
    <3> DEFINE e == Entries[v3 + 1]
    <3>0. v3 + 1 \in DOMAIN Entries
      BY <2>2, AppAssumption, LenProperties DEF App!AppType
    <3>1. v4' \in Seq(STRING) /\ App!BroughtFirst(v4') /\ v3 + 1 \in DOMAIN Entries
      <4>1. PICK ps \in Seq(STRING) : ps = App!providersOf(Entries[v3 + 1]) /\ App!BroughtFirst(ps)
        BY <3>0, AppEntry
      <4>2. v4 \in Seq(STRING) /\ App!BroughtFirst(v4)
        BY DEF App!AppType, App!Flattened
      <4>3. v4 \o ps \in Seq(STRING)
        BY <4>2, ConcatProperties
      <4> QED
        BY <2>2, <3>0, <4>1, <4>2, <4>3, BroughtFirstConcat
    <3>2. v3' = v3 + 1 /\ v2' = "flatten" /\ v3' \in Nat /\ v3' <= v1
      BY <2>1, <2>2 DEF App!Goes, App!AppType
    <3>3. App!IsModule(e) => e \in App!Modules
      BY <3>1, AppEntry
    <3>4. PICK n \in Nat : n = Len(v5) /\ DOMAIN v5 = 1 .. n
      BY DEF App!AppType
    <3>5. /\ v5' \in Seq(App!Modules) /\ (DOMAIN v5' = 1 .. n \/ DOMAIN v5' = 1 .. n + 1)
          /\ \A k \in 1 .. n : v5'[k] = v5[k]
          /\ n + 1 \in DOMAIN v5' => v5'[n + 1] = e
      <4> HIDE DEF e
      <4>1. CASE ~App!IsModule(e)
        BY <2>2, <3>4, <4>1 DEF App!AppType, e
      <4>2. CASE App!IsModule(e)
        <5>1. v5' = Append(v5, e) /\ e \in App!Modules /\ v5 \in Seq(App!Modules)
          BY <2>2, <3>3, <4>2 DEF App!AppType, e
        <5> QED
          BY <3>4, <5>1
      <4> QED
        BY <4>1, <4>2
    <3>6. \A k \in DOMAIN v5 : \E i \in 1 .. v3 : v5[k] = Entries[i]
      BY <2>1 DEF App!Flattened
    <3>7. \A k \in DOMAIN v5' : \E i \in 1 .. v3 + 1 : v5'[k] = Entries[i]
      <4> SUFFICES ASSUME NEW k \in DOMAIN v5' PROVE \E i \in 1 .. v3 + 1 : v5'[k] = Entries[i]
        OBVIOUS
      <4>0. v3 \in Nat
        BY DEF App!AppType
      <4>1. CASE k \in 1 .. n
        <5>1. PICK i \in 1 .. v3 : v5[k] = Entries[i]
          BY <3>4, <3>6, <4>1
        <5>2. i \in 1 .. v3 + 1
          BY <4>0
        <5> QED
          BY <3>5, <4>1, <5>1, <5>2
      <4>2. CASE k = n + 1
        <5>1. v3 + 1 \in 1 .. v3 + 1
          BY <4>0
        <5> QED
          BY <3>5, <4>2, <5>1
      <4> QED
        BY <3>5, <4>1, <4>2
    <3>8. \A k \in DOMAIN v5 : v5[k].name # e.name
      <4> SUFFICES ASSUME NEW k \in DOMAIN v5 PROVE v5[k].name # e.name
        OBVIOUS
      <4>1. PICK i \in 1 .. v3 : v5[k] = Entries[i]
        BY <3>6
      <4>2. i \in DOMAIN Entries /\ i # v3 + 1
        BY <2>2, <4>1, AppAssumption, LenProperties DEF App!AppType
      <4> QED
        BY <3>1, <4>1, <4>2, AppAssumption
    <3> HIDE DEF e
    <3>9. \A i, j \in DOMAIN v5' : v5'[i].name = v5'[j].name => i = j
      BY <3>4, <3>5, <3>8 DEF App!Flattened
    <3>10. App!Flattened'
      BY <2>1, <3>1, <3>2, <3>7, <3>9 DEF App!Flattened
    <3>11. App!AppType'
      BY <2>1, <3>1, <3>2, <3>5 DEF App!AppType
    <3>12. App!Registered' /\ App!Mounted'
      BY <2>1, <3>2 DEF App!Registered, App!Mounted
    <3>13. App!MountedOnce' /\ App!TwoPhases'
      BY <2>1, <3>2, ZenonT(30) DEF App!MountedOnce, App!TwoPhases
    <3> QED
      BY <3>10, <3>11, <3>12, <3>13
  <2>3. CASE v3 = v1 /\ App!Then("register") /\ UNCHANGED <<v4, v5>>
    <3> USE <2>1, <2>3 DEF App!Then
    <3>0. Len(v4) \in Nat
      BY LenProperties DEF App!AppType
    <3>1. App!AppType' /\ App!Flattened' /\ App!Registered' /\ App!Mounted'
      BY <3>0 DEF App!AppType, App!Flattened, App!Registered, App!Mounted
    <3>2. App!MountedOnce' /\ App!TwoPhases'
      BY ZenonT(30) DEF App!MountedOnce, App!TwoPhases
    <3> QED
      BY <3>1, <3>2
  <2> QED
    BY <1>3, <2>2, <2>3 DEF App!flatten
<1>4. CASE App!registerPhase
  <2>1. v2 = "register" /\ UNCHANGED <<v1, v4, v5, v6, v8>>
    BY <1>4 DEF App!registerPhase
  <2>2. PICK n \in Nat : n = Len(v4) /\ DOMAIN v4 = 1 .. n
    BY DEF App!AppType
  <2>3. CASE v3 < Len(v4) /\ (App!Goes \/ App!Then("idle")) /\ v7' = Append(v7, <<"register", v4[v3 + 1]>>)
    <3>1. v3 + 1 \in 1 .. n /\ v4[v3 + 1] \in STRING /\ v3 \in Nat
      BY <2>2, <2>3 DEF App!AppType
    <3>2. ASSUME NEW e \in App!Modules, e.name = v4[v3 + 1], NEW k \in DOMAIN e.providers
          PROVE  \E j \in DOMAIN v7 : v7[j] = <<"register", e.providers[k]>>
      <4>1. PICK i \in 1 .. v3 : v4[i] = e.providers[k]
        BY <2>2, <3>1, <3>2 DEF App!Flattened, App!BroughtFirst
      <4> QED
        BY <2>1, <4>1 DEF App!Registered
    <3>3. /\ App!MountedOnce'
          /\ \A i \in DOMAIN v7' : v7'[i][1] = "mount" => i \in DOMAIN v7 /\ v7'[i] = v7[i]
          /\ \A i \in DOMAIN v7 : \E j \in DOMAIN v7' : v7'[j] = v7[i]
          /\ \A i \in DOMAIN v7' : v7'[i][1] = "register" =>
              \A e \in App!Elements(Entries) : App!IsModule(e) /\ e.name = v7'[i][2] =>
                 \A k \in DOMAIN e.providers : \E j \in 1 .. i - 1 : v7'[j] = <<"register", e.providers[k]>>
      BY <2>3, <3>1, <3>2, LogBooks
    <3>4. /\ v7' \in Seq({"register", "boot", "mount"} \X STRING)
          /\ \E j \in DOMAIN v7' : v7'[j] = <<"register", v4[v3 + 1]>>
      <4>1. PICK p \in STRING : p = v4[v3 + 1]
        BY <3>1
      <4>2. v7' \in Seq({"register", "boot", "mount"} \X STRING) /\ Len(v7) \in Nat /\ DOMAIN v7' = 1 .. Len(v7) + 1
            /\ v7'[Len(v7) + 1] = <<"register", p>>
        BY <2>3, <4>1, LogGrows
      <4>3. Len(v7) + 1 \in DOMAIN v7'
        BY <4>2
      <4> QED
        BY <4>1, <4>2, <4>3
    <3>5. (v3' = v3 + 1 /\ v2' = "register") \/ (v3' = 0 /\ v2' = "idle")
      BY <2>1, <2>3 DEF App!Goes, App!Then
    <3>6. App!AppType' /\ App!Flattened'
      BY <2>1, <3>1, <3>4, <3>5 DEF App!AppType, App!Flattened
    <3>7. App!Registered'
      BY <2>1, <2>2, <3>1, <3>3, <3>4, <3>5 DEF App!Registered
    <3>8. App!Mounted'
      BY <2>1, <3>3, <3>5 DEF App!Mounted
    <3>9. App!TwoPhases'
      BY <3>3, <3>5 DEF App!TwoPhases
    <3> QED
      BY <3>3, <3>6, <3>7, <3>8, <3>9
  <2>4. CASE v3 = Len(v4) /\ App!Then("boot") /\ UNCHANGED v7
    <3> USE <2>1, <2>4 DEF App!Then
    <3>1. App!AppType' /\ App!Flattened' /\ App!Registered' /\ App!Mounted'
      BY DEF App!AppType, App!Flattened, App!Registered, App!Mounted
    <3>2. \A k \in DOMAIN v4 : <<"register", v4[k]>> \in App!Elements(v7)
      BY <2>2 DEF App!Registered, App!Elements
    <3>3. App!MountedOnce' /\ App!TwoPhases'
      BY <3>2, ZenonT(30) DEF App!MountedOnce, App!TwoPhases
    <3> QED
      BY <3>1, <3>3
  <2> QED
    BY <1>4, <2>3, <2>4 DEF App!registerPhase
<1>5. CASE App!bootPhase
  <2>1. v2 = "boot" /\ UNCHANGED <<v1, v4, v5, v6, v8>>
    BY <1>5 DEF App!bootPhase
  <2>2. (v3' = v3 + 1 /\ v2' = "boot") \/ (v3' = 0 /\ v2' \in {"idle", "mount"})
    BY <1>5, <2>1 DEF App!bootPhase, App!Goes, App!Then
  <2>3. App!Flattened' /\ App!Registered'
    BY <2>1, <2>2 DEF App!Flattened, App!Registered
  <2>4. Len(v5) \in Nat
    BY LenProperties DEF App!AppType
  <2>5. CASE UNCHANGED v7
    <3>1. App!AppType' /\ App!Mounted'
      BY <2>1, <2>2, <2>4, <2>5 DEF App!AppType, App!Mounted
    <3>2. App!MountedOnce' /\ App!TwoPhases'
      BY <2>1, <2>2, <2>5, ZenonT(30) DEF App!MountedOnce, App!TwoPhases
    <3> QED
      BY <2>3, <3>1, <3>2
  <2>6. CASE v3 < Len(v4) /\ v7' = Append(v7, <<"boot", v4[v3 + 1]>>)
    <3>1. v3 + 1 \in DOMAIN v4 /\ v4[v3 + 1] \in STRING /\ v3 \in Nat
      BY <2>6 DEF App!AppType
    <3>3. /\ App!MountedOnce'
          /\ \A i \in DOMAIN v7' : v7'[i][1] = "mount" => i \in DOMAIN v7 /\ v7'[i] = v7[i]
          /\ \A i \in DOMAIN v7 : \E j \in DOMAIN v7' : v7'[j] = v7[i]
          /\ \A i \in DOMAIN v7' : v7'[i][1] = "register" =>
              \A e \in App!Elements(Entries) : App!IsModule(e) /\ e.name = v7'[i][2] =>
                 \A k \in DOMAIN e.providers : \E j \in 1 .. i - 1 : v7'[j] = <<"register", e.providers[k]>>
      BY <2>6, <3>1, LogBooks
    <3>4. v7' \in Seq({"register", "boot", "mount"} \X STRING)
      BY <2>6, <3>1, LogGrows
    <3>5. App!AppType'
      BY <2>1, <2>2, <3>1, <3>4 DEF App!AppType
    <3>6. App!Mounted'
      BY <2>1, <2>2, <2>4, <3>3 DEF App!Mounted
    <3>7. \A k \in DOMAIN v4 : <<"register", v4[k]>> \in App!Elements(v7')
      BY <2>1, <3>3 DEF App!TwoPhases, App!Elements
    <3>8. App!TwoPhases'
      BY <2>1, <3>3, <3>7 DEF App!TwoPhases
    <3> QED
      BY <2>3, <3>3, <3>5, <3>6, <3>8
  <2> QED
    BY <1>5, <2>5, <2>6 DEF App!bootPhase
<1>6. CASE App!mountPhase
  <2>1. v2 = "mount" /\ UNCHANGED <<v1, v4, v5, v8>>
    BY <1>6 DEF App!mountPhase
  <2>2. CASE v3 = Len(v5) /\ App!Then("idle") /\ v6' = TRUE /\ UNCHANGED v7
    <3> USE <2>1, <2>2 DEF App!Then
    <3>1. App!AppType' /\ App!Flattened' /\ App!Registered' /\ App!Mounted'
      BY DEF App!AppType, App!Flattened, App!Registered, App!Mounted
    <3>2. App!MountedOnce' /\ App!TwoPhases'
      BY ZenonT(30) DEF App!MountedOnce, App!TwoPhases
    <3> QED
      BY <3>1, <3>2
  <2>3. CASE App!mount
    <3>1. PICK n \in Nat : n = Len(v5) /\ DOMAIN v5 = 1 .. n
      BY DEF App!AppType
    <3>2. v3 \in Nat /\ v3 + 1 \in 1 .. n /\ v3' = v3 + 1 /\ v2' = "mount" /\ v6' = v6 /\ v5[v3 + 1] \in App!Modules
      BY <2>1, <2>3, <3>1 DEF App!mount, App!Goes, App!AppType
    <3>3. ~v6
      BY <2>1 DEF App!Mounted
    <3>4. App!Flattened' /\ App!Registered'
      BY <2>1, <3>2 DEF App!Flattened, App!Registered
    <3>5. CASE UNCHANGED v7
      <4>1. App!AppType'
        BY <2>1, <3>2, <3>5 DEF App!AppType
      <4>2. App!Mounted'
        BY <2>1, <3>1, <3>2, <3>5 DEF App!Mounted
      <4>3. App!MountedOnce' /\ App!TwoPhases'
        BY <2>1, <3>2, <3>5, ZenonT(30) DEF App!MountedOnce, App!TwoPhases
      <4> QED
        BY <3>4, <4>1, <4>2, <4>3
    <3>6. CASE v7' = Append(v7, <<"mount", v5[v3 + 1].name>>)
      <4>1. PICK p \in STRING : p = v5[v3 + 1].name
        <5>1. PICK i \in DOMAIN Entries : v5[v3 + 1] = Entries[i]
          BY <3>2 DEF App!Modules
        <5>2. Entries[i] \in [name : STRING] \cup [name : STRING, providers : Seq(STRING), own : BOOLEAN, hook : BOOLEAN]
          BY AppAssumption
        <5>3. Entries[i].name \in STRING
          BY <5>2
        <5> QED
          BY <5>1, <5>3
      <4>2. PICK m \in Nat : m = Len(v7) /\ DOMAIN v7 = 1 .. m /\ DOMAIN v7' = 1 .. m + 1
                       /\ (\A i \in 1 .. m : v7'[i] = v7[i])
                       /\ v7'[m + 1][1] = "mount" /\ v7'[m + 1][2] = p
                       /\ v7' \in Seq({"register", "boot", "mount"} \X STRING)
        BY <3>6, <4>1, LogGrows
      <4>3. \A i \in 1 .. m : v7[i][1] = "mount" => \E k \in 1 .. v3 : k \in DOMAIN v5 /\ v7[i][2] = v5[k].name
        BY <3>3, <4>2 DEF App!Mounted
      <4>4. \A i \in 1 .. m : v7[i][1] = "mount" => v7[i][2] # p
        <5> SUFFICES ASSUME NEW i \in 1 .. m, v7[i][1] = "mount", v7[i][2] = p PROVE FALSE
          OBVIOUS
        <5>1. PICK k \in 1 .. v3 : k \in DOMAIN v5 /\ v7[i][2] = v5[k].name
          BY <4>3
        <5>2. k = v3 + 1
          BY <3>1, <3>2, <4>1, <5>1 DEF App!Flattened
        <5> QED
          BY <3>2, <5>2
      <4>5. App!MountedOnce'
        <5> SUFFICES ASSUME NEW i \in 1 .. m + 1, NEW j \in 1 .. m + 1, v7'[i] = v7'[j], v7'[i][1] = "mount" PROVE i = j
          BY <4>2 DEF App!MountedOnce
        <5>1. CASE i \in 1 .. m /\ j \in 1 .. m
          BY <4>2, <5>1 DEF App!MountedOnce
        <5>2. CASE i = m + 1 /\ j \in 1 .. m
          BY <4>2, <4>4, <5>2
        <5>3. CASE j = m + 1 /\ i \in 1 .. m
          BY <4>2, <4>4, <5>3
        <5> QED
          BY <5>1, <5>2, <5>3
      <4>6. App!Mounted'
        <5> SUFFICES ASSUME NEW i \in 1 .. m + 1, v7'[i][1] = "mount"
                     PROVE  \E k \in 1 .. v3 + 1 : k \in DOMAIN v5 /\ v7'[i][2] = v5[k].name
          BY <2>1, <3>1, <3>2, <3>3, <4>2 DEF App!Mounted
        <5>1. CASE i \in 1 .. m
          <6>1. PICK k \in 1 .. v3 : k \in DOMAIN v5 /\ v7[i][2] = v5[k].name
            BY <4>2, <4>3, <5>1
          <6>2. k \in 1 .. v3 + 1
            BY <3>2
          <6> QED
            BY <4>2, <5>1, <6>1, <6>2
        <5>2. CASE i = m + 1
          <6>1. v3 + 1 \in 1 .. v3 + 1
            BY <3>2
          <6> QED
            BY <3>1, <3>2, <4>1, <4>2, <5>2, <6>1
        <5> QED
          BY <5>1, <5>2
      <4>7. App!AppType'
        BY <2>1, <3>2, <4>2 DEF App!AppType
      <4>8. \A k \in DOMAIN v4 : <<"register", v4[k]>> \in App!Elements(v7')
        <5>1. \A i \in DOMAIN v7 : i \in DOMAIN v7' /\ v7'[i] = v7[i]
          BY <4>2
        <5> QED
          BY <2>1, <5>1 DEF App!TwoPhases, App!Elements
      <4>9. ASSUME NEW i \in DOMAIN v7', v7'[i][1] = "register", NEW e \in App!Elements(Entries), App!IsModule(e), e.name = v7'[i][2],
             NEW k \in DOMAIN e.providers
            PROVE  \E j \in 1 .. i - 1 : v7'[j] = <<"register", e.providers[k]>>
        <5>1. i \in 1 .. m
          BY <4>2, <4>9
        <5>2. i \in DOMAIN v7 /\ v7[i][1] = "register" /\ e.name = v7[i][2]
          BY <4>2, <4>9, <5>1
        <5>3. PICK j \in 1 .. i - 1 : v7[j] = <<"register", e.providers[k]>>
          BY <4>9, <5>2 DEF App!TwoPhases
        <5>4. v7'[j] = v7[j]
          BY <4>2, <5>1
        <5> QED
          BY <5>3, <5>4
      <4>10. App!TwoPhases'
        BY <2>1, <4>8, <4>9 DEF App!TwoPhases
      <4> QED
        BY <3>4, <4>5, <4>6, <4>7, <4>10
    <3> QED
      BY <2>3, <3>5, <3>6 DEF App!mount
  <2> QED
    BY <1>6, <2>2, <2>3 DEF App!mountPhase
<1>7. CASE UNCHANGED App!appVars
  <2> USE <1>7 DEF App!appVars
  <2>1. App!AppType' /\ App!Flattened' /\ App!Registered' /\ App!Mounted'
    BY DEF App!AppType, App!Flattened, App!Registered, App!Mounted
  <2>2. App!MountedOnce' /\ App!TwoPhases'
    BY ZenonT(30) DEF App!MountedOnce, App!TwoPhases
  <2> QED
    BY <2>1, <2>2
<1> QED
  BY <1>1, <1>2, <1>3, <1>4, <1>5, <1>6, <1>7 DEF App!Next

-----------------------------------------------------------------------------
(***************************************************************************)
(* FailedJobs, the instance Fail: its variables are v1 items, v2 order, v3 *)
(* queued, v4 running, v5 op, v6 failures, v7 retried, v8 settled, v9      *)
(* overlapped.                                                             *)
(***************************************************************************)

\* The invariant of the failed job store holds initially.
LEMMA FailedStart == Fail!Init => Fail!Inv
<1> SUFFICES ASSUME Fail!Init PROVE Fail!Inv
  OBVIOUS
<1>1. Fail!NoOp \in Fail!Ops /\ Fail!NoOp.pc = "idle"
  BY DEF Fail!NoOp, Fail!Doing, Fail!Ops
<1>2. Fail!TypeOK
  BY <1>1 DEF Fail!Init, Fail!TypeOK
<1>3. Fail!ListedOnce
  BY DEF Fail!Init, Fail!ListedOnce
<1>4. \A j \in Jobs, o \in Operators : ~Fail!ActsOn(o, j)
  BY <1>1 DEF Fail!Init, Fail!ActsOn
<1>5. ASSUME NEW j \in Jobs PROVE Fail!Placed(j)
  BY <1>4 DEF Fail!Init, Fail!Placed, Fail!Alive, Fail!Gone, Fail!Busy
<1> QED
  BY <1>2, <1>3, <1>5 DEF Fail!Inv

\* remove: order without a job holds the other jobs that have entries, each once.
LEMMA FailedWithout ==
  ASSUME Fail!TypeOK, Fail!ListedOnce, NEW j \in Jobs
  PROVE  /\ Fail!without(j) \in Seq(Jobs)
         /\ {Fail!without(j)[i] : i \in DOMAIN Fail!without(j)} = {k \in Jobs : v1[k] > 0} \ {j}
         /\ \A i, k \in DOMAIN Fail!without(j) : Fail!without(j)[i] = Fail!without(j)[k] => i = k
<1>0. /\ v2 \in Seq(Jobs) /\ {v2[i] : i \in DOMAIN v2} = {k \in Jobs : v1[k] > 0}
      /\ \A i, k \in DOMAIN v2 : v2[i] = v2[k] => i = k
  BY DEF Fail!TypeOK, Fail!ListedOnce
<1>1. CASE ~\E i \in DOMAIN v2 : v2[i] = j
  <2>1. Fail!without(j) = v2
    BY <1>1 DEF Fail!without
  <2>2. j \notin {v2[i] : i \in DOMAIN v2}
    BY <1>1
  <2> QED
    BY <1>0, <2>1, <2>2
<1>2. CASE \E i \in DOMAIN v2 : v2[i] = j
  <2>1. Fail!indexOf(j) \in 1 .. Len(v2) /\ v2[Fail!indexOf(j)] = j
    BY <1>0, <1>2, FirstIndex DEF Fail!indexOf
  <2>2. Fail!without(j) = SubSeq(v2, 1, Fail!indexOf(j) - 1) \o SubSeq(v2, Fail!indexOf(j) + 1, Len(v2))
    BY <1>2 DEF Fail!without
  <2> DEFINE n == Fail!indexOf(j)  w == SubSeq(v2, 1, n - 1) \o SubSeq(v2, n + 1, Len(v2))
  <2> HIDE DEF n
  <2>3. n \in 1 .. Len(v2) /\ v2[n] = j /\ Fail!without(j) = w
    BY <2>1, <2>2 DEF n
  <2>4. /\ w \in Seq(Jobs) /\ {w[i] : i \in DOMAIN w} = {v2[i] : i \in DOMAIN v2} \ {v2[n]}
        /\ \A i, k \in DOMAIN w : w[i] = w[k] => i = k
    BY <1>0, <2>3, SplicedOut
  <2> HIDE DEF w
  <2>5. {w[i] : i \in DOMAIN w} = {k \in Jobs : v1[k] > 0} \ {j}
    BY <1>0, <2>3, <2>4
  <2> QED
    BY <2>3, <2>4, <2>5
<1> QED
  BY <1>1, <1>2

\* Removing a job from items and from order keeps one entry in order for every entry in items.
LEMMA FailedRemoved ==
  ASSUME Fail!TypeOK, Fail!ListedOnce, NEW j \in Jobs, v1' = [v1 EXCEPT ![j] = 0], v2' = Fail!without(j)
  PROVE  v1' \in [Jobs -> Nat] /\ v2' \in Seq(Jobs) /\ Fail!ListedOnce'
<1>1. v1' \in [Jobs -> Nat] /\ {k \in Jobs : v1'[k] > 0} = {k \in Jobs : v1[k] > 0} \ {j}
  BY DEF Fail!TypeOK
<1> QED
  BY <1>1, FailedWithout DEF Fail!ListedOnce

\* Every step of the failed job store preserves the invariant.
LEMMA FailedStep == Fail!Inv /\ [Fail!Next]_Fail!fjVars => Fail!Inv'
<1> SUFFICES ASSUME Fail!Inv, [Fail!Next]_Fail!fjVars PROVE Fail!Inv'
  OBVIOUS
<1>0. Fail!NoOp \in Fail!Ops /\ Fail!NoOp.pc = "idle"
  BY DEF Fail!NoOp, Fail!Doing, Fail!Ops
<1>f. ASSUME NEW todo \in Seq(Jobs)
      PROVE  /\ Fail!Flushing(todo) \in Fail!Ops
             /\ Fail!Flushing(todo).pc = "idle" \/ (Fail!Flushing(todo).pc = "flush" /\ Fail!Flushing(todo).todo # <<>> /\ Fail!Flushing(todo).job = "none")
  <2>1. CASE todo = <<>>
    BY <1>0, <2>1 DEF Fail!Flushing
  <2>2. CASE todo # <<>>
    BY <2>2 DEF Fail!Flushing, Fail!Doing, Fail!Ops
  <2> QED
    BY <2>1, <2>2
<1>1. ASSUME NEW j \in Jobs, Fail!Take(j) PROVE Fail!Inv'
  <2>1. /\ v3' \in [Jobs -> Nat] /\ v4' \in [Jobs -> Nat]
        /\ \A k \in Jobs : v3'[k] + v4'[k] = v3[k] + v4[k]
        /\ UNCHANGED <<v1, v2, v5, v6, v8, v9>>
    <3>1. v3 \in [Jobs -> Nat] /\ v4 \in [Jobs -> Nat]
      BY DEF Fail!Inv, Fail!TypeOK
    <3>2. /\ v3[j] > 0 /\ v3' = [v3 EXCEPT ![j] = v3[j] - 1] /\ v4' = [v4 EXCEPT ![j] = v4[j] + 1]
          /\ UNCHANGED <<v1, v2, v5, v6, v8, v9>>
      BY <1>1 DEF Fail!Take
    <3>3. v3[j] \in Nat /\ v4[j] \in Nat /\ v3[j] - 1 \in Nat /\ v4[j] + 1 \in Nat
      BY <3>1, <3>2
    <3>4. /\ v3' \in [Jobs -> Nat] /\ v4' \in [Jobs -> Nat]
          /\ \A k \in Jobs : /\ v3'[k] = IF k = j THEN v3[j] - 1 ELSE v3[k]
                             /\ v4'[k] = IF k = j THEN v4[j] + 1 ELSE v4[k]
      BY <3>1, <3>2, <3>3
    <3>5. ASSUME NEW k \in Jobs PROVE v3'[k] + v4'[k] = v3[k] + v4[k]
      BY <3>1, <3>3, <3>4
    <3> QED
      BY <3>2, <3>4, <3>5
  <2>2. \A k \in Jobs : Fail!Placed(k) => Fail!Placed(k)'
    BY <2>1 DEF Fail!Placed, Fail!Alive, Fail!Gone, Fail!Busy, Fail!ActsOn
  <2> QED
    BY <2>1, <2>2 DEF Fail!Inv, Fail!TypeOK, Fail!ListedOnce
<1>2. ASSUME NEW j \in Jobs, Fail!Succeed(j) PROVE Fail!Inv'
  <2>1. /\ v4' \in [Jobs -> Nat] /\ v4'[j] = v4[j] - 1 /\ \A k \in Jobs : k # j => v4'[k] = v4[k]
        /\ UNCHANGED <<v1, v2, v3, v5, v6, v9>> /\ v8' = v8 \cup {j} /\ v4[j] > 0
    BY <1>2 DEF Fail!Succeed, Fail!Inv, Fail!TypeOK
  <2>2. \A k \in Jobs : k # j /\ Fail!Placed(k) => Fail!Placed(k)'
    BY <2>1 DEF Fail!Placed, Fail!Alive, Fail!Gone, Fail!Busy, Fail!ActsOn
  <2>3. Fail!Placed(j) => Fail!Placed(j)'
    BY <2>1 DEF Fail!Placed, Fail!Alive, Fail!Gone, Fail!Busy, Fail!ActsOn, Fail!Inv, Fail!TypeOK
  <2> QED
    BY <2>1, <2>2, <2>3 DEF Fail!Inv, Fail!TypeOK, Fail!ListedOnce
<1>3. ASSUME NEW j \in Jobs, Fail!Record(j) PROVE Fail!Inv'
  <2>1. /\ v4' \in [Jobs -> Nat] /\ v4'[j] = v4[j] - 1 /\ \A k \in Jobs : k # j => v4'[k] = v4[k]
        /\ v1' \in [Jobs -> Nat] /\ v1'[j] = v6 + 1 /\ \A k \in Jobs : k # j => v1'[k] = v1[k]
        /\ UNCHANGED <<v3, v5, v8>> /\ v4[j] > 0 /\ v6' \in Nat /\ v6 \in Nat
        /\ v9' = v9 \cup (IF Fail!Busy(j) THEN {j} ELSE {})
    BY <1>3 DEF Fail!Record, Fail!Marked, Fail!Inv, Fail!TypeOK
  <2>2. v2' \in Seq(Jobs) /\ Fail!ListedOnce'
    <3>1. CASE v1[j] > 0
      <4>1. v2' = v2 /\ {k \in Jobs : v1'[k] > 0} = {k \in Jobs : v1[k] > 0}
        BY <1>3, <2>1, <3>1 DEF Fail!Record, Fail!added, Fail!Inv, Fail!TypeOK
      <4> QED
        BY <4>1 DEF Fail!Inv, Fail!TypeOK, Fail!ListedOnce
    <3>2. CASE v1[j] = 0
      <4>1. v2' = Append(v2, j) /\ {k \in Jobs : v1'[k] > 0} = {k \in Jobs : v1[k] > 0} \cup {j}
        BY <1>3, <2>1, <3>2 DEF Fail!Record, Fail!added, Fail!Inv, Fail!TypeOK
      <4>2. \A i \in DOMAIN v2 : v2[i] # j
        BY <3>2 DEF Fail!Inv, Fail!ListedOnce
      <4>3. /\ v2' \in Seq(Jobs) /\ DOMAIN v2' = 1 .. Len(v2) + 1 /\ v2'[Len(v2) + 1] = j
            /\ \A i \in 1 .. Len(v2) : v2'[i] = v2[i]
            /\ DOMAIN v2 = 1 .. Len(v2) /\ Len(v2) \in Nat
        BY <4>1 DEF Fail!Inv, Fail!TypeOK
      <4>4. {v2'[i] : i \in DOMAIN v2'} = {v2[i] : i \in DOMAIN v2} \cup {j}
        BY <4>3
      <4>5. \A i, k \in DOMAIN v2' : v2'[i] = v2'[k] => i = k
        BY <4>2, <4>3 DEF Fail!Inv, Fail!ListedOnce
      <4> QED
        BY <4>1, <4>3, <4>4, <4>5 DEF Fail!Inv, Fail!ListedOnce
    <3> QED
      BY <3>1, <3>2 DEF Fail!Inv, Fail!TypeOK
  <2>3. \A k \in Jobs : k # j /\ Fail!Placed(k) => Fail!Placed(k)'
    BY <2>1 DEF Fail!Placed, Fail!Alive, Fail!Gone, Fail!Busy, Fail!ActsOn
  <2>4. Fail!Placed(j) /\ ~Fail!Busy(j) => Fail!Placed(j)'
    BY <2>1 DEF Fail!Placed, Fail!Alive, Fail!Gone, Fail!Busy, Fail!ActsOn, Fail!Inv, Fail!TypeOK
  <2> QED
    BY <2>1, <2>2, <2>3, <2>4 DEF Fail!Inv, Fail!TypeOK
<1>4. ASSUME NEW o \in Operators, NEW j \in Jobs, NEW k \in Fail!Ops, v5' = [v5 EXCEPT ![o] = k], v5[o].pc \in {"idle", "flush"},
             k.job = j, k.pc \in {"retry", "forget"}, v1[j] > 0,
             v9' = v9 \cup (IF Fail!Busy(j) THEN {j} ELSE {}),
             UNCHANGED <<v1, v2, v3, v4, v6, v8>>
      PROVE Fail!Inv'
  <2>1. v5' \in [Operators -> Fail!Ops] /\ v5'[o] = k /\ \A p \in Operators : p # o => v5'[p] = v5[p]
    BY <1>4 DEF Fail!Inv, Fail!TypeOK
  <2>2. Fail!TypeOK' /\ Fail!ListedOnce'
    BY <1>4, <2>1 DEF Fail!Inv, Fail!TypeOK, Fail!ListedOnce
  <2>x. \A i \in Jobs : ~Fail!ActsOn(o, i)
    BY <1>4, FailedAssumption DEF Fail!Inv, Fail!TypeOK, Fail!ActsOn
  <2>3. ASSUME NEW i \in Jobs, i # j, Fail!Placed(i) PROVE Fail!Placed(i)'
    <3>1. \A p \in Operators : (Fail!ActsOn(p, i)' <=> Fail!ActsOn(p, i)) /\ (Fail!ActsOn(p, i) => v5'[p] = v5[p])
      BY <1>4, <2>1, <2>x, <2>3 DEF Fail!ActsOn
    <3> QED
      BY <1>4, <2>3, <3>1 DEF Fail!Placed, Fail!Alive, Fail!Gone, Fail!Busy
  <2>4. ASSUME Fail!Placed(j), ~Fail!Busy(j) PROVE Fail!Placed(j)'
    <3>1. \A p \in Operators : Fail!ActsOn(p, j)' <=> p = o
      BY <1>4, <2>1, <2>4 DEF Fail!ActsOn, Fail!Busy
    <3> QED
      BY <1>4, <2>1, <2>4, <3>1 DEF Fail!Placed, Fail!Alive, Fail!Gone, Fail!Busy
  <2> QED
    BY <1>4, <2>2, <2>3, <2>4 DEF Fail!Inv
<1>5. ASSUME NEW o \in Operators, NEW j \in Jobs, NEW a \in {"retry", "forget"}, Fail!LookUp(o, j, a) PROVE Fail!Inv'
  <2>1. Fail!Doing(a, j, <<>>) \in Fail!Ops /\ Fail!Doing(a, j, <<>>).pc = a /\ Fail!Doing(a, j, <<>>).job = j
    BY DEF Fail!Doing, Fail!Ops
  <2> QED
    BY <1>4, <1>5, <2>1 DEF Fail!LookUp, Fail!Marked
<1>6. ASSUME NEW o \in Operators, Fail!Requeue(o) PROVE Fail!Inv'
  <2>0. PICK j \in Jobs : j = v5[o].job
    BY <1>6 DEF Fail!Requeue, Fail!Inv, Fail!TypeOK
  <2>a. Fail!ActsOn(o, j) /\ v5[o].pc = "retry" /\ \A i \in Jobs : i # j => ~Fail!ActsOn(o, i)
    BY <1>6, <2>0 DEF Fail!Requeue, Fail!ActsOn
  <2>b. UNCHANGED <<v1, v2, v4, v6, v8, v9>>
    BY <1>6 DEF Fail!Requeue
  <2>1. CASE v3' = [v3 EXCEPT ![j] = @ + 1] /\ v5' = [v5 EXCEPT ![o].pc = "remove"]
    <3>1. /\ v5' \in [Operators -> Fail!Ops] /\ v5'[o].pc = "remove" /\ v5'[o].job = j /\ \A p \in Operators : p # o => v5'[p] = v5[p]
      BY <2>0, <2>1 DEF Fail!Inv, Fail!TypeOK, Fail!Ops
    <3>2. v3' \in [Jobs -> Nat] /\ v3'[j] = v3[j] + 1 /\ \A i \in Jobs : i # j => v3'[i] = v3[i]
      BY <2>1 DEF Fail!Inv, Fail!TypeOK
    <3>3. Fail!TypeOK' /\ Fail!ListedOnce'
      <4>1. Fail!ListedOnce'
        BY <2>b DEF Fail!Inv, Fail!ListedOnce
      <4>2. \A p \in Operators : /\ v5'[p].pc \in {"retry", "remove", "forget"} => v5'[p].job \in Jobs
                                 /\ v5'[p].pc = "flush" => v5'[p].todo # <<>> /\ v5'[p].job = "none"
        BY <3>1 DEF Fail!Inv, Fail!TypeOK
      <4> QED
        BY <2>b, <3>1, <3>2, <4>1, <4>2 DEF Fail!Inv, Fail!TypeOK
    <3>4. \A p \in Operators, i \in Jobs : Fail!ActsOn(p, i)' <=> Fail!ActsOn(p, i)
      BY <2>a, <3>1 DEF Fail!ActsOn
    <3>5. ASSUME NEW i \in Jobs, i # j, Fail!Placed(i) PROVE Fail!Placed(i)'
      BY <2>a, <2>b, <3>1, <3>2, <3>4, <3>5 DEF Fail!Placed, Fail!Alive, Fail!Gone, Fail!Busy
    <3>6. ASSUME Fail!Placed(j) PROVE Fail!Placed(j)'
      BY <2>a, <2>b, <3>1, <3>2, <3>4, <3>6, SMTT(30) DEF Fail!Placed, Fail!Alive, Fail!Gone, Fail!Busy, Fail!Inv, Fail!TypeOK
    <3> QED
      BY <2>b, <3>3, <3>5, <3>6 DEF Fail!Inv
  <2>2. CASE v5' = [v5 EXCEPT ![o] = Fail!NoOp] /\ UNCHANGED v3
    <3>1. /\ v5' \in [Operators -> Fail!Ops] /\ v5'[o].pc = "idle" /\ \A p \in Operators : p # o => v5'[p] = v5[p]
      BY <1>0, <2>2 DEF Fail!Inv, Fail!TypeOK
    <3>2. Fail!TypeOK' /\ Fail!ListedOnce'
      BY <2>b, <2>2, <3>1 DEF Fail!Inv, Fail!TypeOK, Fail!ListedOnce
    <3>3. \A p \in Operators, i \in Jobs : (Fail!ActsOn(p, i)' <=> Fail!ActsOn(p, i) /\ p # o)
      BY <2>a, <3>1 DEF Fail!ActsOn
    <3>4. ASSUME NEW i \in Jobs, i # j, Fail!Placed(i) PROVE Fail!Placed(i)'
      BY <2>a, <2>b, <2>2, <3>1, <3>3, <3>4 DEF Fail!Placed, Fail!Alive, Fail!Gone, Fail!Busy
    <3>5. ASSUME Fail!Placed(j) PROVE Fail!Placed(j)'
      BY <2>a, <2>b, <2>2, <3>3, <3>5 DEF Fail!Placed, Fail!Alive, Fail!Gone, Fail!Busy
    <3> QED
      BY <2>b, <3>2, <3>4, <3>5 DEF Fail!Inv
  <2> QED
    BY <1>6, <2>0, <2>1, <2>2 DEF Fail!Requeue
<1>7. ASSUME NEW o \in Operators, Fail!Remove(o) \/ Fail!Drop(o) PROVE Fail!Inv'
  <2>0. PICK j \in Jobs : j = v5[o].job
    BY <1>7 DEF Fail!Remove, Fail!Drop, Fail!Inv, Fail!TypeOK
  <2>a. Fail!ActsOn(o, j) /\ \A i \in Jobs : i # j => ~Fail!ActsOn(o, i)
    BY <1>7, <2>0 DEF Fail!Remove, Fail!Drop, Fail!ActsOn
  <2>1. v1' = [v1 EXCEPT ![j] = 0] /\ v2' = Fail!without(j) /\ UNCHANGED <<v3, v4, v6, v9>>
    BY <1>7, <2>0 DEF Fail!Remove, Fail!Drop, Fail!removed
  <2>2. v1' \in [Jobs -> Nat] /\ v2' \in Seq(Jobs) /\ Fail!ListedOnce'
    BY <2>1, FailedRemoved DEF Fail!Inv
  <2>3. v1'[j] = 0 /\ \A i \in Jobs : i # j => v1'[i] = v1[i]
    BY <2>1 DEF Fail!Inv, Fail!TypeOK
  <2>4. /\ v5' \in [Operators -> Fail!Ops] /\ \A p \in Operators : p # o => v5'[p] = v5[p]
        /\ v5'[o].pc = "idle" \/ (v5'[o].pc = "flush" /\ v5'[o].todo # <<>> /\ v5'[o].job = "none")
    <3>1. CASE Fail!Remove(o)
      BY <1>0, <3>1 DEF Fail!Remove, Fail!Inv, Fail!TypeOK
    <3>2. CASE Fail!Drop(o)
      <4>1. v5[o].todo \in Seq(Jobs)
        BY DEF Fail!Inv, Fail!TypeOK, Fail!Ops
      <4>2. v5' = [v5 EXCEPT ![o] = Fail!Flushing(v5[o].todo)]
        BY <3>2 DEF Fail!Drop
      <4> QED
        BY <1>f, <4>1, <4>2 DEF Fail!Inv, Fail!TypeOK
    <3> QED
      BY <1>7, <3>1, <3>2
  <2>5. Fail!TypeOK'
    BY <2>1, <2>2, <2>4 DEF Fail!Inv, Fail!TypeOK
  <2>6. \A p \in Operators, i \in Jobs : (Fail!ActsOn(p, i)' <=> Fail!ActsOn(p, i) /\ p # o)
    BY <2>a, <2>4, FailedAssumption DEF Fail!ActsOn
  <2>7. v8 \subseteq v8' /\ (v5[o].pc # "remove" => j \in v8')
    BY <1>7, <2>0 DEF Fail!Remove, Fail!Drop
  <2>8. \A i \in Jobs : (Fail!Alive(i) => Fail!Alive(i)') /\ (Fail!Gone(i)' <=> Fail!Gone(i)) /\ (Fail!Gone(i) /\ i \in v8' => Fail!Alive(i)')
    BY <2>1, <2>7 DEF Fail!Alive, Fail!Gone
  <2>9. ASSUME NEW i \in Jobs, i # j, Fail!Placed(i), i \notin v9 PROVE Fail!Placed(i)'
    <3>1. Fail!Busy(i)' <=> Fail!Busy(i)
      BY <2>a, <2>6, <2>9 DEF Fail!Busy
    <3>2. \A p \in Operators : Fail!ActsOn(p, i)' => Fail!ActsOn(p, i) /\ v5'[p] = v5[p]
      BY <2>4, <2>6
    <3>3. Fail!Alive(i) \/ Fail!Gone(i) => (Fail!Alive(i)' \/ Fail!Gone(i)')
      BY <2>8
    <3> QED
      BY <2>3, <2>8, <2>9, <3>1, <3>2 DEF Fail!Placed
  <2>10. ASSUME Fail!Placed(j) PROVE Fail!Placed(j)'
    <3>1. \A p \in Operators : ~Fail!ActsOn(p, j)'
      BY <2>a, <2>6, <2>10 DEF Fail!Placed
    <3>2. Fail!Alive(j)'
      BY <2>a, <2>7, <2>8, <2>10 DEF Fail!Placed
    <3> QED
      BY <2>3, <3>1, <3>2 DEF Fail!Placed
  <2> QED
    BY <2>1, <2>2, <2>5, <2>9, <2>10 DEF Fail!Inv
<1>8. ASSUME NEW o \in Operators, NEW todo \in Seq(Jobs), v5' = [v5 EXCEPT ![o] = Fail!Flushing(todo)],
             v5[o].pc \in {"idle", "flush"}, UNCHANGED <<v1, v2, v3, v4, v6, v8, v9>>
      PROVE Fail!Inv'
  <2>1. /\ v5' \in [Operators -> Fail!Ops] /\ \A p \in Operators : p # o => v5'[p] = v5[p]
        /\ v5'[o].pc = "idle" \/ (v5'[o].pc = "flush" /\ v5'[o].todo # <<>> /\ v5'[o].job = "none")
    BY <1>f, <1>8 DEF Fail!Inv, Fail!TypeOK
  <2>2. Fail!TypeOK' /\ Fail!ListedOnce'
    BY <1>8, <2>1 DEF Fail!Inv, Fail!TypeOK, Fail!ListedOnce
  <2>3. \A p \in Operators, i \in Jobs : Fail!ActsOn(p, i)' <=> Fail!ActsOn(p, i)
    BY <1>8, <2>1, FailedAssumption DEF Fail!ActsOn, Fail!Inv, Fail!TypeOK
  <2>4. \A i \in Jobs : ~Fail!ActsOn(o, i)
    BY <1>8, FailedAssumption DEF Fail!ActsOn, Fail!Inv, Fail!TypeOK
  <2>5. ASSUME NEW i \in Jobs, Fail!Placed(i) PROVE Fail!Placed(i)'
    BY <1>8, <2>1, <2>3, <2>4, <2>5 DEF Fail!Placed, Fail!Alive, Fail!Gone, Fail!Busy
  <2> QED
    BY <1>8, <2>2, <2>5 DEF Fail!Inv
<1>9. ASSUME NEW o \in Operators, Fail!FlushFailed(o) PROVE Fail!Inv'
  <2>1. PICK todo \in Fail!List : v5' = [v5 EXCEPT ![o] = Fail!Flushing(todo)]
    BY <1>9 DEF Fail!FlushFailed
  <2>2. todo \in Seq(Jobs)
    BY DEF Fail!List, Fail!Inv, Fail!TypeOK
  <2> QED
    BY <1>8, <1>9, <2>1, <2>2 DEF Fail!FlushFailed
<1>10. ASSUME NEW o \in Operators, Fail!FlushNext(o) PROVE Fail!Inv'
  <2> DEFINE j == Head(v5[o].todo)  rest == Tail(v5[o].todo)
  <2>1. v5[o].todo \in Seq(Jobs) /\ v5[o].todo # <<>>
    BY <1>10 DEF Fail!FlushNext, Fail!Inv, Fail!TypeOK, Fail!Ops
  <2>2. j \in Jobs /\ rest \in Seq(Jobs)
    BY <2>1
  <2>3. CASE v1[j] > 0
    <3>1. Fail!Doing("forget", j, rest) \in Fail!Ops /\ Fail!Doing("forget", j, rest).pc = "forget" /\ Fail!Doing("forget", j, rest).job = j
      BY <2>2 DEF Fail!Doing, Fail!Ops
    <3>2. /\ v5' = [v5 EXCEPT ![o] = Fail!Doing("forget", j, rest)] /\ v5[o].pc = "flush"
          /\ v9' = v9 \cup (IF Fail!Busy(j) THEN {j} ELSE {})
          /\ UNCHANGED <<v1, v2, v3, v4, v6, v8>>
      BY <1>10, <2>3 DEF Fail!FlushNext, Fail!Marked
    <3> HIDE DEF j, rest
    <3> QED
      BY <1>4, <2>2, <2>3, <3>1, <3>2
  <2>4. CASE ~(v1[j] > 0)
    <3>1. /\ v5' = [v5 EXCEPT ![o] = Fail!Flushing(rest)] /\ v5[o].pc = "flush"
          /\ UNCHANGED <<v1, v2, v3, v4, v6, v8, v9>>
      BY <1>10, <2>4 DEF Fail!FlushNext
    <3> HIDE DEF j, rest
    <3> QED
      BY <1>8, <2>2, <3>1
  <2> QED
    BY <2>3, <2>4
<1>11. CASE UNCHANGED Fail!fjVars
  BY <1>11 DEF Fail!fjVars, Fail!Inv, Fail!TypeOK, Fail!ListedOnce, Fail!Placed, Fail!Alive, Fail!Gone, Fail!Busy, Fail!ActsOn
<1> QED
  BY <1>1, <1>2, <1>3, <1>5, <1>6, <1>7, <1>9, <1>10, <1>11 DEF Fail!Next

\* The invariant of the failed job store implies the properties.
LEMMA FailedSafe == Fail!Inv => Fail!ListedOnce /\ Fail!InOnePlace
<1> SUFFICES ASSUME Fail!Inv, NEW j \in Jobs \ v9
             PROVE  LET held == v3[j] + v4[j] + (IF v1[j] > 0 /\ ~Fail!Busy(j) THEN 1 ELSE 0)
                    IN  held <= 1 /\ (held = 0 => j \in v8 \/ Fail!Busy(j))
  BY DEF Fail!Inv, Fail!InOnePlace
<1>1. Fail!Placed(j) /\ v3[j] \in Nat /\ v4[j] \in Nat /\ v1[j] \in Nat
  BY DEF Fail!Inv, Fail!TypeOK
<1>2. CASE Fail!Busy(j)
  BY <1>1, <1>2 DEF Fail!Placed, Fail!Alive, Fail!Gone, Fail!Busy
<1>3. CASE ~Fail!Busy(j)
  BY <1>1, <1>3 DEF Fail!Placed, Fail!Alive, Fail!Gone
<1> QED
  BY <1>2, <1>3

-----------------------------------------------------------------------------
(***************************************************************************)
(* WebsocketHub, the instance Ws: its variables are v1 hubClosed, v2       *)
(* conns, v3 table, v4 mine, v5 stage, v6 doneCloses, v7 onceDone, v8      *)
(* outbox, v9 lost, v10 wrt, v11 op, v12 toClose, v13 ops, v14 late, v15   *)
(* crossed.                                                                *)
(***************************************************************************)

\* The invariant of the websocket adapter holds initially.
LEMMA WsStart == Ws!Init => Ws!Inv
<1> SUFFICES ASSUME Ws!Init PROVE Ws!Inv
  OBVIOUS
<1>1. Ws!NoOp \in Ws!Ops /\ Ws!NoOp.kind = "none"
  BY DEF Ws!NoOp, Ws!Ops
<1>2. Ws!TypeOK
  BY <1>1 DEF Ws!Init, Ws!TypeOK
<1>3. Ws!ClosedByOnce
  BY DEF Ws!Init, Ws!ClosedByOnce
<1>4. \A c \in Conns, ch \in Channels : Ws!Inside(c, ch) = {}
  BY <1>1 DEF Ws!Init, Ws!Inside
<1>5. ASSUME NEW c \in Conns, NEW ch \in Channels PROVE Ws!Tidy(c, ch)
  BY <1>4 DEF Ws!Init, Ws!Tidy
<1> QED
  BY <1>2, <1>3, <1>5 DEF Ws!Inv

\* A step that changes neither table, membership, stage nor a join or leave under way keeps a pair
\* tidy.
LEMMA WsSameCalls ==
  ASSUME NEW c, NEW ch, Ws!Tidy(c, ch), UNCHANGED <<v3, v4, v5>>,
         \A p \in Procs : \/ v11'[p] = v11[p]
                          \/ v11[p].kind \notin {"join", "leave"} /\ v11'[p].kind \notin {"join", "leave"}
  PROVE  Ws!Tidy(c, ch)'
<1>1. Ws!Inside(c, ch)' = Ws!Inside(c, ch) /\ \A p \in Ws!Inside(c, ch) : v11'[p] = v11[p]
  BY DEF Ws!Inside
<1> QED
  BY <1>1 DEF Ws!Tidy

\* closeDone under its Once: done is closed by the first caller and by nobody else.
LEMMA WsClosing ==
  ASSUME Ws!TypeOK, Ws!ClosedByOnce, NEW c \in Conns, Ws!closing(c), UNCHANGED v14
  PROVE  v6' \in [Conns -> Nat] /\ Ws!ClosedByOnce'
<1>1. /\ v6' \in [Conns -> Nat] /\ v6'[c] = (IF c \in v7 THEN v6[c] ELSE v6[c] + 1)
      /\ \A d \in Conns : d # c => v6'[d] = v6[d]
  BY DEF Ws!closing, Ws!TypeOK
<1> QED
  BY <1>1 DEF Ws!closing, Ws!ClosedByOnce

\* Every step of the websocket adapter preserves the invariant.
LEMMA WsStep == Ws!Inv /\ [Ws!Next]_Ws!wsVars => Ws!Inv'
<1> SUFFICES ASSUME Ws!Inv, [Ws!Next]_Ws!wsVars PROVE Ws!Inv'
  OBVIOUS
<1> USE DEF Ws!Inv
<1>0. Ws!NoOp \in Ws!Ops /\ Ws!NoOp.kind = "none"
  BY DEF Ws!NoOp, Ws!Ops
<1>i. \A c, ch : \A p \in Ws!Inside(c, ch) : p \in Procs /\ v11[p].kind \in {"join", "leave"} /\ v11[p].conn = c /\ v11[p].ch = ch
  BY DEF Ws!Inside
<1>1. ASSUME NEW c \in Conns, Ws!Handler(c) \/ Ws!register(c) \/ Ws!runEnds(c) PROVE Ws!Inv'
  <2>1. /\ v5' \in [Conns -> {"new", "accepted", "reading", "ending", "gone", "refused"}]
        /\ \A d \in Conns : v5'[d] = "gone" <=> v5[d] = "gone"
    BY <1>1 DEF Ws!Handler, Ws!register, Ws!runEnds, Ws!TypeOK
  <2>2. UNCHANGED <<v3, v4, v11, v15>> /\ v2' \subseteq Conns
    BY <1>1 DEF Ws!Handler, Ws!register, Ws!runEnds, Ws!TypeOK
  <2>3. v6' \in [Conns -> Nat] /\ Ws!ClosedByOnce'
    <3>1. CASE Ws!Handler(c)
      BY <3>1 DEF Ws!Handler, Ws!TypeOK, Ws!ClosedByOnce
    <3>2. CASE Ws!register(c)
      BY <3>2 DEF Ws!register, Ws!TypeOK, Ws!ClosedByOnce
    <3>3. CASE Ws!runEnds(c)
      BY <3>3, WsClosing DEF Ws!runEnds
    <3> QED
      BY <1>1, <3>1, <3>2, <3>3
  <2>4. Ws!TypeOK'
    BY <2>1, <2>2, <2>3 DEF Ws!TypeOK
  <2>5. ASSUME NEW d \in Conns, NEW ch \in Channels, Ws!Tidy(d, ch) PROVE Ws!Tidy(d, ch)'
    BY <2>1, <2>2, <2>5 DEF Ws!Tidy, Ws!Inside
  <2> QED
    BY <2>2, <2>3, <2>4, <2>5
<1>2. ASSUME NEW c \in Conns, Ws!unregister(c) PROVE Ws!Inv'
  <2>1. /\ v5' \in [Conns -> {"new", "accepted", "reading", "ending", "gone", "refused"}]
        /\ \A d \in Conns : d # c => v5'[d] = v5[d]
    BY <1>2 DEF Ws!unregister, Ws!TypeOK
  <2>2. /\ v2' \subseteq Conns /\ UNCHANGED <<v4, v6, v7, v11, v14>>
        /\ \A ch \in Channels : v3'[ch] = IF ch \in v4[c] THEN v3[ch] \ {c} ELSE v3[ch]
        /\ v3' \in [Channels -> SUBSET Conns]
    BY <1>2 DEF Ws!unregister, Ws!withoutConn, Ws!TypeOK
  <2>3. Ws!TypeOK' /\ Ws!ClosedByOnce'
    BY <2>1, <2>2 DEF Ws!TypeOK, Ws!ClosedByOnce
  <2>4. v15' = v15 \cup {<<c, ch>> : ch \in {x \in Channels : Ws!Inside(c, x) # {}}}
    BY <1>2 DEF Ws!unregister
  <2>5. ASSUME NEW d \in Conns, NEW ch \in Channels, <<d, ch>> \notin v15' PROVE Ws!Tidy(d, ch)'
    <3>1. Ws!Tidy(d, ch) /\ (d = c => Ws!Inside(c, ch) = {})
      BY <2>4, <2>5
    <3>2. Ws!Inside(d, ch)' = Ws!Inside(d, ch)
      BY <2>2 DEF Ws!Inside
    <3>3. CASE d = c
      BY <2>2, <3>1, <3>2, <3>3 DEF Ws!Tidy
    <3>4. CASE d # c
      BY <2>1, <2>2, <3>1, <3>2, <3>4 DEF Ws!Tidy
    <3> QED
      BY <3>3, <3>4
  <2> QED
    BY <2>3, <2>5
<1>3. ASSUME NEW c \in Conns, Ws!writerExits(c) \/ Ws!write(c) PROVE Ws!Inv'
  <2>1. UNCHANGED <<v2, v3, v4, v5, v6, v7, v11, v14, v15>>
    BY <1>3 DEF Ws!writerExits, Ws!write
  <2> QED
    BY <2>1 DEF Ws!TypeOK, Ws!ClosedByOnce, Ws!Tidy, Ws!Inside
<1>4. ASSUME NEW c \in Conns, Ws!closeNext(c) PROVE Ws!Inv'
  <2>1. UNCHANGED <<v2, v3, v4, v5, v11, v14, v15>> /\ Ws!closing(c)
    BY <1>4 DEF Ws!closeNext
  <2>2. v6' \in [Conns -> Nat] /\ Ws!ClosedByOnce'
    BY <2>1, WsClosing
  <2> QED
    BY <2>1, <2>2 DEF Ws!TypeOK, Ws!Tidy, Ws!Inside
<1>5. ASSUME NEW p \in Procs, NEW c \in Conns, Ws!CloseConn(p, c) PROVE Ws!Inv'
  <2>1. UNCHANGED <<v2, v3, v4, v5, v11, v14, v15>> /\ Ws!closing(c)
    BY <1>5 DEF Ws!CloseConn
  <2>2. v6' \in [Conns -> Nat] /\ Ws!ClosedByOnce'
    BY <2>1, WsClosing
  <2> QED
    BY <2>1, <2>2 DEF Ws!TypeOK, Ws!Tidy, Ws!Inside
<1>6. CASE Ws!Close
  <2>1. /\ v2' \subseteq Conns /\ v3' \in [Channels -> SUBSET Conns] /\ \A ch \in Channels : v3'[ch] = {}
        /\ UNCHANGED <<v4, v5, v6, v7, v11, v14, v15>>
    BY <1>6 DEF Ws!Close
  <2> QED
    BY <2>1 DEF Ws!TypeOK, Ws!ClosedByOnce, Ws!Tidy, Ws!Inside
<1>7. ASSUME NEW p \in Procs, NEW c \in Conns, NEW ch \in Channels, Ws!JoinMine(p, c, ch) PROVE Ws!Inv'
  <2> DEFINE k == [kind |-> "join", conn |-> c, ch |-> ch, left |-> {}]
  <2>1. k \in Ws!Ops /\ k.kind = "join" /\ k.conn = c /\ k.ch = ch
    BY DEF Ws!Ops
  <2> HIDE DEF k
  <2>2. /\ v11' = [v11 EXCEPT ![p] = k] /\ v11[p] = Ws!NoOp
        /\ v15' = IF Ws!Inside(c, ch) # {} \/ v5[c] = "gone" THEN v15 \cup {<<c, ch>>} ELSE v15
        /\ v4' = [v4 EXCEPT ![c] = @ \cup {ch}] /\ UNCHANGED <<v2, v3, v5, v6, v7, v14>>
    BY <1>7 DEF Ws!JoinMine, Ws!Begin, k
  <2>3. v11' \in [Procs -> Ws!Ops] /\ v11'[p] = k /\ \A q \in Procs : q # p => v11'[q] = v11[q]
    BY <2>1, <2>2 DEF Ws!TypeOK
  <2>4. /\ v4' \in [Conns -> SUBSET Channels] /\ ch \in v4'[c]
        /\ \A d \in Conns, x \in Channels : <<d, x>> # <<c, ch>> => (x \in v4'[d] <=> x \in v4[d])
    BY <2>2 DEF Ws!TypeOK
  <2>5. Ws!TypeOK' /\ Ws!ClosedByOnce'
    BY <2>1, <2>2, <2>3, <2>4 DEF Ws!TypeOK, Ws!ClosedByOnce
  <2>6. ASSUME NEW d \in Conns, NEW x \in Channels, <<d, x>> \notin v15' PROVE Ws!Tidy(d, x)'
    <3>1. Ws!Tidy(d, x)
      BY <2>2, <2>6
    <3>2. CASE <<d, x>> = <<c, ch>>
      <4>1. Ws!Inside(c, ch) = {} /\ v5[c] # "gone"
        BY <2>2, <2>6, <3>2
      <4>2. Ws!Inside(c, ch)' = {p}
        BY <2>1, <2>3, <4>1 DEF Ws!Inside
      <4> QED
        BY <2>1, <2>2, <2>3, <2>4, <3>2, <4>1, <4>2 DEF Ws!Tidy
    <3>3. CASE <<d, x>> # <<c, ch>>
      <4>1. Ws!Inside(d, x)' = Ws!Inside(d, x) /\ \A q \in Ws!Inside(d, x) : v11'[q] = v11[q]
        BY <1>0, <2>1, <2>2, <2>3, <3>3 DEF Ws!Inside
      <4> QED
        BY <2>2, <2>4, <3>1, <3>3, <4>1 DEF Ws!Tidy
    <3> QED
      BY <3>2, <3>3
  <2> QED
    BY <2>5, <2>6
<1>8. ASSUME NEW p \in Procs, NEW c \in Conns, NEW ch \in Channels, Ws!LeaveMine(p, c, ch) PROVE Ws!Inv'
  <2> DEFINE k == [kind |-> "leave", conn |-> c, ch |-> ch, left |-> {}]
  <2>1. k \in Ws!Ops /\ k.kind = "leave" /\ k.conn = c /\ k.ch = ch
    BY DEF Ws!Ops
  <2> HIDE DEF k
  <2>2. /\ v11' = [v11 EXCEPT ![p] = k] /\ v11[p] = Ws!NoOp
        /\ v15' = IF Ws!Inside(c, ch) # {} THEN v15 \cup {<<c, ch>>} ELSE v15
        /\ v4' = [v4 EXCEPT ![c] = @ \ {ch}] /\ UNCHANGED <<v2, v3, v5, v6, v7, v14>>
    BY <1>8 DEF Ws!LeaveMine, Ws!Begin, k
  <2>3. v11' \in [Procs -> Ws!Ops] /\ v11'[p] = k /\ \A q \in Procs : q # p => v11'[q] = v11[q]
    BY <2>1, <2>2 DEF Ws!TypeOK
  <2>4. /\ v4' \in [Conns -> SUBSET Channels]
        /\ \A d \in Conns, x \in Channels : <<d, x>> # <<c, ch>> => (x \in v4'[d] <=> x \in v4[d])
    BY <2>2 DEF Ws!TypeOK
  <2>5. Ws!TypeOK' /\ Ws!ClosedByOnce'
    BY <2>1, <2>2, <2>3, <2>4 DEF Ws!TypeOK, Ws!ClosedByOnce
  <2>6. ASSUME NEW d \in Conns, NEW x \in Channels, <<d, x>> \notin v15' PROVE Ws!Tidy(d, x)'
    <3>1. Ws!Tidy(d, x)
      BY <2>2, <2>6
    <3>2. CASE <<d, x>> = <<c, ch>>
      <4>1. Ws!Inside(c, ch) = {}
        BY <2>2, <2>6, <3>2
      <4>2. Ws!Inside(c, ch)' = {p}
        BY <2>1, <2>3, <4>1 DEF Ws!Inside
      <4> QED
        BY <2>1, <2>2, <2>3, <3>1, <3>2, <4>1, <4>2 DEF Ws!Tidy
    <3>3. CASE <<d, x>> # <<c, ch>>
      <4>1. Ws!Inside(d, x)' = Ws!Inside(d, x) /\ \A q \in Ws!Inside(d, x) : v11'[q] = v11[q]
        BY <1>0, <2>1, <2>2, <2>3, <3>3 DEF Ws!Inside
      <4> QED
        BY <2>2, <2>4, <3>1, <3>3, <4>1 DEF Ws!Tidy
    <3> QED
      BY <3>2, <3>3
  <2> QED
    BY <2>5, <2>6
<1>9. ASSUME NEW p \in Procs, Ws!JoinHub(p) \/ Ws!LeaveHub(p) PROVE Ws!Inv'
  <2>0. PICK c \in Conns, ch \in Channels : c = v11[p].conn /\ ch = v11[p].ch
    BY <1>9 DEF Ws!JoinHub, Ws!LeaveHub, Ws!TypeOK
  <2>1. /\ p \in Ws!Inside(c, ch) /\ UNCHANGED <<v2, v4, v5, v6, v7, v14, v15>>
        /\ v11' = [v11 EXCEPT ![p] = Ws!NoOp]
    BY <1>9, <2>0 DEF Ws!JoinHub, Ws!LeaveHub, Ws!Inside
  <2>2. v11' \in [Procs -> Ws!Ops] /\ v11'[p] = Ws!NoOp /\ \A q \in Procs : q # p => v11'[q] = v11[q]
    BY <1>0, <2>1 DEF Ws!TypeOK
  <2>3. /\ v3' \in [Channels -> SUBSET Conns]
        /\ \A d \in Conns, x \in Channels : <<d, x>> # <<c, ch>> => (d \in v3'[x] <=> d \in v3[x])
        /\ v11[p].kind = "leave" => c \notin v3'[ch]
    BY <1>9, <2>0 DEF Ws!JoinHub, Ws!LeaveHub, Ws!TypeOK
  <2>4. Ws!TypeOK' /\ Ws!ClosedByOnce'
    BY <1>0, <2>1, <2>2, <2>3 DEF Ws!TypeOK, Ws!ClosedByOnce
  <2>5. \A d \in Conns, x \in Channels : Ws!Inside(d, x)' = Ws!Inside(d, x) \ {p}
    BY <1>0, <2>2 DEF Ws!Inside
  <2>6. ASSUME NEW d \in Conns, NEW x \in Channels, <<d, x>> \notin v15 PROVE Ws!Tidy(d, x)'
    <3>1. Ws!Tidy(d, x)
      BY <2>6
    <3>2. CASE <<d, x>> = <<c, ch>>
      <4>1. Ws!Inside(d, x)' = {}
        BY <2>1, <2>5, <3>1, <3>2 DEF Ws!Tidy
      <4>2. v11[p].kind = "join" \/ v11[p].kind = "leave"
        BY <1>9 DEF Ws!JoinHub, Ws!LeaveHub
      <4> QED
        BY <2>1, <2>3, <3>1, <3>2, <4>1, <4>2 DEF Ws!Tidy
    <3>3. CASE <<d, x>> # <<c, ch>>
      <4>0. p \notin Ws!Inside(d, x)
        BY <2>0, <3>3, <1>i
      <4>1. Ws!Inside(d, x)' = Ws!Inside(d, x) /\ \A q \in Ws!Inside(d, x) : v11'[q] = v11[q]
        <5>1. Ws!Inside(d, x)' = Ws!Inside(d, x)
          BY <2>5, <4>0
        <5>2. \A q \in Ws!Inside(d, x) : q \in Procs /\ q # p
          BY <4>0, <1>i
        <5> QED
          BY <2>2, <5>1, <5>2
      <4> QED
        BY <2>1, <2>3, <3>1, <3>3, <4>1 DEF Ws!Tidy
    <3> QED
      BY <3>2, <3>3
  <2> QED
    BY <2>1, <2>4, <2>6
<1>10. ASSUME NEW p \in Procs, NEW k \in Ws!Ops, v11' = [v11 EXCEPT ![p] = k], k.kind \in {"none", "send"},
              v11[p].kind \in {"none", "send"}, UNCHANGED <<v2, v3, v4, v5, v6, v7, v14, v15>>
       PROVE Ws!Inv'
  <2>1. v11' \in [Procs -> Ws!Ops] /\ v11'[p] = k /\ \A q \in Procs : q # p => v11'[q] = v11[q]
    BY <1>10 DEF Ws!TypeOK
  <2>2. Ws!TypeOK' /\ Ws!ClosedByOnce'
    BY <1>10, <2>1 DEF Ws!TypeOK, Ws!ClosedByOnce
  <2>3. \A q \in Procs : \/ v11'[q] = v11[q]
                         \/ v11[q].kind \notin {"join", "leave"} /\ v11'[q].kind \notin {"join", "leave"}
    BY <1>10, <2>1
  <2>4. ASSUME NEW d \in Conns, NEW x \in Channels, <<d, x>> \notin v15 PROVE Ws!Tidy(d, x)'
    BY <1>10, <2>3, <2>4, WsSameCalls
  <2> QED
    BY <1>10, <2>2, <2>4
<1>11. ASSUME NEW p \in Procs, NEW ch \in Channels, Ws!Broadcast(p, ch) PROVE Ws!Inv'
  <2> DEFINE k == [kind |-> "send", conn |-> "none", ch |-> ch, left |-> v3[ch]]
  <2>1. k \in Ws!Ops /\ k.kind = "send"
    BY DEF Ws!Ops, Ws!TypeOK
  <2> HIDE DEF k
  <2>2. v11' = [v11 EXCEPT ![p] = k] /\ v11[p].kind = "none" /\ UNCHANGED <<v2, v3, v4, v5, v6, v7, v14, v15>>
    BY <1>0, <1>11 DEF Ws!Broadcast, Ws!Begin, k
  <2> QED
    BY <1>10, <2>1, <2>2
<1>12. ASSUME NEW p \in Procs, NEW c \in Conns, Ws!SendTo(p, c) PROVE Ws!Inv'
  <2> DEFINE k == [kind |-> "send", conn |-> c, ch |-> "none", left |-> {c}]
  <2>1. k \in Ws!Ops /\ k.kind = "send"
    BY DEF Ws!Ops
  <2> HIDE DEF k
  <2>2. v11' = [v11 EXCEPT ![p] = k] /\ v11[p].kind = "none" /\ UNCHANGED <<v2, v3, v4, v5, v6, v7, v14, v15>>
    BY <1>0, <1>12 DEF Ws!SendTo, Ws!Begin, k
  <2> QED
    BY <1>10, <2>1, <2>2
<1>13. ASSUME NEW p \in Procs, NEW c \in Conns, Ws!enqueue(p, c) PROVE Ws!Inv'
  <2> DEFINE k == [v11[p] EXCEPT !.left = @ \ {c}]
  <2>1. k \in Ws!Ops /\ k.kind = "send"
    BY <1>13 DEF Ws!enqueue, Ws!Ops, Ws!TypeOK
  <2> HIDE DEF k
  <2>2. v11' = [v11 EXCEPT ![p] = k] /\ v11[p].kind = "send" /\ UNCHANGED <<v2, v3, v4, v5, v6, v7, v14, v15>>
    BY <1>13 DEF Ws!enqueue, k
  <2> QED
    BY <1>10, <2>1, <2>2
<1>14. ASSUME NEW p \in Procs, Ws!sent(p) PROVE Ws!Inv'
  BY <1>0, <1>10, <1>14 DEF Ws!sent
<1>15. CASE UNCHANGED Ws!wsVars
  BY <1>15 DEF Ws!wsVars, Ws!TypeOK, Ws!ClosedByOnce, Ws!Tidy, Ws!Inside
<1> QED
  BY <1>1, <1>2, <1>3, <1>4, <1>5, <1>6, <1>7, <1>8, <1>9, <1>11, <1>12, <1>13, <1>14, <1>15 DEF Ws!Next

\* The invariant of the websocket adapter implies the properties.
LEMMA WsSafe == Ws!Inv => Ws!DoneClosedOnce /\ Ws!NoGhostMembers
BY DEF Ws!Inv, Ws!ClosedByOnce, Ws!DoneClosedOnce, Ws!Tidy, Ws!NoGhostMembers

-----------------------------------------------------------------------------
(***************************************************************************)
(* Events, the instance Ev: its variables are v1 arrays, v2 slice, v3      *)
(* stopOn, v4 listened, v5 forgets, v6 walk, v7 registered, v8 sending, v9 *)
(* registers.                                                              *)
(***************************************************************************)

\* The invariant of the event dispatcher holds initially.
LEMMA EventStart == Ev!EventInit => Ev!EventInv
<1> SUFFICES ASSUME Ev!EventInit PROVE Ev!EventInv
  OBVIOUS
<1>1. Ev!NilSlice \in Ev!Slices /\ Ev!NilSlice.arr = 0 /\ Ev!NilSlice.len = 0
  BY DEF Ev!NilSlice, Ev!Slices
<1>2. Ev!NoWalk \in Ev!Walks /\ ~Ev!NoWalk.on /\ Ev!NoWalk.called = <<>>
  BY <1>1 DEF Ev!NoWalk, Ev!Walks
<1>3. v3 \in BOOLEAN /\ v4 \in Nat
  BY DEF Ev!EventInit
<1>4. v1 \in Seq(Seq(Nat)) /\ Len(v1) = 0 /\ v2 = Ev!NilSlice /\ v6 = [d \in Dispatchers |-> Ev!NoWalk]
  BY DEF Ev!EventInit
<1>5. Ev!EventTypeOK
  BY <1>1, <1>2, <1>3, <1>4 DEF Ev!EventTypeOK
<1> QED
  BY <1>2, <1>4, <1>5 DEF Ev!EventInv

\* Every step of the event dispatcher preserves the invariant.
LEMMA EventStep == Ev!EventInv /\ [Ev!EventNext]_Ev!evVars => Ev!EventInv'
<1> SUFFICES ASSUME Ev!EventInv, [Ev!EventNext]_Ev!evVars PROVE Ev!EventInv'
  OBVIOUS
<1>0. Ev!NilSlice \in Ev!Slices /\ Ev!NilSlice.arr = 0 /\ Ev!NilSlice.len = 0
  BY DEF Ev!NilSlice, Ev!Slices
<1>t. /\ v2.arr \in Nat /\ v2.len \in Nat /\ Len(v1) \in Nat
      /\ \A a \in 1 .. Len(v1) : v1[a] \in Seq(Nat) /\ Len(v1[a]) \in Nat
      /\ \A d \in Dispatchers : v6[d].slice.arr \in Nat /\ v6[d].slice.len \in Nat
  BY LenProperties DEF Ev!EventInv, Ev!EventTypeOK, Ev!Slices, Ev!Walks
<1>1. CASE Ev!Listen /\ v2.arr # 0 /\ v2.len < Len(v1[v2.arr])
  <2>1. /\ v1' = [v1 EXCEPT ![v2.arr][v2.len + 1] = v4 + 1] /\ v4' = v4 + 1
        /\ v2' = [arr |-> v2.arr, len |-> v2.len + 1] /\ UNCHANGED <<v3, v6>>
    BY <1>1 DEF Ev!Listen
  <2>2. v2.arr \in 1 .. Len(v1) /\ v2.len + 1 \in 1 .. Len(v1[v2.arr])
    BY <1>1, <1>t DEF Ev!EventInv, Ev!EventTypeOK
  <2> DEFINE b == [v1[v2.arr] EXCEPT ![v2.len + 1] = v4 + 1]
  <2>3. /\ b \in Seq(Nat) /\ Len(b) = Len(v1[v2.arr])
        /\ \A j \in 1 .. Len(b) : j # v2.len + 1 => b[j] = v1[v2.arr][j]
    <3>1. v1[v2.arr] \in Seq(Nat) /\ v4 + 1 \in Nat
      BY <1>t, <2>2, SMTT(30) DEF Ev!EventInv, Ev!EventTypeOK
    <3> QED
      BY <2>2, <3>1, ExceptSeq
  <2> HIDE DEF b
  <2>4. v1' = [v1 EXCEPT ![v2.arr] = b]
    BY <2>1 DEF b
  <2>5. /\ v1' \in Seq(Seq(Nat)) /\ Len(v1') = Len(v1)
        /\ \A a \in 1 .. Len(v1) : v1'[a] = IF a = v2.arr THEN b ELSE v1[a]
    BY <2>2, <2>3, <2>4, ExceptSeq DEF Ev!EventInv, Ev!EventTypeOK
  <2>6. v2' \in Ev!Slices /\ v2'.arr = v2.arr /\ v2'.len = v2.len + 1
    BY <1>t, <2>1 DEF Ev!Slices
  <2>7. Ev!EventTypeOK'
    BY <1>t, <2>1, <2>2, <2>3, <2>5, <2>6, SMTT(30) DEF Ev!EventInv, Ev!EventTypeOK
  <2>8. ASSUME NEW d \in Dispatchers, v6[d].on, Ev!CellsKept(d) PROVE Ev!CellsKept(d)'
    <3>1. v6'[d] = v6[d]
      BY <2>1
    <3>2. CASE v6[d].slice.arr = v2.arr
      <4> DEFINE n == v6[d].slice.len
      <4>1. n \in Nat /\ n <= v2.len /\ v2.len + 1 <= Len(b)
        BY <1>t, <2>2, <2>3, <2>8, <3>2 DEF Ev!CellsKept
      <4>2. v1'[v2.arr] = b /\ \A i \in 1 .. n : v1[v2.arr][i] = v6[d].expect[i]
        BY <2>2, <2>5, <2>8, <3>2 DEF Ev!CellsKept
      <4>3. \A i \in 1 .. n : b[i] = v6[d].expect[i]
        <5>1. v2.len \in Nat /\ Len(b) \in Nat
          BY <1>t, <2>3, LenProperties
        <5> HIDE DEF n
        <5>2. \A i \in 1 .. n : i \in 1 .. Len(b) /\ i # v2.len + 1
          BY <4>1, <5>1
        <5> QED
          BY <2>3, <4>2, <5>2
      <4>4. v2.arr \in 1 .. Len(v1') /\ n <= Len(b) /\ n <= v2'.len /\ Len(v6[d].expect) = n
        <5>1. v2.arr \in 1 .. Len(v1') /\ Len(v6[d].expect) = n
          BY <2>2, <2>5, <2>8 DEF Ev!CellsKept
        <5>2. v2.len \in Nat /\ Len(b) \in Nat /\ v2'.len = v2.len + 1
          BY <1>t, <2>3, <2>6, LenProperties
        <5> HIDE DEF n
        <5> QED
          BY <4>1, <5>1, <5>2
      <4> QED
        BY <3>1, <3>2, <4>2, <4>3, <4>4 DEF Ev!CellsKept
    <3>3. CASE v6[d].slice.arr # v2.arr
      <4>1. v6[d].slice.arr \in 1 .. Len(v1)
        BY <2>8 DEF Ev!CellsKept
      <4>2. v1'[v6[d].slice.arr] = v1[v6[d].slice.arr]
        BY <2>5, <3>3, <4>1
      <4> QED
        BY <2>5, <2>6, <2>8, <3>1, <3>3, <4>1, <4>2 DEF Ev!CellsKept
    <3> QED
      BY <3>2, <3>3
  <2> QED
    BY <2>1, <2>7, <2>8 DEF Ev!EventInv, Ev!CalledSoFar
<1>2. CASE Ev!Listen /\ ~(v2.arr # 0 /\ v2.len < Len(v1[v2.arr]))
  <2> DEFINE n == IF v2.len = 0 THEN 1 ELSE 2 * v2.len
             b == [i \in 1 .. n |-> IF i <= v2.len THEN v1[v2.arr][i]
                                    ELSE IF i = v2.len + 1 THEN v4 + 1 ELSE 0]
  <2>1. /\ v1' = Append(v1, b) /\ v4' = v4 + 1
        /\ v2' = [arr |-> Len(v1) + 1, len |-> v2.len + 1] /\ UNCHANGED <<v3, v6>>
    BY <1>2 DEF Ev!Listen
  <2>2. n \in Nat /\ n >= v2.len + 1
    BY <1>t
  <2>3. b \in Seq(Nat) /\ Len(b) = n
    <3>1. \A i \in 1 .. n : i <= v2.len => v2.arr \in 1 .. Len(v1) /\ v1[v2.arr] \in Seq(Nat) /\ i \in 1 .. Len(v1[v2.arr])
      BY <1>t, <2>2, SMTT(30) DEF Ev!EventInv, Ev!EventTypeOK
    <3>2. \A i \in 1 .. n : b[i] \in Nat
      BY <3>1 DEF Ev!EventInv, Ev!EventTypeOK
    <3>3. b \in [1 .. n -> Nat]
      BY <3>2
    <3> QED
      BY <2>2, <3>3
  <2> HIDE DEF b, n
  <2>4. /\ v1' \in Seq(Seq(Nat)) /\ Len(v1') = Len(v1) + 1 /\ v1'[Len(v1) + 1] = b
        /\ \A a \in 1 .. Len(v1) : v1'[a] = v1[a]
    BY <2>1, <2>3 DEF Ev!EventInv, Ev!EventTypeOK
  <2>5. v2' \in Ev!Slices /\ v2'.arr = Len(v1) + 1 /\ v2'.len = v2.len + 1
    BY <1>t, <2>1 DEF Ev!Slices
  <2>6. Ev!EventTypeOK'
    BY <1>t, <2>1, <2>2, <2>3, <2>4, <2>5 DEF Ev!EventInv, Ev!EventTypeOK
  <2>7. ASSUME NEW d \in Dispatchers, v6[d].on, Ev!CellsKept(d) PROVE Ev!CellsKept(d)'
    BY <1>t, <2>1, <2>4, <2>5, <2>7 DEF Ev!CellsKept
  <2> QED
    BY <2>1, <2>6, <2>7 DEF Ev!EventInv, Ev!CalledSoFar
<1>3. CASE Ev!Forget
  BY <1>0, <1>3, <1>t DEF Ev!Forget, Ev!dropped, Ev!EventInv, Ev!EventTypeOK, Ev!CellsKept, Ev!CalledSoFar
<1>4. CASE Ev!StopOnError
  BY <1>4 DEF Ev!StopOnError, Ev!EventInv, Ev!EventTypeOK, Ev!CellsKept, Ev!CalledSoFar
<1>5. ASSUME NEW d \in Dispatchers, Ev!Dispatch(d) PROVE Ev!EventInv'
  <2> DEFINE k == [on |-> TRUE, slice |-> v2, at |-> 1, called |-> <<>>, expect |-> Ev!View(v2), stop |-> v3, broke |-> FALSE]
  <2>1. v6' = [v6 EXCEPT ![d] = k] /\ v2.len > 0 /\ UNCHANGED <<v1, v2, v3, v4>>
    BY <1>5 DEF Ev!Dispatch
  <2>2. v2.arr \in 1 .. Len(v1) /\ v2.len <= Len(v1[v2.arr]) /\ v1[v2.arr] \in Seq(Nat)
    BY <1>t, <2>1 DEF Ev!EventInv, Ev!EventTypeOK
  <2>3. Ev!View(v2) \in Seq(Nat) /\ Len(Ev!View(v2)) = v2.len /\ \A i \in 1 .. v2.len : Ev!View(v2)[i] = v1[v2.arr][i]
    <3>1. Ev!View(v2) \in [1 .. v2.len -> Nat]
      BY <1>t, <2>2 DEF Ev!View
    <3>2. Len(Ev!View(v2)) = v2.len /\ Ev!View(v2) \in Seq(Nat)
      BY <1>t, <3>1, FunctionIsSeq
    <3>3. \A i \in 1 .. v2.len : Ev!View(v2)[i] = v1[v2.arr][i]
      BY DEF Ev!View
    <3> QED
      BY <3>2, <3>3
  <2>4. /\ k \in Ev!Walks /\ k.on /\ k.slice = v2 /\ k.at = 1 /\ k.called = <<>> /\ k.expect = Ev!View(v2) /\ ~k.broke
    BY <2>3 DEF Ev!Walks, Ev!EventInv, Ev!EventTypeOK
  <2> HIDE DEF k
  <2>5. v6' \in [Dispatchers -> Ev!Walks] /\ v6'[d] = k /\ \A e \in Dispatchers : e # d => v6'[e] = v6[e]
    BY <2>1, <2>4 DEF Ev!EventInv, Ev!EventTypeOK
  <2>6. Ev!CellsKept(d)' /\ Ev!CalledSoFar(d)'
    <3>1. Ev!CellsKept(d)'
      <4>1. v6'[d].slice = v2 /\ v6'[d].expect = Ev!View(v2)
        BY <2>4, <2>5
      <4>2. v2'.len <= v2'.len
        BY <1>t, <2>1
      <4> QED
        BY <2>1, <2>2, <2>3, <4>1, <4>2 DEF Ev!CellsKept
    <3>2. Len(k.called) = 0 /\ v6'[d] = k
      BY <2>4, <2>5
    <3>3. Ev!CalledSoFar(d)'
      BY <1>t, <2>4, <3>2 DEF Ev!CalledSoFar
    <3> QED
      BY <3>1, <3>3
  <2>7. \A e \in Dispatchers : e # d => (Ev!CellsKept(e) => Ev!CellsKept(e)') /\ (Ev!CalledSoFar(e) => Ev!CalledSoFar(e)')
    BY <2>1, <2>5 DEF Ev!CellsKept, Ev!CalledSoFar
  <2> QED
    BY <2>1, <2>4, <2>5, <2>6, <2>7 DEF Ev!EventInv, Ev!EventTypeOK
<1>6. ASSUME NEW d \in Dispatchers, NEW failed \in BOOLEAN, Ev!callListener(d, failed) PROVE Ev!EventInv'
  <2> DEFINE w == v6[d]  x == v1[w.slice.arr][w.at]
             at == IF failed /\ w.stop THEN w.slice.len + 1 ELSE w.at + 1
             k == [w EXCEPT !.called = Append(w.called, x), !.at = at, !.broke = failed /\ w.stop]
  <2>1. v6' = [v6 EXCEPT ![d] = k] /\ w.on /\ w.at <= w.slice.len /\ UNCHANGED <<v1, v2, v3, v4>>
    BY <1>6 DEF Ev!callListener
  <2>2. /\ w \in Ev!Walks /\ w.slice \in Ev!Slices /\ w.slice.len \in Nat /\ w.at \in Nat /\ w.called \in Seq(Nat) /\ w.expect \in Seq(Nat)
        /\ w.stop \in BOOLEAN /\ w.broke \in BOOLEAN /\ Len(w.called) \in Nat
    BY LenProperties DEF Ev!EventInv, Ev!EventTypeOK, Ev!Walks, Ev!Slices
  <2>3. Ev!CellsKept(d) /\ Ev!CalledSoFar(d)
    BY <2>1 DEF Ev!EventInv
  <2>4. ~w.broke /\ w.at = Len(w.called) + 1 /\ w.at \in 1 .. w.slice.len /\ x = w.expect[w.at] /\ x \in Nat
    <3>1. ~w.broke /\ w.at = Len(w.called) + 1
      BY <2>1, <2>2, <2>3 DEF Ev!CalledSoFar
    <3>2. w.at \in 1 .. w.slice.len
      BY <2>1, <2>2, <3>1
    <3>3. x = w.expect[w.at] /\ Len(w.expect) = w.slice.len
      BY <2>3, <3>2 DEF Ev!CellsKept
    <3>4. w.expect[w.at] \in Nat
      BY <2>2, <3>2, <3>3
    <3> QED
      BY <3>1, <3>2, <3>3, <3>4
  <2> HIDE DEF x
  <2>5. /\ Append(w.called, x) \in Seq(Nat) /\ Len(Append(w.called, x)) = w.at
        /\ \A i \in 1 .. w.at : Append(w.called, x)[i] = w.expect[i]
    <3>1. PICK c \in Seq(Nat), n \in Nat : c = w.called /\ n = Len(c) /\ w.at = n + 1
      BY <2>2, <2>4
    <3>2. \A i \in 1 .. n : c[i] = w.expect[i]
      BY <2>3, <3>1 DEF Ev!CalledSoFar
    <3>3. Append(c, x) \in Seq(Nat) /\ Len(Append(c, x)) = n + 1 /\ Append(c, x)[n + 1] = x /\ \A i \in 1 .. n : Append(c, x)[i] = c[i]
      BY <2>4, <3>1, AppendProperties
    <3>4. x = w.expect[n + 1]
      BY <2>4, <3>1
    <3>5. \A i \in 1 .. n + 1 : i \in 1 .. n \/ i = n + 1
      BY <3>1
    <3>6. \A i \in 1 .. n + 1 : Append(c, x)[i] = w.expect[i]
      BY <3>2, <3>3, <3>4, <3>5
    <3> QED
      BY <3>1, <3>3, <3>6
  <2>6. at \in Nat /\ ((failed /\ w.stop) => at = w.slice.len + 1) /\ (~(failed /\ w.stop) => at = w.at + 1)
    BY <2>2
  <2>7. (failed /\ w.stop) \in BOOLEAN
    BY Zenon
  <2> HIDE DEF at
  <2>8. /\ k \in Ev!Walks /\ k.on = w.on /\ k.slice = w.slice /\ k.at = at /\ k.called = Append(w.called, x)
        /\ k.expect = w.expect /\ (k.broke <=> failed /\ w.stop)
    BY <2>2, <2>5, <2>6, <2>7 DEF Ev!Walks
  <2> HIDE DEF k
  <2>9. v6' \in [Dispatchers -> Ev!Walks] /\ v6'[d] = k /\ \A e \in Dispatchers : e # d => v6'[e] = v6[e]
    BY <2>1, <2>8 DEF Ev!EventInv, Ev!EventTypeOK
  <2>10. Ev!CellsKept(d)'
    BY <2>1, <2>3, <2>8, <2>9, SMTT(30) DEF Ev!CellsKept
  <2>11. Ev!CalledSoFar(d)'
    <3>1. Len(k.called) = w.at /\ k.slice.len = w.slice.len /\ k.expect = w.expect
      BY <2>5, <2>8
    <3>2. Len(k.called) <= k.slice.len /\ \A i \in 1 .. Len(k.called) : k.called[i] = k.expect[i]
      BY <2>4, <2>5, <2>8, <3>1
    <3>3. IF k.broke THEN k.at = k.slice.len + 1 ELSE k.at = Len(k.called) + 1
      BY <2>6, <2>8, <3>1
    <3> QED
      BY <2>9, <3>2, <3>3 DEF Ev!CalledSoFar
  <2>12. \A e \in Dispatchers : e # d => (Ev!CellsKept(e) => Ev!CellsKept(e)') /\ (Ev!CalledSoFar(e) => Ev!CalledSoFar(e)')
    BY <2>1, <2>9 DEF Ev!CellsKept, Ev!CalledSoFar
  <2> QED
    BY <2>1, <2>8, <2>9, <2>10, <2>11, <2>12 DEF Ev!EventInv, Ev!EventTypeOK
<1>7. CASE UNCHANGED Ev!evVars
  BY <1>7 DEF Ev!evVars, Ev!EventInv, Ev!EventTypeOK, Ev!CellsKept, Ev!CalledSoFar
<1> QED
  BY <1>1, <1>2, <1>3, <1>4, <1>5, <1>6, <1>7 DEF Ev!EventNext

\* The invariant of the event dispatcher implies the properties.
LEMMA EventSafe == Ev!EventInv => Ev!DispatchSeesItsListeners
<1> SUFFICES ASSUME Ev!EventInv, NEW d \in Dispatchers
             PROVE  /\ v6[d].called = SubSeq(v6[d].expect, 1, Len(v6[d].called))
                    /\ v6[d].on /\ v6[d].at > v6[d].slice.len /\ ~v6[d].broke => v6[d].called = v6[d].expect
  BY DEF Ev!DispatchSeesItsListeners
<1> DEFINE w == v6[d]
<1>1. w.called \in Seq(Nat) /\ w.expect \in Seq(Nat) /\ w.slice.len \in Nat /\ w.at \in Nat /\ Len(w.called) \in Nat
  BY LenProperties DEF Ev!EventInv, Ev!EventTypeOK, Ev!Walks, Ev!Slices
<1>2. CASE ~w.on
  <2>1. w.called = <<>>
    BY <1>2 DEF Ev!EventInv
  <2> QED
    BY <1>1, <1>2, <2>1
<1>3. CASE w.on
  <2>1. Ev!CellsKept(d) /\ Ev!CalledSoFar(d)
    BY <1>3 DEF Ev!EventInv
  <2>2. Len(w.called) <= Len(w.expect) /\ \A i \in 1 .. Len(w.called) : w.called[i] = w.expect[i] /\ w.expect[i] \in Nat
    <3>1. Len(w.called) <= Len(w.expect) /\ \A i \in 1 .. Len(w.called) : w.called[i] = w.expect[i]
      BY <2>1 DEF Ev!CellsKept, Ev!CalledSoFar
    <3>2. \A i \in 1 .. Len(w.called) : i \in 1 .. Len(w.expect)
      BY <1>1, <3>1
    <3>3. \A i \in 1 .. Len(w.called) : w.expect[i] \in Nat
      <4>1. \A i \in 1 .. Len(w.expect) : w.expect[i] \in Nat
        BY <1>1, LenProperties
      <4> QED
        BY <3>2, <4>1
    <3> QED
      BY <3>1, <3>3
  <2>3. /\ SubSeq(w.expect, 1, Len(w.called)) \in Seq(Nat) /\ Len(SubSeq(w.expect, 1, Len(w.called))) = Len(w.called)
        /\ \A i \in 1 .. Len(w.called) : SubSeq(w.expect, 1, Len(w.called))[i] = w.expect[i]
    BY <1>1, <2>2
  <2>4. w.called = SubSeq(w.expect, 1, Len(w.called))
    BY <1>1, <2>2, <2>3, SeqEqual
  <2>5. w.at > w.slice.len /\ ~w.broke => Len(w.called) = Len(w.expect)
    BY <1>1, <2>1 DEF Ev!CellsKept, Ev!CalledSoFar
  <2>6. w.at > w.slice.len /\ ~w.broke => w.called = w.expect
    BY <1>1, <2>2, <2>5, SeqEqual
  <2> QED
    BY <2>4, <2>6
<1> QED
  BY <1>2, <1>3

\* The invariant of the notification channels holds initially.
LEMMA NotifyStart == Ev!NotifyInit => Ev!NotifyInv
BY DEF Ev!NotifyInit, Ev!NotifyInv, Ev!NoSend

\* Every step of the notification channels preserves the invariant.
LEMMA NotifyStep == Ev!NotifyInv /\ [Ev!NotifyNext]_Ev!ntVars => Ev!NotifyInv'
<1> SUFFICES ASSUME Ev!NotifyInv, [Ev!NotifyNext]_Ev!ntVars PROVE Ev!NotifyInv'
  OBVIOUS
<1>1. CASE Ev!Send
  <2> DEFINE k == [on |-> TRUE, left |-> ChannelNames, tried |-> <<>>, always |-> v7]
  <2>1. k \in [on : BOOLEAN, left : Seq(STRING), tried : Seq(STRING), always : SUBSET v7] /\ k.left = ChannelNames /\ k.always = v7
    BY NotifyAssumption
  <2> HIDE DEF k
  <2>2. v8' = k /\ UNCHANGED v7
    BY <1>1 DEF Ev!Send, k
  <2> QED
    BY <2>1, <2>2 DEF Ev!NotifyInv
<1>2. ASSUME NEW i \in DOMAIN ChannelNames, Ev!Register(ChannelNames[i]) PROVE Ev!NotifyInv'
  <2>1. v8' = v8 /\ v7' = v7 \cup {ChannelNames[i]}
    BY <1>2 DEF Ev!Register
  <2>2. v8 \in [on : BOOLEAN, left : Seq(STRING), tried : Seq(STRING), always : SUBSET v7']
    BY <2>1 DEF Ev!NotifyInv
  <2> QED
    BY <2>1, <2>2 DEF Ev!NotifyInv
<1>3. ASSUME NEW o \in {"sent", "error", "noRoute"}, Ev!sendOne(o) PROVE Ev!NotifyInv'
  <2> DEFINE n == Head(v8.left)
             tried == IF n \in v7 /\ o # "noRoute" THEN Append(v8.tried, n) ELSE v8.tried
             always == IF o = "noRoute" THEN v8.always \ {n} ELSE v8.always
             k == [v8 EXCEPT !.left = Tail(v8.left), !.tried = tried, !.always = always]
  <2>1. v8' = k /\ v8.on /\ v8.left # <<>> /\ UNCHANGED v7
    BY <1>3 DEF Ev!sendOne
  <2>2. v8.left \in Seq(STRING) /\ v8.tried \in Seq(STRING) /\ v8.always \subseteq v7
    BY DEF Ev!NotifyInv
  <2>3. /\ n \in STRING /\ Tail(v8.left) \in Seq(STRING)
        /\ \A i \in DOMAIN v8.left : v8.left[i] # n => \E j \in DOMAIN Tail(v8.left) : Tail(v8.left)[j] = v8.left[i]
    <3>1. n \in STRING /\ Tail(v8.left) \in Seq(STRING) /\ n = v8.left[1]
      <4>1. ASSUME NEW s \in Seq(STRING), s # <<>> PROVE Head(s) \in STRING /\ Tail(s) \in Seq(STRING) /\ Head(s) = s[1]
        BY <4>1, HeadTailProperties
      <4> QED
        BY <2>1, <2>2, <4>1
    <3>2. ASSUME NEW i \in DOMAIN v8.left, i # 1
          PROVE i - 1 \in DOMAIN Tail(v8.left) /\ Tail(v8.left)[i - 1] = v8.left[i]
      BY <2>1, <2>2, <3>2
    <3> QED
      BY <3>1, <3>2
  <2>4. /\ tried \in Seq(STRING) /\ \A i \in DOMAIN v8.tried : \E j \in DOMAIN tried : tried[j] = v8.tried[i]
        /\ n \in v7 /\ o # "noRoute" => \E j \in DOMAIN tried : tried[j] = n
    <3>1. CASE n \in v7 /\ o # "noRoute"
      <4>1. /\ tried \in Seq(STRING) /\ DOMAIN tried = 1 .. Len(v8.tried) + 1 /\ tried[Len(v8.tried) + 1] = n
            /\ \A i \in 1 .. Len(v8.tried) : tried[i] = v8.tried[i]
            /\ DOMAIN v8.tried = 1 .. Len(v8.tried) /\ Len(v8.tried) \in Nat
        BY <2>2, <2>3, <3>1
      <4> HIDE DEF tried
      <4> QED
        BY <4>1
    <3>2. CASE ~(n \in v7 /\ o # "noRoute")
      BY <2>2, <3>2
    <3> QED
      BY <3>1, <3>2
  <2>5. always \subseteq v7 /\ always \subseteq v8.always /\ (o = "noRoute" => n \notin always)
    BY <2>2
  <2> HIDE DEF n, tried, always
  <2>6. /\ k \in [on : BOOLEAN, left : Seq(STRING), tried : Seq(STRING), always : SUBSET v7]
        /\ k.left = Tail(v8.left) /\ k.tried = tried /\ k.always = always
    BY <2>3, <2>4, <2>5 DEF Ev!NotifyInv
  <2> HIDE DEF k
  <2>7. ASSUME NEW m \in always
        PROVE  (\E i \in DOMAIN tried : tried[i] = m) \/ (\E i \in DOMAIN Tail(v8.left) : Tail(v8.left)[i] = m)
    <3>1. CASE \E i \in DOMAIN v8.tried : v8.tried[i] = m
      BY <2>4, <3>1
    <3>2. CASE m = n
      BY <2>4, <2>5, <3>2
    <3>3. CASE m # n /\ \E i \in DOMAIN v8.left : v8.left[i] = m
      BY <2>3, <3>3
    <3> QED
      BY <2>1, <2>5, <3>1, <3>2, <3>3 DEF Ev!NotifyInv
  <2> QED
    BY <2>1, <2>6, <2>7 DEF Ev!NotifyInv
<1>4. CASE UNCHANGED Ev!ntVars
  BY <1>4 DEF Ev!ntVars, Ev!NotifyInv
<1> QED
  BY <1>1, <1>2, <1>3, <1>4 DEF Ev!NotifyNext

\* The invariant of the notification channels implies the properties.
LEMMA NotifySafe == Ev!NotifyInv => Ev!AllChannelsTried
BY DEF Ev!NotifyInv, Ev!AllChannelsTried

-----------------------------------------------------------------------------
(***************************************************************************)
(* Database, the instance Db: its variables are v1 conns, v2 pool, v3 log, *)
(* v4 mgrLog, v5 defaultName, v6 calls, v7 replaced.                       *)
(***************************************************************************)

\* The invariant of the connections holds initially.
LEMMA DbStart == Db!Init => Db!Inv
<1>1. Db!NoCall \in [op : {"none", "open", "tx"}, name : Names \cup {NoValue}, conn : Pools \cup {NoValue}] /\ Db!NoCall.op = "none"
  BY DEF Db!NoCall
<1> SUFFICES ASSUME Db!Init PROVE Db!Inv
  OBVIOUS
<1>2. Db!TypeOK
  BY <1>1 DEF Db!Init, Db!TypeOK
<1>3. \A p \in Procs : ~Db!Opening(p)
  BY <1>1 DEF Db!Init, Db!Opening
<1>4. Db!Registered = {}
  BY DEF Db!Init, Db!Registered
<1> QED
  BY <1>2, <1>3, <1>4 DEF Db!Init, Db!Inv, Db!OpenedApart, Db!PoolsOwned, Db!LoggersAgree

\* Every step of the connections preserves the invariant.
LEMMA DbStep == Db!Inv /\ [Db!Next]_Db!dbVars => Db!Inv'
<1> SUFFICES ASSUME Db!Inv, [Db!Next]_Db!dbVars PROVE Db!Inv'
  OBVIOUS
<1> DEFINE CallRecords == [op : {"none", "open", "tx"}, name : Names \cup {NoValue}, conn : Pools \cup {NoValue}]
<1>0. Db!NoCall \in CallRecords /\ Db!NoCall.op = "none" /\ v6 \in [Procs -> CallRecords]
  BY DEF Db!NoCall, Db!Inv, Db!TypeOK
<1>r. /\ \A n \in Names : v1[n] # NoValue => v1[n] \in Db!Registered
      /\ \A k \in Db!Registered : k \in Pools /\ \E n \in Names : v1[n] = k
  BY DEF Db!Registered, Db!Inv, Db!TypeOK
<1>1. ASSUME NEW p \in Procs, NEW n \in Names, Db!OpenPool(p, n) PROVE Db!Inv'
  <2>1. PICK k \in Db!Fresh : /\ v2' = [v2 EXCEPT ![k] = "open"] /\ v3' = [v3 EXCEPT ![k] = v4]
                              /\ v6' = [v6 EXCEPT ![p] = [op |-> "open", name |-> n, conn |-> k]]
    BY <1>1 DEF Db!OpenPool
  <2> DEFINE c == [op |-> "open", name |-> n, conn |-> k]
  <2>2. k \in Pools /\ v2[k] = "none"
    BY DEF Db!Fresh
  <2>3. c \in CallRecords /\ c.op = "open" /\ c.name = n /\ c.conn = k
    BY <2>2
  <2> HIDE DEF c
  <2>4. v6' = [v6 EXCEPT ![p] = c]
    BY <2>1 DEF c
  <2>5. v6' \in [Procs -> CallRecords] /\ v6'[p] = c /\ \A q \in Procs : q # p => v6'[q] = v6[q]
    BY <1>0, <2>3, <2>4
  <2>6. UNCHANGED <<v1, v4, v5, v7>> /\ Db!Registered' = Db!Registered /\ ~Db!Opening(p)
    BY <1>0, <1>1 DEF Db!OpenPool, Db!Registered, Db!Opening
  <2>7. k \notin Db!Registered
    BY <1>r, <2>2, DbAssumption DEF Db!Inv, Db!OpenedApart
  <2>8. Db!TypeOK'
    BY <2>1, <2>2, <2>5, <2>6 DEF Db!Inv, Db!TypeOK
  <2>9. /\ v2'[k] = "open" /\ v3'[k] = v4
        /\ \A x \in Pools : x # k => v2'[x] = v2[x] /\ v3'[x] = v3[x]
    BY <2>1, <2>2 DEF Db!Inv, Db!TypeOK
  <2>10. Db!OpenedApart'
    BY <1>r, <2>2, <2>3, <2>5, <2>6, <2>7, <2>9 DEF Db!Inv, Db!OpenedApart, Db!Opening
  <2>11. Db!PoolsOwned'
    BY <2>3, <2>5, <2>6, <2>9 DEF Db!Inv, Db!PoolsOwned, Db!Opening
  <2>12. Db!LoggersAgree'
    BY <1>r, <2>6, <2>7, <2>9 DEF Db!Inv, Db!LoggersAgree
  <2> QED
    BY <2>8, <2>10, <2>11, <2>12 DEF Db!Inv
<1>2. ASSUME NEW p \in Procs, Db!Open(p) PROVE Db!Inv'
  <2>0. PICK k \in Pools, n \in Names : k = v6[p].conn /\ n = v6[p].name
    BY <1>2 DEF Db!Open, Db!Inv, Db!OpenedApart, Db!Opening
  <2>1. /\ k \notin Db!Registered /\ v2[k] = "open" /\ (v3[k] = v4 \/ k \in v7)
        /\ \A q \in Procs : q # p /\ Db!Opening(q) => v6[q].conn # k
    BY <1>2, <2>0 DEF Db!Open, Db!Inv, Db!OpenedApart, Db!Opening
  <2>2. /\ v6' \in [Procs -> CallRecords] /\ ~Db!Opening(p)' /\ \A q \in Procs : q # p => v6'[q] = v6[q]
        /\ UNCHANGED <<v3, v4, v7>>
    BY <1>0, <1>2 DEF Db!Open, Db!Opening
  <2>3. CASE v1[n] # NoValue
    <3>1. v2' = [v2 EXCEPT ![k] = "closed"] /\ UNCHANGED <<v1, v5>>
      BY <1>2, <2>0, <2>3 DEF Db!Open, Db!duplicate
    <3>2. Db!Registered' = Db!Registered
      BY <3>1 DEF Db!Registered
    <3>3. Db!TypeOK'
      BY <2>2, <3>1 DEF Db!Inv, Db!TypeOK
    <3>4. v2'[k] = "closed" /\ \A x \in Pools : x # k => v2'[x] = v2[x]
      BY <3>1 DEF Db!Inv, Db!TypeOK
    <3>5. Db!OpenedApart'
      BY <1>r, <2>1, <2>2, <3>1, <3>2, <3>4 DEF Db!Inv, Db!OpenedApart, Db!Opening
    <3>6. Db!PoolsOwned' /\ Db!LoggersAgree'
      BY <2>0, <2>2, <3>2, <3>4 DEF Db!Inv, Db!PoolsOwned, Db!LoggersAgree
    <3> QED
      BY <3>3, <3>5, <3>6 DEF Db!Inv
  <2>4. CASE v1[n] = NoValue
    <3>1. v1' = [v1 EXCEPT ![n] = k] /\ v5' \in {v5, n} /\ UNCHANGED v2
      BY <1>2, <2>0, <2>4 DEF Db!Open, Db!register
    <3>2. Db!TypeOK'
      BY <2>2, <3>1 DEF Db!Inv, Db!TypeOK
    <3>3. v1'[n] = k /\ \A m \in Names : m # n => v1'[m] = v1[m]
      BY <3>1 DEF Db!Inv, Db!TypeOK
    <3>4. Db!Registered' = Db!Registered \cup {k}
      BY <2>4, <3>3, DbAssumption DEF Db!Registered
    <3>5. Db!OpenedApart'
      BY <2>1, <2>2, <3>1, <3>3, <3>4 DEF Db!Inv, Db!OpenedApart, Db!Opening
    <3>6. Db!PoolsOwned' /\ Db!LoggersAgree'
      BY <2>0, <2>1, <2>2, <3>1, <3>4 DEF Db!Inv, Db!PoolsOwned, Db!LoggersAgree
    <3> QED
      BY <3>2, <3>5, <3>6 DEF Db!Inv
  <2> QED
    BY <2>3, <2>4
<1>3. ASSUME NEW p \in Procs, NEW n \in Names, NEW k \in Pools, Db!Use(p, n, k) PROVE Db!Inv'
  <2>1. /\ v1' = [v1 EXCEPT ![n] = k] /\ v5' \in {v5, n} /\ UNCHANGED <<v4, v6, v7>>
        /\ v3' = IF v2[k] = "none" THEN [v3 EXCEPT ![k] = -1] ELSE v3
        /\ v2' = [x \in Pools |-> IF x = v1[n] /\ x # k THEN "closed"
                                    ELSE IF x = k /\ v2[x] = "none" THEN "open" ELSE v2[x]]
    BY <1>3 DEF Db!Use, Db!register
  <2>2. k \in Db!Registered \/ v2[k] = "none"
    BY <1>3 DEF Db!Use, Db!Fresh
  <2>3. \A q \in Procs : Db!Opening(q) => v6[q].conn # k /\ v6[q].conn # v1[n]
    BY <1>r, <2>2, DbAssumption DEF Db!Inv, Db!OpenedApart
  <2>4. Db!TypeOK'
    BY <2>1 DEF Db!Inv, Db!TypeOK
  <2>5. v1'[n] = k /\ \A m \in Names : m # n => v1'[m] = v1[m]
    BY <2>1 DEF Db!Inv, Db!TypeOK
  <2>6. /\ k \in Db!Registered' /\ \A x \in Db!Registered : x # v1[n] => x \in Db!Registered'
        /\ \A x \in Db!Registered' : x = k \/ x \in Db!Registered
    <3>1. k # NoValue
      BY DbAssumption
    <3>2. ASSUME NEW x \in Db!Registered, x # v1[n] PROVE x \in Db!Registered'
      BY <2>5, <3>2, <1>r, DbAssumption DEF Db!Registered
    <3>3. ASSUME NEW x \in Db!Registered' PROVE x = k \/ x \in Db!Registered
      BY <2>5, <3>3 DEF Db!Registered
    <3> QED
      BY <2>5, <3>1, <3>2, <3>3 DEF Db!Registered
  <2>7. /\ \A x \in Pools : v2'[x] = "open" => x = k \/ (v2[x] = "open" /\ x # v1[n])
        /\ \A x \in Pools : x # k /\ x # v1[n] => v2'[x] = v2[x] 
        /\ \A x \in Pools : v2[x] # "none" => v2'[x] # "none"
        /\ v2'[k] # "none"
    BY <2>1 DEF Db!Inv, Db!TypeOK
  <2>8. /\ \A x \in Pools : x # k => v3'[x] = v3[x]
        /\ v3'[k] = IF v2[k] = "none" THEN -1 ELSE v3[k]
    BY <2>1 DEF Db!Inv, Db!TypeOK
  <2>9. Db!OpenedApart'
    <3>1. \A m \in Names : v1'[m] # NoValue => v2'[v1'[m]] # "none"
      BY <2>5, <2>7 DEF Db!Inv, Db!TypeOK, Db!OpenedApart
    <3>2. ASSUME NEW q \in Procs, Db!Opening(q)'
          PROVE  /\ v6[q].name \in Names /\ v6[q].conn \in Pools /\ v2'[v6[q].conn] = "open"
                 /\ v6[q].conn \notin Db!Registered'
                 /\ v3'[v6[q].conn] = v4 \/ v6[q].conn \in v7
      <4>1. Db!Opening(q)
        BY <2>1, <3>2 DEF Db!Opening
      <4> QED
        BY <2>3, <2>6, <2>7, <2>8, <4>1 DEF Db!Inv, Db!OpenedApart
    <3> QED
      BY <2>1, <3>1, <3>2 DEF Db!Inv, Db!OpenedApart, Db!Opening
  <2>10. Db!PoolsOwned'
    BY <2>1, <2>6, <2>7 DEF Db!Inv, Db!PoolsOwned
  <2>11. Db!LoggersAgree'
    BY <1>r, <2>1, <2>2, <2>6, <2>8 DEF Db!Inv, Db!LoggersAgree
  <2> QED
    BY <2>4, <2>9, <2>10, <2>11 DEF Db!Inv
<1>4. CASE Db!SetLogger
  <2>1. /\ v4' = v4 + 1 /\ UNCHANGED <<v1, v2, v5, v6>>
        /\ v3' = [k \in Pools |-> IF k \in Db!Registered THEN v4 + 1 ELSE v3[k]]
        /\ v7' = v7 \cup {v6[p].conn : p \in {q \in Procs : v6[q].op = "open"}}
    BY <1>4 DEF Db!SetLogger, Db!reached
  <2>2. Db!Registered' = Db!Registered
    BY <2>1 DEF Db!Registered
  <2>3. Db!TypeOK'
    BY <2>1 DEF Db!Inv, Db!TypeOK
  <2>4. \A q \in Procs : Db!Opening(q)' => Db!Opening(q) /\ v6[q].conn \in v7'
    BY <2>1 DEF Db!Opening
  <2>5. Db!OpenedApart'
    BY <2>1, <2>2, <2>4 DEF Db!Inv, Db!OpenedApart, Db!Opening
  <2>6. Db!PoolsOwned'
    BY <2>1, <2>2 DEF Db!Inv, Db!PoolsOwned
  <2>7. Db!LoggersAgree'
    BY <1>r, <2>1, <2>2 DEF Db!LoggersAgree
  <2> QED
    BY <2>3, <2>5, <2>6, <2>7 DEF Db!Inv
<1>5. ASSUME NEW n \in Names, Db!SetDefault(n) PROVE Db!Inv'
  BY <1>5 DEF Db!SetDefault, Db!Inv, Db!TypeOK, Db!OpenedApart, Db!PoolsOwned, Db!LoggersAgree, Db!Opening, Db!Registered
<1>6. CASE Db!Close
  <2>1. /\ v2' = [k \in Pools |-> IF k \in Db!Registered THEN "closed" ELSE v2[k]]
        /\ UNCHANGED <<v1, v3, v4, v5, v6, v7>> /\ Db!Registered' = Db!Registered
    BY <1>6 DEF Db!Close, Db!Registered
  <2>2. Db!TypeOK'
    BY <2>1 DEF Db!Inv, Db!TypeOK
  <2>3. Db!OpenedApart'
    BY <1>r, <2>1 DEF Db!Inv, Db!OpenedApart, Db!Opening
  <2> QED
    BY <2>1, <2>2, <2>3 DEF Db!Inv, Db!PoolsOwned, Db!LoggersAgree
<1>7. ASSUME NEW p \in Procs, Db!Begin(p) \/ Db!Transaction(p) PROVE Db!Inv'
  <2>1. /\ v6' \in [Procs -> CallRecords] /\ ~Db!Opening(p) /\ ~Db!Opening(p)'
        /\ \A q \in Procs : q # p => v6'[q] = v6[q]
    <3>1. CASE Db!Begin(p)
      <4> DEFINE c == [op |-> "tx", name |-> NoValue, conn |-> v1[v5]]
      <4>1. c \in CallRecords /\ c.op = "tx"
        BY <3>1 DEF Db!Begin, Db!Inv, Db!TypeOK
      <4> HIDE DEF c
      <4>2. v6' = [v6 EXCEPT ![p] = c] /\ v6[p] = Db!NoCall
        BY <3>1 DEF Db!Begin, c
      <4> QED
        BY <1>0, <4>1, <4>2 DEF Db!Opening
    <3>2. CASE Db!Transaction(p)
      BY <1>0, <3>2 DEF Db!Transaction, Db!Opening
    <3> QED
      BY <1>7, <3>1, <3>2
  <2>2. UNCHANGED <<v1, v2, v3, v4, v5, v7>> /\ Db!Registered' = Db!Registered
    BY <1>7 DEF Db!Begin, Db!Transaction, Db!Registered
  <2>3. Db!TypeOK'
    BY <2>1, <2>2 DEF Db!Inv, Db!TypeOK
  <2>4. Db!OpenedApart'
    BY <2>1, <2>2 DEF Db!Inv, Db!OpenedApart, Db!Opening
  <2>5. Db!PoolsOwned' /\ Db!LoggersAgree'
    BY <2>1, <2>2 DEF Db!Inv, Db!PoolsOwned, Db!LoggersAgree, Db!Opening
  <2> QED
    BY <2>3, <2>4, <2>5 DEF Db!Inv
<1>8. CASE UNCHANGED Db!dbVars
  BY <1>8 DEF Db!dbVars, Db!Inv, Db!TypeOK, Db!OpenedApart, Db!PoolsOwned, Db!LoggersAgree, Db!Opening, Db!Registered
<1> QED
  BY <1>1, <1>2, <1>3, <1>4, <1>5, <1>6, <1>7, <1>8 DEF Db!Next

-----------------------------------------------------------------------------
(***************************************************************************)
(* Telescope, the instance Tel: its variables are v1 buf, v2 next, v3      *)
(* full, v4 nplus, v5 nplusOrder, v6 written, v7 queries.                  *)
(***************************************************************************)

RingInv ==
    /\ v1 \in [0 .. Capacity - 1 -> Tel!Entry] /\ v3 \in BOOLEAN /\ v6 \in Seq(Tel!Entry)
    /\ IF v3 THEN Rolling(v1, v2, v6, Capacity) ELSE Filling(v1, v2, v6, Capacity)

\* The invariant of the recorder holds initially.
LEMMA TelStart == Tel!Init => RingInv /\ Tel!BookInv
<1> SUFFICES ASSUME Tel!Init PROVE RingInv /\ Tel!BookInv
  OBVIOUS
<1>1. RingInv
  <2>1. Tel!NoEntry \in Tel!Entry
    BY DEF Tel!NoEntry, Tel!Entry
  <2>2. v1 \in [0 .. Capacity - 1 -> Tel!Entry] /\ v6 \in Seq(Tel!Entry) /\ Len(v6) = 0 /\ v2 = 0 /\ ~v3
    BY <2>1 DEF Tel!Init
  <2>3. Filling(v1, v2, v6, Capacity)
    BY <2>2, TelAssumption DEF Filling
  <2>4. v3 \in BOOLEAN
    BY DEF Tel!Init
  <2> QED
    BY <2>2, <2>3, <2>4 DEF RingInv
<1>2. Tel!BookInv
  <2>1. DOMAIN v4 = {} /\ Len(v5) = 0 /\ DOMAIN v5 = {} /\ v5 \in Seq(Requests)
        /\ v7 \in [Requests -> Seq(Statements)] /\ \A r \in Requests : v7[r] = <<>>
    BY DEF Tel!Init
  <2>2. v4 \in [DOMAIN v4 -> [Statements -> Nat]]
    BY DEF Tel!Init, Tel!Zero
  <2> QED
    BY TelCounts, <2>1, <2>2, FS_EmptySet, TelAssumption DEF Tel!BookInv, Tel!BookType, Tel!BooksAgree, Tel!Elements
<1> QED
  BY <1>1, <1>2

\* record: the ring shows the newest entries after a write too.
LEMMA TelRecords ==
  ASSUME RingInv, NEW e \in Tel!Entry, Tel!recordLocked(e)
  PROVE  RingInv'
<1>1. /\ v1 \in [0 .. Capacity - 1 -> Tel!Entry] /\ v6 \in Seq(Tel!Entry)
      /\ v1' = [v1 EXCEPT ![v2] = e] /\ v6' = Append(v6, e)
      /\ v2' = IF v2 + 1 = Capacity THEN 0 ELSE v2 + 1
  BY DEF RingInv, Tel!recordLocked, Tel!wrapped
<1>2. v6' \in Seq(Tel!Entry)
  BY <1>1
<1>3. v3' \in BOOLEAN
  BY Zenon DEF Tel!recordLocked
<1>4. v3' <=> v3 \/ v2 + 1 = Capacity
  BY Zenon DEF Tel!recordLocked, Tel!wrapped
<1>5. CASE v3
  <2>1. Rolling(v1, v2, v6, Capacity)
    BY <1>5 DEF RingInv
  <2>2. v1' \in [0 .. Capacity - 1 -> Tel!Entry] /\ Rolling(v1', v2', v6', Capacity)
    BY <1>1, <2>1, RingRolls, TelAssumption
  <2> QED
    BY <1>2, <1>3, <1>4, <1>5, <2>2 DEF RingInv
<1>6. CASE ~v3
  <2>1. Filling(v1, v2, v6, Capacity)
    BY <1>6 DEF RingInv
  <2>2. /\ v1' \in [0 .. Capacity - 1 -> Tel!Entry]
        /\ v2 + 1 # Capacity => Filling(v1', v2', v6', Capacity)
        /\ v2 + 1 = Capacity => Rolling(v1', v2', v6', Capacity)
    BY <1>1, <2>1, RingFills, TelAssumption
  <2> QED
    BY <1>2, <1>3, <1>4, <1>6, <2>2 DEF RingInv
<1> QED
  BY <1>5, <1>6

\* The ring's invariant is what List shows.
LEMMA TelShows == RingInv => Tel!NewestShown
<1> SUFFICES ASSUME RingInv PROVE Tel!NewestShown
  OBVIOUS
<1>0. v1 \in [0 .. Capacity - 1 -> Tel!Entry] /\ v6 \in Seq(Tel!Entry) /\ Len(v6) \in Nat
  BY DEF RingInv
<1> DEFINE a == IF Len(v6) > Capacity THEN Len(v6) - Capacity + 1 ELSE 1
<1>1. Tel!ordered = SubSeq(v6, a, Len(v6))
  <2>1. CASE v3
    <3>1. Rolling(v1, v2, v6, Capacity)
      BY <2>1 DEF RingInv
    <3>2. Tel!ordered = SubSeq(v6, Len(v6) - Capacity + 1, Len(v6)) /\ Len(v6) >= Capacity
      BY <1>0, <2>1, <3>1, RingShows, TelAssumption DEF Tel!ordered, Tel!cells
    <3>3. Len(v6) - Capacity + 1 = a
      BY <1>0, <3>2, TelAssumption
    <3> QED
      BY <3>2, <3>3
  <2>2. CASE ~v3
    <3>1. Filling(v1, v2, v6, Capacity)
      BY <2>2 DEF RingInv
    <3>2. Tel!ordered = SubSeq(v6, 1, Len(v6)) /\ Len(v6) < Capacity
      <4>1. Tel!ordered = Tel!cells(0, v2 - 1)
        BY <2>2 DEF Tel!ordered
      <4>2. Tel!cells(0, v2 - 1) = SubSeq(v6, 1, Len(v6)) /\ Len(v6) < Capacity
        BY <1>0, <3>1, RingShows, TelAssumption DEF Tel!cells
      <4> QED
        BY <4>1, <4>2
    <3>3. a = 1
      BY <1>0, <3>2, TelAssumption
    <3> QED
      BY <3>2, <3>3
  <2> QED
    BY <2>1, <2>2
<1> QED
  BY <1>1 DEF Tel!NewestShown, Tel!snapshot

\* How often a statement occurs after one more query.
LEMMA TimesAppend ==
  ASSUME NEW S, NEW q \in Seq(S), NEW x \in S, NEW s
  PROVE  /\ Tel!Times(q, s) \in Nat
         /\ Tel!Times(Append(q, x), s) = IF x = s THEN Tel!Times(q, s) + 1 ELSE Tel!Times(q, s)
<1> DEFINE k == Append(q, x)  A == {i \in DOMAIN q : q[i] = s}  B == {i \in DOMAIN k : k[i] = s}  n == Len(q)
<1>1. n \in Nat /\ DOMAIN q = 1 .. n /\ DOMAIN k = 1 .. n + 1 /\ \A i \in 1 .. n + 1 : k[i] = IF i = n + 1 THEN x ELSE q[i]
  OBVIOUS
<1> HIDE DEF k, n
<1>2. IsFiniteSet(A) /\ Cardinality(A) \in Nat /\ n + 1 \notin A
  <2>1. IsFiniteSet(1 .. n) /\ A \in SUBSET (1 .. n) /\ n + 1 \notin A
    BY TelCounts, <1>1, FS_Interval
  <2>2. IsFiniteSet(A)
    BY TelCounts, <2>1, FS_Subset
  <2> QED
    BY TelCounts, <2>1, <2>2, FS_CardinalityType
<1>3. Tel!Times(q, s) = Cardinality(A) /\ Tel!Times(k, s) = Cardinality(B)
  BY TelCounts DEF Tel!Times
<1>4. CASE x = s
  <2>1. B = A \cup {n + 1}
    BY <1>1, <1>4
  <2>2. Cardinality(A \cup {n + 1}) = Cardinality(A) + 1
    BY TelCounts, <1>2, FS_AddElement
  <2> HIDE DEF A, B
  <2> QED
    BY <1>2, <1>3, <1>4, <2>1, <2>2 DEF k
<1>5. CASE x # s
  <2>1. B = A
    BY <1>1, <1>5
  <2> HIDE DEF A, B
  <2> QED
    BY <1>2, <1>3, <1>5, <2>1 DEF k
<1> QED
  BY <1>4, <1>5

\* No statement occurs in a request without queries.
LEMMA TimesNone == \A s : Tel!Times(<<>>, s) = 0
<1>1. \A s : {i \in DOMAIN <<>> : <<>>[i] = s} = {}
  OBVIOUS
<1> QED
  BY TelCounts, <1>1, FS_EmptySet DEF Tel!Times

\* RecordQuery: the N+1 books of the request count the query, and another request's may be evicted
\* for it.
LEMMA TelQuery ==
  ASSUME Tel!BookInv, NEW r \in Requests, NEW s \in Statements, Tel!RecordQuery(r, s)
  PROVE  Tel!BookInv'
<1> DEFINE n == Tel!nplusFor(r)  M == n.map  D == DOMAIN v4
<1>0. /\ D \in SUBSET Requests /\ IsFiniteSet(D) /\ v4 \in [D -> [Statements -> Nat]]
      /\ v5 \in Seq(Requests) /\ v7 \in [Requests -> Seq(Statements)]
      /\ (\A x \in Requests \ D : v7[x] = <<>>)
      /\ (\A i, k \in DOMAIN v5 : v5[i] = v5[k] => i = k)
      /\ {v5[i] : i \in DOMAIN v5} = D
      /\ Len(v5) = Cardinality(D) /\ Len(v5) <= maxNPlusRequests /\ Len(v5) \in Nat
      /\ DOMAIN v5 = 1 .. Len(v5)
  BY TelCounts DEF Tel!BookInv, Tel!BookType, Tel!BooksAgree, Tel!Elements
<1>1. /\ v4' = [M EXCEPT ![r][s] = M[r][s] + 1] /\ v5' = n.order
      /\ v7' = [x \in Requests |-> IF x = r THEN Append(v7[x], s)
                       ELSE IF r \notin D /\ x \in Tel!evicted THEN <<>> ELSE v7[x]]
  BY DEF Tel!RecordQuery
\* Who is tracked after nplusFor, and in which order.
<1>2. \E E : /\ E = IF r \in D THEN D ELSE (D \ Tel!evicted) \cup {r}
             /\ E \in SUBSET Requests /\ IsFiniteSet(E) /\ r \in E
             /\ M \in [E -> [Statements -> Nat]]
             /\ (\A x \in E : M[x] = IF x = r /\ r \notin D THEN Tel!Zero ELSE v4[x])
             /\ n.order \in Seq(Requests) /\ {n.order[i] : i \in DOMAIN n.order} = E
             /\ (\A i, k \in DOMAIN n.order : n.order[i] = n.order[k] => i = k)
             /\ Len(n.order) = Cardinality(E) /\ Len(n.order) <= maxNPlusRequests
  <2>1. CASE r \in D
    BY <1>0, <2>1 DEF Tel!nplusFor
  <2>2. CASE r \notin D
    <3> DEFINE o == IF Tel!tooMany THEN Tail(v5) ELSE v5  F == D \ Tel!evicted
    <3>1. /\ o \in Seq(Requests) /\ F \in SUBSET Requests /\ IsFiniteSet(F) /\ Len(o) \in Nat
          /\ {o[i] : i \in DOMAIN o} = F /\ (\A i, k \in DOMAIN o : o[i] = o[k] => i = k)
          /\ Len(o) = Cardinality(F) /\ Len(o) + 1 <= maxNPlusRequests
      <4>1. CASE Tel!tooMany
        <5>1. v5 # <<>> /\ o = Tail(v5) /\ Tel!evicted = {v5[1]}
          BY TelCounts, <4>1 DEF Tel!tooMany, Tel!evicted
        <5> HIDE DEF o
        <5>2. /\ o \in Seq(Requests) /\ Len(o) = Len(v5) - 1 /\ v5[1] \in D
              /\ {o[i] : i \in DOMAIN o} = {v5[i] : i \in DOMAIN v5} \ {v5[1]}
              /\ (\A i, k \in DOMAIN o : o[i] = o[k] => i = k)
          <6>1. /\ v5 \in Seq(Requests) /\ v5 # <<>>
                /\ \A i, k \in DOMAIN v5 : v5[i] = v5[k] => i = k
            BY <1>0, <5>1
          <6>2. /\ o \in Seq(Requests) /\ Len(o) = Len(v5) - 1 /\ v5[1] \in {v5[i] : i \in DOMAIN v5}
                /\ {o[i] : i \in DOMAIN o} = {v5[i] : i \in DOMAIN v5} \ {v5[1]}
                /\ (\A i, k \in DOMAIN o : o[i] = o[k] => i = k)
            BY <5>1, <6>1, TailOut, SMTT(30)
          <6> QED
            BY <1>0, <6>2
        <5>3. {o[i] : i \in DOMAIN o} = F
          BY <1>0, <5>1, <5>2
        <5>4. IsFiniteSet(F) /\ Cardinality(F) = Cardinality(D) - 1
          BY TelCounts, <1>0, <5>1, <5>2, FS_RemoveElement
        <5>5. Len(o) \in Nat /\ Len(o) = Cardinality(F) /\ Len(o) + 1 <= maxNPlusRequests
          BY <1>0, <5>2, <5>4, LenProperties, TelAssumption
        <5> QED
          BY <1>0, <5>2, <5>3, <5>4, <5>5
      <4>2. CASE ~Tel!tooMany
        <5>1. o = v5 /\ F = D
          BY <4>2 DEF Tel!evicted
        <5> HIDE DEF o, F
        <5>2. Cardinality(D) < maxNPlusRequests
          <6>1. ~(Cardinality(D) >= maxNPlusRequests) \/ v5 = <<>>
            BY TelCounts, <4>2 DEF Tel!tooMany
          <6>2. v5 = <<>> => Cardinality(D) = 0
            BY <1>0
          <6> QED
            BY <1>0, <6>1, <6>2, TelAssumption
        <5> QED
          <6>1. Len(v5) + 1 <= maxNPlusRequests
            BY <1>0, <5>2, TelAssumption
          <6> QED
            BY <1>0, <5>1, <6>1
      <4> QED
        BY <4>1, <4>2
    <3>2. M = [x \in F \cup {r} |-> IF x = r THEN Tel!Zero ELSE v4[x]] /\ n.order = Append(o, r)
      BY <2>2 DEF Tel!nplusFor
    <3>3. r \notin F
      BY <2>2
    <3>4. Tel!Zero \in [Statements -> Nat]
      BY DEF Tel!Zero
    <3>5. M \in [F \cup {r} -> [Statements -> Nat]] /\ \A x \in F \cup {r} : M[x] = IF x = r THEN Tel!Zero ELSE v4[x]
      BY <1>0, <3>2, <3>4
    <3> HIDE DEF o, n
    <3>6. /\ n.order \in Seq(Requests) /\ Len(n.order) = Len(o) + 1
          /\ {n.order[i] : i \in DOMAIN n.order} = {o[i] : i \in DOMAIN o} \cup {r}
          /\ (\A i, k \in DOMAIN n.order : n.order[i] = n.order[k] => i = k)
      <4>1. r \notin {o[i] : i \in DOMAIN o} /\ o \in Seq(Requests) /\ \A i, k \in DOMAIN o : o[i] = o[k] => i = k
        BY <3>1, <3>3
      <4>2. PICK k : k = n.order
        OBVIOUS
      <4>3. k = Append(o, r)
        BY <3>2, <4>2
      <4>4. /\ k \in Seq(Requests) /\ Len(k) = Len(o) + 1
            /\ {k[i] : i \in DOMAIN k} = {o[i] : i \in DOMAIN o} \cup {r}
            /\ (\A i, j \in DOMAIN k : k[i] = k[j] => i = j)
        BY <4>1, <4>3, AppendIn
      <4> QED
        BY <4>2, <4>4
    <3>7. {n.order[i] : i \in DOMAIN n.order} = F \cup {r}
      BY <3>1, <3>6
    <3>9. IsFiniteSet(F \cup {r}) /\ Cardinality(F \cup {r}) = Cardinality(F) + 1
      BY TelCounts, <3>1, <3>3, FS_AddElement
    <3> QED
      BY <2>2, <3>1, <3>5, <3>6, <3>7, <3>9
  <2> QED
    BY <2>1, <2>2
<1>3. PICK E : /\ E = IF r \in D THEN D ELSE (D \ Tel!evicted) \cup {r}
             /\ E \in SUBSET Requests /\ IsFiniteSet(E) /\ r \in E
             /\ M \in [E -> [Statements -> Nat]]
             /\ (\A x \in E : M[x] = IF x = r /\ r \notin D THEN Tel!Zero ELSE v4[x])
             /\ n.order \in Seq(Requests) /\ {n.order[i] : i \in DOMAIN n.order} = E
             /\ (\A i, k \in DOMAIN n.order : n.order[i] = n.order[k] => i = k)
             /\ Len(n.order) = Cardinality(E) /\ Len(n.order) <= maxNPlusRequests
  BY <1>2
<1> HIDE DEF n
<1>4. /\ DOMAIN v4' = E /\ v4' \in [E -> [Statements -> Nat]]
      /\ \A x \in E, t \in Statements : v4'[x][t] = IF x = r /\ t = s THEN M[x][t] + 1 ELSE M[x][t]
  BY <1>1, <1>3
<1>5. /\ v7' \in [Requests -> Seq(Statements)]
      /\ \A x \in Requests : v7'[x] = IF x = r THEN Append(v7[x], s)
                       ELSE IF r \notin D /\ x \in Tel!evicted THEN <<>> ELSE v7[x]
  BY <1>0, <1>1
<1>6. \A x \in Requests \ E : v7'[x] = <<>>
  BY <1>0, <1>3, <1>5
<1>7. ASSUME NEW x \in E, NEW t \in Statements
      PROVE  v4'[x][t] = Tel!Times(v7'[x], t)
  <2>1. M[x][t] = Tel!Times(v7[x], t)
    <3>1. CASE x = r /\ r \notin D
      <4>1. v7[x] = <<>> /\ M[x][t] = 0
        BY <1>0, <1>3, <3>1 DEF Tel!Zero
      <4> QED
        BY <4>1, TimesNone
    <3>2. CASE ~(x = r /\ r \notin D)
      <4>1. x \in D /\ M[x] = v4[x]
        BY <1>3, <3>2
      <4> QED
        BY TelCounts, <4>1 DEF Tel!BookInv, Tel!BooksAgree
    <3> QED
      BY <3>1, <3>2
  <2>2. CASE x = r
    <3>1. v7'[x] = Append(v7[x], s) /\ v7[x] \in Seq(Statements)
      BY <1>0, <1>3, <1>5, <2>2
    <3>2. Tel!Times(v7[x], t) \in Nat /\ Tel!Times(v7'[x], t) = IF s = t THEN Tel!Times(v7[x], t) + 1 ELSE Tel!Times(v7[x], t)
      BY <3>1, TimesAppend
    <3> QED
      BY <1>4, <2>1, <2>2, <3>2
  <2>3. CASE x # r
    <3>1. v7'[x] = v7[x]
      BY <1>3, <1>5, <2>3
    <3> QED
      BY <1>4, <2>1, <2>3, <3>1
  <2> QED
    BY <2>2, <2>3
<1>8. Tel!BookType'
  BY TelCounts, <1>1, <1>3, <1>4, <1>5, <1>6 DEF Tel!BookType
<1>9. Tel!BooksAgree'
  <2>1. /\ {v5'[i] : i \in DOMAIN v5'} = DOMAIN v4' /\ Len(v5') = Cardinality(DOMAIN v4')
        /\ Len(v5') <= maxNPlusRequests
    <3>1. v5' = n.order /\ DOMAIN v4' = E
      BY <1>1, <1>4
    <3> QED
      BY <1>3, <3>1
  <2> QED
    BY TelCounts, <1>4, <1>7, <2>1 DEF Tel!BooksAgree, Tel!Elements
<1> QED
  BY <1>8, <1>9 DEF Tel!BookInv

\* A step that leaves the N+1 books and the queries alone.
LEMMA TelSameBooks ==
  ASSUME Tel!BookInv, UNCHANGED <<v4, v5, v7>>
  PROVE  Tel!BookInv'
<1>1. v4' = v4 /\ v5' = v5 /\ v7' = v7
  OBVIOUS
<1>2. Tel!BookType /\ Tel!BooksAgree
  BY DEF Tel!BookInv
<1>3. Tel!BookType'
  BY TelCounts, <1>1, <1>2 DEF Tel!BookType
<1>4. Tel!Elements(v5') = Tel!Elements(v5)
  BY <1>1
<1>5. Tel!BooksAgree'
  BY TelCounts, <1>1, <1>2, <1>4 DEF Tel!BooksAgree
<1> QED
  BY <1>3, <1>5 DEF Tel!BookInv

\* dropNPlus: the books of a request that has ended are gone from the map and from its order.
LEMMA TelForget ==
  ASSUME Tel!BookInv, NEW r \in Requests, Tel!dropNPlus(r), v7' = [v7 EXCEPT ![r] = <<>>]
  PROVE  Tel!BookInv'
<1> DEFINE D == DOMAIN v4
<1>0. /\ D \in SUBSET Requests /\ IsFiniteSet(D) /\ v4 \in [D -> [Statements -> Nat]]
      /\ v5 \in Seq(Requests) /\ v7 \in [Requests -> Seq(Statements)]
      /\ (\A x \in Requests \ D : v7[x] = <<>>)
      /\ (\A i, k \in DOMAIN v5 : v5[i] = v5[k] => i = k)
      /\ {v5[i] : i \in DOMAIN v5} = D
      /\ Len(v5) = Cardinality(D) /\ Len(v5) <= maxNPlusRequests /\ Len(v5) \in Nat
      /\ \A x \in D, s \in Statements : v4[x][s] = Tel!Times(v7[x], s)
  BY TelCounts DEF Tel!BookInv, Tel!BookType, Tel!BooksAgree, Tel!Elements
<1>1. v7' \in [Requests -> Seq(Statements)] /\ \A x \in Requests : v7'[x] = IF x = r THEN <<>> ELSE v7[x]
  BY <1>0
<1>2. CASE r \notin D
  <2>1. UNCHANGED <<v4, v5>>
    BY <1>2 DEF Tel!dropNPlus
  <2>2. v7' = v7
    BY <1>0, <1>1, <1>2
  <2> QED
    BY <2>1, <2>2, TelSameBooks
<1>3. CASE r \in D
  <2>1. v4' = [x \in D \ {r} |-> v4[x]] /\ v5' = Tel!withoutId(r)
    BY <1>3 DEF Tel!dropNPlus
  <2>2. /\ DOMAIN v4' = D \ {r} /\ v4' \in [D \ {r} -> [Statements -> Nat]]
        /\ \A x \in D \ {r} : v4'[x] = v4[x]
    BY <1>0, <2>1
  <2> DEFINE n == Tel!indexOf(r)  w == SubSeq(v5, 1, n - 1) \o SubSeq(v5, n + 1, Len(v5))
  <2>3. n \in 1 .. Len(v5) /\ v5[n] = r
    <3>1. \E i \in DOMAIN v5 : v5[i] = r
      BY <1>0, <1>3
    <3> QED
      BY <1>0, <3>1, FirstIndex DEF Tel!indexOf
  <2>4. v5' = w
    BY <2>1 DEF Tel!withoutId
  <2> HIDE DEF n
  <2>5. /\ w \in Seq(Requests) /\ {w[i] : i \in DOMAIN w} = {v5[i] : i \in DOMAIN v5} \ {v5[n]}
        /\ Len(w) = Len(v5) - 1 /\ \A i, k \in DOMAIN w : w[i] = w[k] => i = k
    BY <1>0, <2>3, SplicedOut
  <2> HIDE DEF w
  <2>6. IsFiniteSet(D \ {r}) /\ Cardinality(D \ {r}) = Cardinality(D) - 1
    BY TelCounts, <1>0, <1>3, FS_RemoveElement
  <2>7. {w[i] : i \in DOMAIN w} = D \ {r} /\ Len(w) = Cardinality(D \ {r}) /\ Len(w) <= maxNPlusRequests
    <3>1. {w[i] : i \in DOMAIN w} = D \ {r}
      BY <1>0, <2>3, <2>5
    <3> QED
      BY <1>0, <2>5, <2>6, <3>1, TelAssumption
  <2>8. Tel!BookType'
    BY TelCounts, <1>0, <1>1, <2>2, <2>4, <2>5, <2>6 DEF Tel!BookType
  <2>9. ASSUME NEW x \in D \ {r}, NEW s \in Statements
        PROVE v4'[x][s] = Tel!Times(v7'[x], s)
    <3>1. v7'[x] = v7[x]
      BY <1>0, <1>1
    <3> QED
      BY <1>0, <2>2, <3>1
  <2>10. Tel!BooksAgree'
    BY TelCounts, <2>2, <2>4, <2>7, <2>9 DEF Tel!BooksAgree, Tel!Elements
  <2> QED
    BY <2>8, <2>10 DEF Tel!BookInv
<1> QED
  BY <1>2, <1>3

\* Every step of the recorder preserves the invariant.
LEMMA TelStep == RingInv /\ Tel!BookInv /\ [Tel!Next]_Tel!telVars => RingInv' /\ Tel!BookInv'
<1> SUFFICES ASSUME RingInv, Tel!BookInv, [Tel!Next]_Tel!telVars PROVE RingInv' /\ Tel!BookInv'
  OBVIOUS
<1>0. UNCHANGED <<v4, v5, v7>> => Tel!BookInv'
  BY TelSameBooks
<1>1. ASSUME NEW r \in Requests, NEW s \in Statements, Tel!RecordQuery(r, s) PROVE RingInv' /\ Tel!BookInv'
  <2>1. PICK e \in Tel!Entry : Tel!recordLocked(e)
    <3> DEFINE e(c) == [type |-> "query", req |-> r, tags |-> IF c > 1 THEN {"n+1"} ELSE {}]
    <3>1. \A c : e(c) \in Tel!Entry
      BY DEF Tel!Entry
    <3> QED
      BY <1>1, <3>1 DEF Tel!RecordQuery
  <2> QED
    BY <1>1, <2>1, TelRecords, TelQuery
<1>2. ASSUME NEW r \in Requests, NEW status \in {200, 404, 500}, Tel!RecordRequest(r, status) PROVE RingInv' /\ Tel!BookInv'
  <2>1. PICK e \in Tel!Entry : Tel!recordLocked(e)
    BY <1>2 DEF Tel!RecordRequest, Tel!Entry
  <2>2. Tel!dropNPlus(r) /\ v7' = [v7 EXCEPT ![r] = <<>>]
    BY <1>2 DEF Tel!RecordRequest
  <2> QED
    BY <2>1, <2>2, TelRecords, TelForget
<1>3. ASSUME NEW b \in BOOLEAN, Tel!RecordJob("none", b) \/ Tel!RecordCache("none", b) PROVE RingInv' /\ Tel!BookInv'
  <2>1. PICK e \in Tel!Entry : Tel!recordLocked(e)
    BY <1>3 DEF Tel!RecordJob, Tel!RecordCache, Tel!Entry
  <2>2. UNCHANGED <<v4, v5, v7>>
    BY <1>3 DEF Tel!RecordJob, Tel!RecordCache
  <2> QED
    BY <1>0, <2>1, <2>2, TelRecords
<1>4. ASSUME NEW type \in {"mail", "exception", "log"}, Tel!RecordPlain("none", type) PROVE RingInv' /\ Tel!BookInv'
  <2>1. PICK e \in Tel!Entry : Tel!recordLocked(e)
    BY <1>4 DEF Tel!RecordPlain, Tel!Entry
  <2>2. UNCHANGED <<v4, v5, v7>>
    BY <1>4 DEF Tel!RecordPlain
  <2> QED
    BY <1>0, <2>1, <2>2, TelRecords
<1>5. ASSUME Tel!RecordQueryBare PROVE RingInv' /\ Tel!BookInv'
  <2>1. PICK e \in Tel!Entry : Tel!recordLocked(e)
    BY <1>5 DEF Tel!RecordQueryBare, Tel!Entry
  <2>2. UNCHANGED <<v4, v5, v7>>
    BY <1>5 DEF Tel!RecordQueryBare
  <2> QED
    BY <1>0, <2>1, <2>2, TelRecords
<1>6. ASSUME Tel!Reset PROVE RingInv' /\ Tel!BookInv'
  <2>1. RingInv'
    <3>1. Tel!NoEntry \in Tel!Entry
      BY DEF Tel!NoEntry, Tel!Entry
    <3>2. v1' \in [0 .. Capacity - 1 -> Tel!Entry] /\ v6' \in Seq(Tel!Entry) /\ Len(v6') = 0 /\ v2' = 0 /\ ~v3'
      BY <1>6, <3>1 DEF Tel!Reset
    <3>3. Filling(v1', v2', v6', Capacity)
      BY <3>2, TelAssumption DEF Filling
    <3>4. v3' \in BOOLEAN
      BY <1>6 DEF Tel!Reset
    <3> QED
      BY <3>2, <3>3, <3>4 DEF RingInv
  <2>2. Tel!BookInv'
    <3>1. DOMAIN v4' = {} /\ Len(v5') = 0 /\ DOMAIN v5' = {} /\ v5' \in Seq(Requests)
          /\ v7' \in [Requests -> Seq(Statements)] /\ \A r \in Requests : v7'[r] = <<>>
      BY <1>6 DEF Tel!Reset
    <3>2. v4' \in [DOMAIN v4' -> [Statements -> Nat]]
      BY <1>6 DEF Tel!Reset, Tel!Zero
    <3> QED
      BY TelCounts, <3>1, <3>2, FS_EmptySet, TelAssumption DEF Tel!BookInv, Tel!BookType, Tel!BooksAgree, Tel!Elements
  <2> QED
    BY <2>1, <2>2
<1>7. CASE UNCHANGED Tel!telVars
  <2>1. RingInv'
    BY <1>7 DEF Tel!telVars, RingInv
  <2> QED
    BY <1>0, <1>7, <2>1 DEF Tel!telVars
<1> QED
  BY <1>1, <1>2, <1>3, <1>4, <1>5, <1>6, <1>7 DEF Tel!Next

-----------------------------------------------------------------------------
(***************************************************************************)
(* Observability, the instance Obs: its variables are v1 span, v2 ring, v3 *)
(* rnext, v4 rfull, v5 ending, v6 adds, v7 ends, v8 family, v9 families,   *)
(* v10 series, v11 value, v12 g.                                           *)
(***************************************************************************)

TraceRing == IF v4 THEN Rolling(v2, v3, v6, RingCapacity) ELSE Filling(v2, v3, v6, RingCapacity)
TraceInv == Obs!TraceType /\ Obs!ParentsOn /\ Obs!OneRecord /\ TraceRing /\ Obs!OneTracePerTree

\* The invariant of the tracer holds initially.
LEMMA TraceStart == Obs!TraceInit => TraceInv
<1> SUFFICES ASSUME Obs!TraceInit PROVE TraceInv
  OBVIOUS
<1>1. Obs!NoSpan \in Obs!SpanState /\ ~Obs!NoSpan.on /\ ~Obs!NoSpan.ended
  BY DEF Obs!NoSpan, Obs!SpanState, Obs!Status
<1>2. Obs!NoRecord \in Obs!Record
  BY DEF Obs!NoRecord, Obs!Record
<1>3. /\ v1 \in [Spans -> Obs!SpanState] /\ (\A s \in Spans : ~v1[s].on /\ ~v1[s].ended)
      /\ v5 \in [Enders -> Obs!Record] /\ (\A e \in Enders : v5[e] = Obs!NoRecord)
      /\ v2 \in [0 .. RingCapacity - 1 -> Obs!Record] /\ v6 \in Seq(Obs!Record) /\ Len(v6) = 0 /\ DOMAIN v6 = {}
      /\ v3 = 0 /\ ~v4
  BY <1>1, <1>2 DEF Obs!TraceInit
<1>4. v4 \in BOOLEAN
  BY DEF Obs!TraceInit
<1>5. Filling(v2, v3, v6, RingCapacity)
  BY <1>3, ObsAssumption DEF Filling
<1>6. \A e \in Enders : v5[e].span \notin Spans
  BY <1>3, ObsAssumption DEF Obs!NoRecord
<1> QED
  BY <1>3, <1>4, <1>5, <1>6 DEF TraceInv, Obs!TraceType, Obs!ParentsOn, Obs!OneRecord, TraceRing, Obs!OneTracePerTree

\* Every step of the tracer preserves the invariant.
LEMMA TraceStep == TraceInv /\ [Obs!TraceNext]_Obs!traceVars => TraceInv'
<1> SUFFICES ASSUME TraceInv, [Obs!TraceNext]_Obs!traceVars PROVE TraceInv'
  OBVIOUS
<1>0. /\ v1 \in [Spans -> Obs!SpanState] /\ v5 \in [Enders -> Obs!Record]
      /\ v2 \in [0 .. RingCapacity - 1 -> Obs!Record] /\ v6 \in Seq(Obs!Record)
  BY DEF TraceInv, Obs!TraceType
<1>r. UNCHANGED <<v2, v3, v4, v6>> => (v2 \in [0 .. RingCapacity - 1 -> Obs!Record] /\ v4 \in BOOLEAN /\ v6 \in Seq(Obs!Record))' /\ TraceRing'
  BY DEF TraceInv, Obs!TraceType, TraceRing
\* What a change of one span keeps: the started stay started and the ended ended.
<1>s. ASSUME NEW s \in Spans, NEW k \in Obs!SpanState, v1' = [v1 EXCEPT ![s] = k], k.on,
             \/ v1[s].on /\ k.trace = v1[s].trace /\ k.parent = v1[s].parent
             \/ ~v1[s].on /\ k.parent = "none"
             \/ ~v1[s].on /\ k.parent \in Spans /\ v1[k.parent].on /\ k.trace = v1[k.parent].trace
      PROVE  v1' \in [Spans -> Obs!SpanState] /\ Obs!ParentsOn' /\ Obs!OneTracePerTree'
  <2>1. v1' \in [Spans -> Obs!SpanState] /\ \A t \in Spans : v1'[t] = IF t = s THEN k ELSE v1[t]
    BY <1>0, <1>s
  <2>2. ASSUME NEW t \in Spans, v1'[t].on, v1'[t].parent # "none"
        PROVE  /\ v1'[t].parent \in Spans /\ v1'[v1'[t].parent].on
               /\ v1'[t].trace = v1'[v1'[t].parent].trace
    <3>1. CASE t # s
      <4>1. PICK p : p = v1[t].parent
        OBVIOUS
      <4>2. v1[t].on /\ p # "none" /\ v1'[t] = v1[t]
        BY <2>1, <2>2, <3>1, <4>1
      <4>3. p \in Spans /\ v1[p].on /\ v1[t].trace = v1[p].trace
        BY <4>1, <4>2 DEF TraceInv, Obs!ParentsOn, Obs!OneTracePerTree
      <4>4. v1'[p].on /\ v1'[p].trace = v1[p].trace
        BY <1>s, <2>1, <4>3
      <4> QED
        BY <4>1, <4>2, <4>3, <4>4
    <3>2. CASE t = s
      <4>1. PICK p : p = k.parent
        OBVIOUS
      <4>2. p # "none" /\ v1'[t] = k
        BY <2>1, <2>2, <3>2, <4>1
      <4>3. p \in Spans /\ v1[p].on /\ k.trace = v1[p].trace
        BY <1>s, <4>1, <4>2 DEF TraceInv, Obs!ParentsOn, Obs!OneTracePerTree
      <4>4. v1'[p].on /\ v1'[p].trace = v1[p].trace
        BY <1>s, <2>1, <4>3
      <4> QED
        BY <4>1, <4>2, <4>3, <4>4
    <3> QED
      BY <3>1, <3>2
  <2> QED
    BY <1>s, <2>1, <2>2 DEF TraceInv, Obs!ParentsOn, Obs!OneTracePerTree
<1>o. ASSUME NEW s \in Spans, NEW k \in Obs!SpanState, v1' = [v1 EXCEPT ![s] = k], v1[s].ended => k.ended,
             UNCHANGED <<v5, v6>>
      PROVE  Obs!OneRecord'
  <2>1. \A t \in Spans : v1[t].ended => v1'[t].ended
    BY <1>0, <1>o
  <2> QED
    BY <1>o, <2>1 DEF TraceInv, Obs!OneRecord
<1>1. ASSUME NEW s \in Spans, NEW p \in Spans \cup {"none"}, Obs!Start(s, p) PROVE TraceInv'
  <2>1. PICK k \in Obs!SpanState : /\ v1' = [v1 EXCEPT ![s] = k] /\ k.on /\ ~v1[s].on
             /\ \/ k.parent = "none"
                \/ k.parent \in Spans /\ v1[k.parent].on /\ k.trace = v1[k.parent].trace
    <3>1. CASE p = "none"
      <4>1. Obs!Opened(s, "none") \in Obs!SpanState /\ Obs!Opened(s, "none").on /\ Obs!Opened(s, "none").parent = "none"
        BY DEF Obs!Opened, Obs!SpanState, Obs!Status
      <4> QED
        BY <1>1, <3>1, <4>1, ObsAssumption DEF Obs!Start
    <3>2. CASE p # "none"
      <4> DEFINE k == Obs!Opened(v1[p].trace, p)
      <4>1. p \in Spans /\ v1[p].on /\ v1' = [v1 EXCEPT ![s] = k] /\ ~v1[s].on
        BY <1>1, <3>2 DEF Obs!Start, Obs!inherited
      <4>2. v1[p].trace \in Spans \cup {"none"}
        BY <1>0, <4>1 DEF Obs!SpanState
      <4>3. k \in Obs!SpanState /\ k.on /\ k.parent = p /\ k.trace = v1[p].trace
        BY <4>1, <4>2 DEF Obs!Opened, Obs!SpanState, Obs!Status
      <4> HIDE DEF k
      <4> QED
        BY <4>1, <4>3
    <3> QED
      BY <3>1, <3>2
  <2>2. UNCHANGED <<v2, v3, v4, v5, v6>>
    BY <1>1 DEF Obs!Start
  <2>3. v1' \in [Spans -> Obs!SpanState] /\ Obs!ParentsOn' /\ Obs!OneTracePerTree'
    BY <1>s, <2>1
  <2>4. Obs!OneRecord'
    <3>1. ~v1[s].ended
      BY <2>1 DEF TraceInv, Obs!ParentsOn
    <3> QED
      BY <1>o, <2>1, <2>2, <3>1
  <2> QED
    BY <1>0, <1>r, <2>2, <2>3, <2>4 DEF TraceInv, Obs!TraceType
<1>2. ASSUME NEW s \in Spans, Obs!RecordError(s) \/ Obs!SetStatus(s) PROVE TraceInv'
  <2>1. PICK k \in Obs!SpanState : /\ v1' = [v1 EXCEPT ![s] = k] /\ k.on /\ v1[s].on /\ k.ended = v1[s].ended
             /\ k.trace = v1[s].trace /\ k.parent = v1[s].parent
    <3>0. v1[s] \in Obs!SpanState /\ v1[s].on
      BY <1>0, <1>2 DEF Obs!RecordError, Obs!SetStatus
    <3>1. PICK st \in Obs!Status : v1' = [v1 EXCEPT ![s].status = st]
      BY <1>0, <1>2, <3>0 DEF Obs!RecordError, Obs!SetStatus, Obs!SpanState, Obs!Status
    <3> DEFINE k == [v1[s] EXCEPT !.status = st]
    <3>2. k \in Obs!SpanState /\ k.on = v1[s].on /\ k.ended = v1[s].ended /\ k.trace = v1[s].trace /\ k.parent = v1[s].parent
      BY <3>0 DEF Obs!SpanState
    <3>3. v1' = [v1 EXCEPT ![s] = k]
      BY <1>0, <3>1
    <3> HIDE DEF k
    <3> QED
      BY <3>0, <3>2, <3>3
  <2>2. UNCHANGED <<v2, v3, v4, v5, v6>>
    BY <1>2 DEF Obs!RecordError, Obs!SetStatus
  <2>3. v1' \in [Spans -> Obs!SpanState] /\ Obs!ParentsOn' /\ Obs!OneTracePerTree'
    BY <1>s, <2>1
  <2>4. Obs!OneRecord'
    BY <1>o, <2>1, <2>2
  <2> QED
    BY <1>0, <1>r, <2>2, <2>3, <2>4 DEF TraceInv, Obs!TraceType
<1>3. ASSUME NEW e \in Enders, NEW s \in Spans, Obs!End(e, s) PROVE TraceInv'
  <2>0. UNCHANGED <<v2, v3, v4, v6>> /\ v1[s].on /\ v5[e] = Obs!NoRecord
    BY <1>3 DEF Obs!End
  <2>1. CASE v1[s].ended
    <3>1. UNCHANGED <<v1, v5>>
      BY <1>3, <2>1 DEF Obs!End, Obs!mayEnd
    <3> QED
      BY <1>r, <2>0, <3>1 DEF TraceInv, Obs!TraceType, Obs!ParentsOn, Obs!OneTracePerTree, Obs!OneRecord
  <2>2. CASE ~v1[s].ended
    <3> DEFINE k == [v1[s] EXCEPT !.ended = TRUE]  r == [span |-> s, status |-> v1[s].status]
    <3>0. v1[s] \in Obs!SpanState
      BY <1>0
    <3>1. k \in Obs!SpanState /\ k.on = v1[s].on /\ k.ended /\ k.trace = v1[s].trace /\ k.parent = v1[s].parent
      BY <3>0 DEF Obs!SpanState
    <3>2. r \in Obs!Record /\ r.span = s
      BY <3>0 DEF Obs!SpanState, Obs!Record
    <3>3. v1' = [v1 EXCEPT ![s] = k] /\ v5' = [v5 EXCEPT ![e] = r]
      BY <1>0, <1>3, <2>2 DEF Obs!End, Obs!mayEnd
    <3> HIDE DEF k, r
    <3>4. v1' \in [Spans -> Obs!SpanState] /\ Obs!ParentsOn' /\ Obs!OneTracePerTree'
      BY <1>s, <2>0, <3>1, <3>3
    <3>5. v5' \in [Enders -> Obs!Record] /\ \A f \in Enders : v5'[f] = IF f = e THEN r ELSE v5[f]
      BY <1>0, <3>2, <3>3
    <3>6. \A t \in Spans : v1'[t].ended <=> t = s \/ v1[t].ended
      BY <1>0, <3>1, <3>3
    <3>7. v6' = v6
      BY <2>0
    <3>8. \A f \in Enders : v5[f].span # s
      BY <2>2, ObsAssumption DEF TraceInv, Obs!OneRecord, Obs!NoRecord
    <3>9. Obs!OneRecord'
      <4>1. \A f \in Enders : v5'[f] = Obs!NoRecord \/ (v5'[f].span \in Spans /\ v1'[v5'[f].span].ended)
        BY <3>2, <3>5, <3>6 DEF TraceInv, Obs!OneRecord
      <4>2. \A f, h \in Enders : v5'[f].span = v5'[h].span /\ v5'[f].span \in Spans => f = h
        BY <3>2, <3>5, <3>8 DEF TraceInv, Obs!OneRecord
      <4>3. \A i \in DOMAIN v6 : v6[i].span \in Spans /\ v1'[v6[i].span].ended
        BY <3>6 DEF TraceInv, Obs!OneRecord
      <4>4. \A i \in DOMAIN v6, f \in Enders : v6[i].span # v5'[f].span
        BY <2>2, <3>2, <3>5 DEF TraceInv, Obs!OneRecord
      <4> QED
        BY <3>7, <4>1, <4>2, <4>3, <4>4 DEF TraceInv, Obs!OneRecord
    <3> QED
      BY <1>r, <2>0, <3>4, <3>5, <3>9 DEF TraceInv, Obs!TraceType
  <2> QED
    BY <2>1, <2>2
<1>4. ASSUME NEW e \in Enders, Obs!add(e) PROVE TraceInv'
  <2>1. PICK r \in Obs!Record : r = v5[e]
    BY <1>0
  <2>2. /\ r # Obs!NoRecord /\ r.span \in Spans /\ v1[r.span].ended
        /\ v2' = [v2 EXCEPT ![v3] = r] /\ v6' = Append(v6, r)
        /\ v3' = (IF v3 + 1 = RingCapacity THEN 0 ELSE v3 + 1)
        /\ v5' = [v5 EXCEPT ![e] = Obs!NoRecord] /\ v1' = v1
    BY <1>4, <2>1 DEF Obs!add, Obs!wrapped, TraceInv, Obs!OneRecord
  <2>3. v4' \in BOOLEAN
    BY <1>4, Zenon DEF Obs!add
  <2>4. v4' <=> v4 \/ v3 + 1 = RingCapacity
    BY <1>4, Zenon DEF Obs!add, Obs!wrapped
  <2>5. v2' \in [0 .. RingCapacity - 1 -> Obs!Record] /\ TraceRing'
    <3>1. CASE v4
      <4>1. Rolling(v2, v3, v6, RingCapacity)
        BY <3>1 DEF TraceInv, TraceRing
      <4>2. v2' \in [0 .. RingCapacity - 1 -> Obs!Record] /\ Rolling(v2', v3', v6', RingCapacity)
        BY <1>0, <2>2, <4>1, RingRolls, ObsAssumption
      <4> QED
        BY <2>4, <3>1, <4>2 DEF TraceRing
    <3>2. CASE ~v4
      <4>1. Filling(v2, v3, v6, RingCapacity)
        BY <3>2 DEF TraceInv, TraceRing
      <4>2. /\ v2' \in [0 .. RingCapacity - 1 -> Obs!Record]
            /\ v3 + 1 # RingCapacity => Filling(v2', v3', v6', RingCapacity)
            /\ v3 + 1 = RingCapacity => Rolling(v2', v3', v6', RingCapacity)
        BY <1>0, <2>2, <4>1, RingFills, ObsAssumption
      <4> QED
        BY <2>4, <3>2, <4>2 DEF TraceRing
    <3> QED
      BY <3>1, <3>2
  <2>6. Obs!NoRecord \in Obs!Record /\ Obs!NoRecord.span = "none"
    BY DEF Obs!NoRecord, Obs!Record
  <2>7. v5' \in [Enders -> Obs!Record] /\ \A f \in Enders : v5'[f] = IF f = e THEN Obs!NoRecord ELSE v5[f]
    BY <1>0, <2>2, <2>6
  <2> DEFINE n == Len(v6)
  <2>8. /\ v6' \in Seq(Obs!Record) /\ n \in Nat /\ DOMAIN v6 = 1 .. n /\ DOMAIN v6' = 1 .. n + 1
        /\ \A i \in 1 .. n + 1 : v6'[i] = IF i = n + 1 THEN r ELSE v6[i]
    BY <1>0, <2>2
  <2> HIDE DEF n
  <2>9. \A i \in DOMAIN v6' : (i = n + 1 /\ v6'[i] = r) \/ (i \in DOMAIN v6 /\ v6'[i] = v6[i])
    BY <2>8
  <2>10. \A i \in DOMAIN v6 : v6[i].span # r.span
    BY <2>1 DEF TraceInv, Obs!OneRecord
  <2>11. Obs!OneRecord'
    <3>1. \A f \in Enders : v5'[f] = Obs!NoRecord \/ (v5'[f].span \in Spans /\ v1'[v5'[f].span].ended)
      BY <2>2, <2>7 DEF TraceInv, Obs!OneRecord
    <3>2. \A f, h \in Enders : v5'[f].span = v5'[h].span /\ v5'[f].span \in Spans => f = h
      BY <2>6, <2>7, ObsAssumption DEF TraceInv, Obs!OneRecord
    <3>3. \A i \in DOMAIN v6' : v6'[i].span \in Spans /\ v1'[v6'[i].span].ended
      BY <2>2, <2>9 DEF TraceInv, Obs!OneRecord
    <3>4. \A i \in DOMAIN v6', f \in Enders : v6'[i].span # v5'[f].span
      <4> SUFFICES ASSUME NEW i \in DOMAIN v6', NEW f \in Enders PROVE v6'[i].span # v5'[f].span
        OBVIOUS
      <4>1. CASE f = e
        BY <2>6, <2>7, <3>3, <4>1, ObsAssumption
      <4>2. CASE f # e
        <5>1. v5'[f] = v5[f] /\ v5[f].span # r.span
          BY <2>1, <2>2, <2>7, <4>2 DEF TraceInv, Obs!OneRecord
        <5> QED
          BY <2>9, <5>1 DEF TraceInv, Obs!OneRecord
      <4> QED
        BY <4>1, <4>2
    <3>5. \A i, j \in DOMAIN v6' : v6'[i].span = v6'[j].span => i = j
      BY <2>9, <2>10 DEF TraceInv, Obs!OneRecord
    <3> QED
      BY <3>1, <3>2, <3>3, <3>4, <3>5 DEF Obs!OneRecord
  <2> QED
    BY <2>2, <2>3, <2>5, <2>7, <2>8, <2>11 DEF TraceInv, Obs!TraceType, Obs!ParentsOn, Obs!OneTracePerTree
<1>5. CASE UNCHANGED Obs!traceVars
  BY <1>5 DEF Obs!traceVars, TraceInv, Obs!TraceType, Obs!ParentsOn, Obs!OneRecord, TraceRing, Obs!OneTracePerTree
<1> QED
  BY <1>1, <1>2, <1>3, <1>4, <1>5 DEF Obs!TraceNext

\* The invariant of the tracer implies that List shows the newest spans, each once, and that a tree
\* has one trace.
LEMMA TraceSafe == TraceInv => Obs!SpansShownOnce /\ Obs!OneTracePerTree
<1> SUFFICES ASSUME TraceInv PROVE Obs!SpansShownOnce
  BY DEF TraceInv
<1>0. v2 \in [0 .. RingCapacity - 1 -> Obs!Record] /\ v6 \in Seq(Obs!Record) /\ Len(v6) \in Nat
  BY DEF TraceInv, Obs!TraceType
<1>1. Obs!snapshot = SubSeq(v6, Len(v6) - Len(Obs!snapshot) + 1, Len(v6))
  <2>1. CASE v4
    <3>1. Rolling(v2, v3, v6, RingCapacity)
      BY <2>1 DEF TraceInv, TraceRing
    <3>2. Obs!snapshot = SubSeq(v6, Len(v6) - RingCapacity + 1, Len(v6)) /\ Len(v6) >= RingCapacity
      <4>1. Obs!snapshot = Obs!cells(v3, RingCapacity - 1) \o Obs!cells(0, v3 - 1)
        BY <2>1 DEF Obs!snapshot
      <4>2. /\ Obs!cells(v3, RingCapacity - 1) \o Obs!cells(0, v3 - 1) = SubSeq(v6, Len(v6) - RingCapacity + 1, Len(v6))
            /\ Len(v6) >= RingCapacity
        BY <1>0, <3>1, RingShows, ObsAssumption DEF Obs!cells
      <4> QED
        BY <4>1, <4>2
    <3>3. Len(SubSeq(v6, Len(v6) - RingCapacity + 1, Len(v6))) = RingCapacity
      BY <1>0, <3>2, ObsAssumption
    <3> QED
      BY <3>2, <3>3
  <2>2. CASE ~v4
    <3>1. Filling(v2, v3, v6, RingCapacity)
      BY <2>2 DEF TraceInv, TraceRing
    <3>2. Obs!snapshot = SubSeq(v6, 1, Len(v6))
      <4>1. Obs!snapshot = Obs!cells(0, v3 - 1)
        BY <2>2 DEF Obs!snapshot
      <4>2. Obs!cells(0, v3 - 1) = SubSeq(v6, 1, Len(v6))
        BY <1>0, <3>1, RingShows, ObsAssumption DEF Obs!cells
      <4> QED
        BY <4>1, <4>2
    <3>3. SubSeq(v6, 1, Len(v6)) = v6
      BY <1>0
    <3>4. Len(v6) - Len(v6) + 1 = 1
      BY <1>0
    <3> QED
      BY <3>2, <3>3, <3>4
  <2> QED
    BY <2>1, <2>2
<1> QED
  BY <1>1 DEF Obs!SpansShownOnce, TraceInv, Obs!OneRecord

\* The invariant of the metrics holds initially.
LEMMA MetricStart == Obs!MetricInit => Obs!MetricInv
<1> SUFFICES ASSUME Obs!MetricInit PROVE Obs!MetricInv
  OBVIOUS
<1>0. Adds \in Nat
  BY ObsAssumption
<1> DEFINE k == [pc |-> "lookup", fam |-> 0, ctr |-> 0, old |-> 0, left |-> Adds]
<1>1. k \in Obs!Goroutine /\ k.pc = "lookup" /\ k.left = Adds
  BY <1>0 DEF Obs!Goroutine
<1> HIDE DEF k
<1>2. v12 \in [Goroutines -> Obs!Goroutine] /\ \A x \in Goroutines : v12[x].pc = "lookup" /\ v12[x].left = Adds
  BY <1>1 DEF Obs!MetricInit, k
<1>3. v8 = 0 /\ v9 = 0 /\ v10 \in Seq({0, 1}) /\ Len(v10) = 0 /\ v11 \in Seq(Nat) /\ Len(v11) = 0
  BY DEF Obs!MetricInit
<1>4. Obs!OneSeries
  BY <1>0, <1>2, <1>3 DEF Obs!OneSeries
<1>5. Obs!Returned = {}
  BY <1>0, <1>2 DEF Obs!Returned
<1> QED
  BY ObsCounts, <1>3, <1>4, <1>5, FS_EmptySet DEF Obs!MetricInv

\* Every step of the metrics preserves the invariant.
LEMMA MetricStep == Obs!MetricInv /\ [Obs!MetricNext]_Obs!metricVars => Obs!MetricInv'
<1> SUFFICES ASSUME Obs!MetricInv, [Obs!MetricNext]_Obs!metricVars PROVE Obs!MetricInv'
  OBVIOUS
<1>0. /\ v8 \in {0, 1} /\ v9 = v8 /\ v10 \in Seq({0, 1}) /\ Len(v10) = v8
      /\ v11 \in Seq(Nat) /\ Len(v11) = (IF v8 = 1 THEN v10[1] ELSE 0)
      /\ v12 \in [Goroutines -> Obs!Goroutine] /\ Adds \in Nat
  BY ObsCounts, ObsAssumption DEF Obs!MetricInv, Obs!OneSeries
\* A step of x that changes no counter and completes no addition.
<1>k. ASSUME NEW x \in Goroutines, NEW k \in Obs!Goroutine, v12' = [v12 EXCEPT ![x] = k], k.left = v12[x].left
      PROVE  /\ v12' \in [Goroutines -> Obs!Goroutine] /\ Obs!Returned' = Obs!Returned
             /\ \A y \in Goroutines : v12'[y] = IF y = x THEN k ELSE v12[y]
  <2>1. v12' \in [Goroutines -> Obs!Goroutine] /\ \A y \in Goroutines : v12'[y] = IF y = x THEN k ELSE v12[y]
    BY <1>0, <1>k
  <2>2. \A y \in Goroutines : v12'[y].left = v12[y].left
    BY <1>k, <2>1
  <2> QED
    BY <2>1, <2>2 DEF Obs!Returned
<1>1. ASSUME NEW x \in Goroutines, Obs!lookup(x) PROVE Obs!MetricInv'
  <2>0. v12[x] \in Obs!Goroutine
    BY <1>0
  <2>p. PICK p \in {"create", "series"} : p = IF v8 = 0 THEN "create" ELSE "series"
    OBVIOUS
  <2> DEFINE k == [v12[x] EXCEPT !.fam = v8, !.pc = p]
  <2>1. /\ k \in Obs!Goroutine /\ k.left = v12[x].left /\ k.fam = v8
        /\ k.pc = p
    <3>1. v8 \in Nat
      BY <1>0
    <3> QED
      BY <2>0, <3>1 DEF Obs!Goroutine
  <2>2. v12' = [v12 EXCEPT ![x] = k]
    BY <1>0, <1>1, <2>p DEF Obs!lookup
  <2> HIDE DEF k
  <2>3. /\ v12' \in [Goroutines -> Obs!Goroutine] /\ Obs!Returned' = Obs!Returned
        /\ \A y \in Goroutines : v12'[y] = IF y = x THEN k ELSE v12[y]
    BY <1>k, <2>1, <2>2
  <2>4. v12[x].left = Adds /\ UNCHANGED <<v8, v9, v10, v11>>
    BY ObsCounts, <1>1 DEF Obs!lookup, Obs!MetricInv, Obs!OneSeries
  <2>5. Obs!OneSeries'
    BY ObsCounts, <1>0, <2>p, <2>1, <2>3, <2>4 DEF Obs!MetricInv, Obs!OneSeries
  <2> QED
    BY ObsCounts, <2>3, <2>4, <2>5 DEF Obs!MetricInv
<1>2. ASSUME NEW x \in Goroutines, Obs!create(x) PROVE Obs!MetricInv'
  <2>0. v12[x] \in Obs!Goroutine /\ v12[x].left = Adds /\ v11' = v11
    BY ObsCounts, <1>0, <1>2 DEF Obs!create, Obs!MetricInv, Obs!OneSeries
  <2>1. /\ v8' = 1 /\ v9' = 1 /\ v10' \in Seq({0, 1}) /\ Len(v10') = 1
        /\ v10'[1] = IF v8 = 1 THEN v10[1] ELSE 0
    <3>1. CASE v8 = 0
      <4>1. v9 + 1 = 1 /\ v8' = v9 + 1 /\ v9' = v9 + 1 /\ v10' = Append(v10, 0)
        BY <1>0, <1>2, <3>1 DEF Obs!create, Obs!needed
      <4>2. v10' \in Seq({0, 1}) /\ Len(v10') = 1 /\ v10'[1] = 0
        BY <1>0, <3>1, <4>1
      <4> QED
        BY <3>1, <4>1, <4>2
    <3>2. CASE v8 = 1
      BY <1>0, <1>2, <3>2 DEF Obs!create, Obs!needed
    <3> QED
      BY <1>0, <3>1, <3>2
  <2> DEFINE k == [v12[x] EXCEPT !.fam = 1, !.pc = "series"]
  <2>2. k \in Obs!Goroutine /\ k.left = v12[x].left /\ k.fam = 1 /\ k.pc = "series"
    BY <2>0 DEF Obs!Goroutine
  <2>3. v12' = [v12 EXCEPT ![x] = k]
    BY <1>0, <1>2, <2>1 DEF Obs!create
  <2> HIDE DEF k
  <2>4. /\ v12' \in [Goroutines -> Obs!Goroutine] /\ Obs!Returned' = Obs!Returned
        /\ \A y \in Goroutines : v12'[y] = IF y = x THEN k ELSE v12[y]
    BY <1>k, <2>2, <2>3
  <2>5. Obs!OneSeries'
    BY ObsCounts, <1>0, <2>0, <2>1, <2>2, <2>4 DEF Obs!MetricInv, Obs!OneSeries
  <2> QED
    BY ObsCounts, <1>0, <2>0, <2>1, <2>4, <2>5 DEF Obs!MetricInv
<1>3. ASSUME NEW x \in Goroutines, Obs!Counter(x) PROVE Obs!MetricInv'
  <2>0. /\ v12[x] \in Obs!Goroutine /\ v12[x].left = Adds /\ v12[x].fam = 1 /\ v8 = 1
        /\ UNCHANGED <<v8, v9>> /\ v10[1] \in {0, 1}
    BY ObsCounts, <1>0, <1>3 DEF Obs!Counter, Obs!MetricInv, Obs!OneSeries
  <2> DEFINE k == [v12[x] EXCEPT !.ctr = 1, !.pc = "load"]
  <2>1. k \in Obs!Goroutine /\ k.left = v12[x].left /\ k.ctr = 1 /\ k.pc = "load"
    BY <2>0 DEF Obs!Goroutine
  <2>2. CASE v10[1] = 0
    <3>1. Len(v11) + 1 = 1
      BY <1>0, <2>0, <2>2
    <3>2. v10' = [v10 EXCEPT ![1] = 1] /\ v11' = Append(v11, 0) /\ v12' = [v12 EXCEPT ![x] = k]
      BY <1>0, <1>3, <2>0, <2>2, <3>1 DEF Obs!Counter
    <3>3. v10' \in Seq({0, 1}) /\ Len(v10') = 1 /\ v10'[1] = 1 /\ v11' \in Seq(Nat) /\ Len(v11') = 1 /\ v11'[1] = 0
      BY <1>0, <2>0, <3>1, <3>2
    <3> HIDE DEF k
    <3>4. /\ v12' \in [Goroutines -> Obs!Goroutine] /\ Obs!Returned' = Obs!Returned
          /\ \A y \in Goroutines : v12'[y] = IF y = x THEN k ELSE v12[y]
      BY <1>k, <2>1, <3>2
    <3>5. Obs!OneSeries'
      BY ObsCounts, <1>0, <2>0, <2>1, <3>3, <3>4 DEF Obs!MetricInv, Obs!OneSeries
    <3> QED
      BY ObsCounts, <2>0, <2>2, <3>3, <3>4, <3>5 DEF Obs!MetricInv
  <2>3. CASE v10[1] # 0
    <3>1. v10[1] = 1 /\ UNCHANGED <<v10, v11>> /\ v12' = [v12 EXCEPT ![x] = k]
      BY <1>0, <1>3, <2>0, <2>3 DEF Obs!Counter
    <3> HIDE DEF k
    <3>4. /\ v12' \in [Goroutines -> Obs!Goroutine] /\ Obs!Returned' = Obs!Returned
          /\ \A y \in Goroutines : v12'[y] = IF y = x THEN k ELSE v12[y]
      BY <1>k, <2>1, <3>1
    <3>5. Obs!OneSeries'
      BY ObsCounts, <1>0, <2>0, <2>1, <3>1, <3>4 DEF Obs!MetricInv, Obs!OneSeries
    <3> QED
      BY ObsCounts, <2>0, <3>1, <3>4, <3>5 DEF Obs!MetricInv
  <2> QED
    BY <2>2, <2>3
<1>4. ASSUME NEW x \in Goroutines, Obs!load(x) PROVE Obs!MetricInv'
  <2>0. /\ v12[x] \in Obs!Goroutine /\ v12[x].ctr = 1 /\ v8 = 1 /\ v10[1] = 1 /\ v12[x].left > 0
        /\ UNCHANGED <<v8, v9, v10, v11>>
    BY ObsCounts, <1>0, <1>4 DEF Obs!load, Obs!MetricInv, Obs!OneSeries
  <2>1. v11[1] \in Nat
    BY <1>0, <2>0
  <2> DEFINE k == [v12[x] EXCEPT !.old = v11[1], !.pc = "cas"]
  <2>2. k \in Obs!Goroutine /\ k.left = v12[x].left /\ k.ctr = 1 /\ k.pc = "cas"
    BY <2>0, <2>1 DEF Obs!Goroutine
  <2>3. v12' = [v12 EXCEPT ![x] = k]
    BY <1>0, <1>4, <2>0 DEF Obs!load
  <2> HIDE DEF k
  <2>4. /\ v12' \in [Goroutines -> Obs!Goroutine] /\ Obs!Returned' = Obs!Returned
        /\ \A y \in Goroutines : v12'[y] = IF y = x THEN k ELSE v12[y]
    BY <1>k, <2>2, <2>3
  <2>5. Obs!OneSeries'
    BY ObsCounts, <1>0, <2>0, <2>2, <2>4 DEF Obs!MetricInv, Obs!OneSeries
  <2> QED
    BY ObsCounts, <2>0, <2>4, <2>5 DEF Obs!MetricInv
<1>5. ASSUME NEW x \in Goroutines, Obs!cas(x) PROVE Obs!MetricInv'
  <2>0. /\ v12[x] \in Obs!Goroutine /\ v12[x].ctr = 1 /\ v8 = 1 /\ v10[1] = 1 /\ v12[x].left > 0 /\ v12[x].left <= Adds
        /\ UNCHANGED <<v8, v9, v10>>
    BY ObsCounts, <1>0, <1>5 DEF Obs!cas, Obs!MetricInv, Obs!OneSeries
  <2>1. v11[1] \in Nat /\ Len(v11) = 1
    BY <1>0, <2>0
  <2>2. CASE v11[1] = v12[x].old
    <3>0. PICK m \in Nat : m = v12[x].left - 1 /\ m <= Adds
      <4>1. v12[x].left \in Nat
        BY <2>0 DEF Obs!Goroutine
      <4> QED
        BY <1>0, <2>0, <4>1
    <3> DEFINE k == [v12[x] EXCEPT !.left = m, !.pc = "load"]
    <3>1. k \in Obs!Goroutine /\ k.left = m /\ k.ctr = 1 /\ k.pc = "load"
      BY <2>0 DEF Obs!Goroutine
    <3>2. v12' = [v12 EXCEPT ![x] = k] /\ v11' = [v11 EXCEPT ![1] = v11[1] + 1]
      BY <1>0, <1>5, <2>0, <2>2, <3>0 DEF Obs!cas, Obs!swaps
    <3>3. v11' \in Seq(Nat) /\ Len(v11') = 1 /\ v11'[1] = v11[1] + 1
      BY <1>0, <2>1, <3>2
    <3> HIDE DEF k
    <3>4. /\ v12' \in [Goroutines -> Obs!Goroutine]
          /\ \A y \in Goroutines : v12'[y] = IF y = x THEN k ELSE v12[y]
      BY <1>0, <3>1, <3>2
    <3>5. Obs!OneSeries'
      BY ObsCounts, <1>0, <2>0, <3>0, <3>1, <3>3, <3>4 DEF Obs!MetricInv, Obs!OneSeries
    <3> DEFINE a == <<x, Adds - v12[x].left + 1>>
    <3>6. a \notin Obs!Returned /\ Obs!Returned' = Obs!Returned \cup {a}
      <4>1. PICK l \in Nat : l = v12[x].left /\ l > 0 /\ l <= Adds /\ v12'[x].left = l - 1
        BY <2>0, <3>0, <3>1, <3>4 DEF Obs!Goroutine
      <4>2. a = <<x, Adds - l + 1>>
        BY <4>1
      <4>3. a \notin Obs!Returned
        BY <1>0, <4>1, <4>2 DEF Obs!Returned
      <4>4. \A y \in Goroutines : y # x => v12'[y].left = v12[y].left
        BY <3>4
      <4>5. ASSUME NEW b \in Goroutines \X (1 .. Adds) PROVE b \in Obs!Returned' <=> b \in Obs!Returned \/ b = a
        <5>1. PICK y \in Goroutines, i \in 1 .. Adds : b = <<y, i>>
          OBVIOUS
        <5>2. (b \in Obs!Returned' <=> i <= Adds - v12'[y].left) /\ (b \in Obs!Returned <=> i <= Adds - v12[y].left)
          BY <5>1 DEF Obs!Returned
        <5>3. CASE y # x
          BY <4>2, <4>4, <5>1, <5>2, <5>3
        <5>4. CASE y = x
          <6>1. b = a <=> i = Adds - l + 1
            BY <4>2, <5>1, <5>4
          <6> QED
            BY <1>0, <4>1, <5>2, <5>4, <6>1, SMTT(30)
        <5> QED
          BY <5>3, <5>4
      <4>6. a \in Goroutines \X (1 .. Adds)
        BY <1>0, <4>1, <4>2
      <4>7. Obs!Returned \in SUBSET (Goroutines \X (1 .. Adds)) /\ Obs!Returned' \in SUBSET (Goroutines \X (1 .. Adds))
        BY DEF Obs!Returned
      <4> QED
        BY <4>3, <4>5, <4>6, <4>7
    <3> HIDE DEF a
    <3>7. IsFiniteSet(Obs!Returned') /\ Cardinality(Obs!Returned') = Cardinality(Obs!Returned) + 1
      BY ObsCounts, <3>6, FS_AddElement DEF Obs!MetricInv
    <3> QED
      BY ObsCounts, <2>0, <3>3, <3>5, <3>7 DEF Obs!MetricInv
  <2>3. CASE v11[1] # v12[x].old
    <3> DEFINE k == [v12[x] EXCEPT !.pc = "load"]
    <3>1. k \in Obs!Goroutine /\ k.left = v12[x].left /\ k.ctr = 1 /\ k.pc = "load"
      BY <2>0 DEF Obs!Goroutine
    <3>2. v12' = [v12 EXCEPT ![x] = k] /\ v11' = v11
      BY <1>0, <1>5, <2>0, <2>3 DEF Obs!cas, Obs!swaps
    <3> HIDE DEF k
    <3>3. /\ v12' \in [Goroutines -> Obs!Goroutine] /\ Obs!Returned' = Obs!Returned
          /\ \A y \in Goroutines : v12'[y] = IF y = x THEN k ELSE v12[y]
      BY <1>k, <3>1, <3>2
    <3>4. Obs!OneSeries'
      BY ObsCounts, <1>0, <2>0, <3>1, <3>2, <3>3 DEF Obs!MetricInv, Obs!OneSeries
    <3> QED
      BY ObsCounts, <2>0, <3>2, <3>3, <3>4 DEF Obs!MetricInv
  <2> QED
    BY <2>2, <2>3
<1>6. CASE UNCHANGED Obs!metricVars
  BY ObsCounts, <1>6 DEF Obs!metricVars, Obs!MetricInv, Obs!OneSeries, Obs!Returned
<1> QED
  BY <1>1, <1>2, <1>3, <1>4, <1>5, <1>6 DEF Obs!MetricNext

\* The invariant of the metrics implies the properties.
LEMMA MetricSafe == Obs!MetricInv => Obs!NoAdditionLost
BY ObsCounts DEF Obs!MetricInv, Obs!OneSeries, Obs!NoAdditionLost

-----------------------------------------------------------------------------
(***************************************************************************)
(* The parts together.                                                     *)
(***************************************************************************)

\* A step stays in its part and is a step of that part, or changes nothing of it.
LEMMA PartsApart ==
  ASSUME [InnerNext]_vars
  PROVE  /\ part' = part
         /\ part = "container" => [Cont!Next]_Cont!conVars
         /\ part = "app" => [App!Next]_App!appVars
         /\ part = "failed" => [Fail!Next]_Fail!fjVars
         /\ part = "websocket" => [Ws!Next]_Ws!wsVars
         /\ part = "events" => [Ev!EventNext]_Ev!evVars
         /\ part = "notifications" => [Ev!NotifyNext]_Ev!ntVars
         /\ part = "database" => [Db!Next]_Db!dbVars
         /\ part = "telescope" => [Tel!Next]_Tel!telVars
         /\ part = "tracing" => [Obs!TraceNext]_Obs!traceVars
         /\ part = "metrics" => [Obs!MetricNext]_Obs!metricVars
<1>1. CASE UNCHANGED vars
  <2>1. part' = part /\ v1' = v1 /\ v2' = v2 /\ v3' = v3 /\ v4' = v4 /\ v5' = v5 /\ v6' = v6 /\ v7' = v7 /\ v8' = v8 /\ v9' = v9 /\ v10' = v10 /\ v11' = v11 /\ v12' = v12 /\ v13' = v13 /\ v14' = v14 /\ v15' = v15
    BY <1>1 DEF vars, Rest1, Rest2, Rest3, Rest4, Rest5, Rest6, Rest7, Rest8, Rest9, Rest10, Rest11, Rest12, Rest13, Rest14
  <2> QED
    BY <2>1 DEF Cont!conVars, App!appVars, Fail!fjVars, Ws!wsVars, Ev!evVars, Ev!ntVars, Db!dbVars, Tel!telVars, Obs!traceVars, Obs!metricVars
<1>2. CASE InnerNext
  BY <1>2 DEF InnerNext
<1> QED
  BY <1>1, <1>2

ResolutionInv ==
    /\ part = "container" => Cont!ContInv

\* The invariant of the container holds initially.
LEMMA ResolutionStart == InnerInit => ResolutionInv
<1> SUFFICES ASSUME InnerInit PROVE ResolutionInv
  OBVIOUS
<1>1. part = "container" => Cont!ContInv
  BY ContStart DEF InnerInit
<1> QED
  BY <1>1 DEF ResolutionInv

\* Every step of the container preserves the invariant.
LEMMA ResolutionStep == ResolutionInv /\ [InnerNext]_vars => ResolutionInv'
<1> SUFFICES ASSUME ResolutionInv, [InnerNext]_vars PROVE ResolutionInv'
  OBVIOUS
<1>1. part' = "container" => Cont!ContInv'
  BY PartsApart, ContStep DEF ResolutionInv
<1> QED
  BY <1>1 DEF ResolutionInv

\* Make, for any bindings, dependencies and number of goroutines: a goroutine that meets its own
\* cycle panics instead of waiting for itself, a singleton's factory runs once, no singleton keeps
\* what a scope made, and goroutines wait for each other only on a cycle of the bindings.
THEOREM ResolutionHolds == InnerSpec => []Resolution
<1>1. ResolutionInv => Resolution
  BY ContSafe DEF ResolutionInv, Resolution
<1> QED
  BY <1>1, ResolutionStart, ResolutionStep, PTL DEF InnerSpec

StartupInv ==
    /\ part = "app" => App!AppInv

\* The invariant of the application holds initially.
LEMMA StartupStart == InnerInit => StartupInv
<1> SUFFICES ASSUME InnerInit PROVE StartupInv
  OBVIOUS
<1>1. part = "app" => App!AppInv
  BY AppStart DEF InnerInit
<1> QED
  BY <1>1 DEF StartupInv

\* Every step of the application preserves the invariant.
LEMMA StartupStep == StartupInv /\ [InnerNext]_vars => StartupInv'
<1> SUFFICES ASSUME StartupInv, [InnerNext]_vars PROVE StartupInv'
  OBVIOUS
<1>1. part' = "app" => App!AppInv'
  BY PartsApart, AppStep DEF StartupInv
<1> QED
  BY <1>1 DEF StartupInv

\* Boot, for any list of modules and providers: whatever calls Boot again meanwhile, a module is
\* mounted once, and all providers are registered, those a module brings before the module, before
\* any is booted.
THEOREM StartupHolds == InnerSpec => []Startup
<1>1. StartupInv => Startup
  BY DEF StartupInv, Startup, App!AppInv
<1> QED
  BY <1>1, StartupStart, StartupStep, PTL DEF InnerSpec

RegistriesInv ==
    /\ part = "websocket" => Ws!Inv
    /\ part = "events" => Ev!EventInv
    /\ part = "notifications" => Ev!NotifyInv
    /\ part = "failed" => Fail!Inv
    /\ part = "database" => Db!Inv

\* The invariant of the registries holds initially.
LEMMA RegistriesStart == InnerInit => RegistriesInv
<1> SUFFICES ASSUME InnerInit PROVE RegistriesInv
  OBVIOUS
<1>1. part = "websocket" => Ws!Inv
  BY WsStart DEF InnerInit
<1>2. part = "events" => Ev!EventInv
  BY EventStart DEF InnerInit, Ev!Init
<1>3. part = "notifications" => Ev!NotifyInv
  BY NotifyStart DEF InnerInit, Ev!Init
<1>4. part = "failed" => Fail!Inv
  BY FailedStart DEF InnerInit
<1>5. part = "database" => Db!Inv
  BY DbStart DEF InnerInit
<1> QED
  BY <1>1, <1>2, <1>3, <1>4, <1>5 DEF RegistriesInv

\* Every step of the registries preserves the invariant.
LEMMA RegistriesStep == RegistriesInv /\ [InnerNext]_vars => RegistriesInv'
<1> SUFFICES ASSUME RegistriesInv, [InnerNext]_vars PROVE RegistriesInv'
  OBVIOUS
<1>1. part' = "websocket" => Ws!Inv'
  BY PartsApart, WsStep DEF RegistriesInv
<1>2. part' = "events" => Ev!EventInv'
  BY PartsApart, EventStep DEF RegistriesInv
<1>3. part' = "notifications" => Ev!NotifyInv'
  BY PartsApart, NotifyStep DEF RegistriesInv
<1>4. part' = "failed" => Fail!Inv'
  BY PartsApart, FailedStep DEF RegistriesInv
<1>5. part' = "database" => Db!Inv'
  BY PartsApart, DbStep DEF RegistriesInv
<1> QED
  BY <1>1, <1>2, <1>3, <1>4, <1>5 DEF RegistriesInv

\* The tables goroutines share, for any number of connections, channels, listeners, jobs and pools:
\* done channels are closed once, no connection stays in a channel it left, a dispatch calls the
\* listeners it took, every notification channel is tried, failed jobs are listed once and in one
\* place, pools are owned and loggers agree.
THEOREM RegistriesHold == InnerSpec => []Registries
<1>1. RegistriesInv => Registries
  BY WsSafe, EventSafe, NotifySafe, FailedSafe DEF RegistriesInv, Registries, Db!Inv
<1> QED
  BY <1>1, RegistriesStart, RegistriesStep, PTL DEF InnerSpec

TelemetryInv ==
    /\ part = "telescope" => RingInv /\ Tel!BookInv
    /\ part = "tracing" => TraceInv
    /\ part = "metrics" => Obs!MetricInv

\* The invariant of the recorder, the tracer and the metrics holds initially.
LEMMA TelemetryStart == InnerInit => TelemetryInv
<1> SUFFICES ASSUME InnerInit PROVE TelemetryInv
  OBVIOUS
<1>1. part = "telescope" => RingInv /\ Tel!BookInv
  BY TelStart DEF InnerInit
<1>2. part = "tracing" => TraceInv
  BY TraceStart DEF InnerInit, Obs!Init
<1>3. part = "metrics" => Obs!MetricInv
  BY MetricStart DEF InnerInit, Obs!Init
<1> QED
  BY <1>1, <1>2, <1>3 DEF TelemetryInv

\* Every step of the recorder, the tracer and the metrics preserves the invariant.
LEMMA TelemetryStep == TelemetryInv /\ [InnerNext]_vars => TelemetryInv'
<1> SUFFICES ASSUME TelemetryInv, [InnerNext]_vars PROVE TelemetryInv'
  OBVIOUS
<1>1. part' = "telescope" => (RingInv /\ Tel!BookInv)'
  BY PartsApart, TelStep DEF TelemetryInv
<1>2. part' = "tracing" => TraceInv'
  BY PartsApart, TraceStep DEF TelemetryInv
<1>3. part' = "metrics" => Obs!MetricInv'
  BY PartsApart, MetricStep DEF TelemetryInv
<1> QED
  BY <1>1, <1>2, <1>3 DEF TelemetryInv

\* The recorder, the tracer and the metrics, for any capacity and number of goroutines: the rings
\* show the newest entries in order and each span once, the N+1 books agree with the queries, spans
\* of a tree share its trace and no addition is lost.
THEOREM TelemetryHolds == InnerSpec => []Telemetry
<1>1. TelemetryInv => Telemetry
  BY TelShows, TraceSafe, MetricSafe DEF TelemetryInv, Telemetry, Tel!BookInv
<1> QED
  BY <1>1, TelemetryStart, TelemetryStep, PTL DEF InnerSpec
=============================================================================
