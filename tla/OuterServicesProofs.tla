------------------------ MODULE OuterServicesProofs -------------------------
(***************************************************************************)
(* The properties of OuterServices hold for every value of the constants.  *)
(* A behaviour is about one part, and no step changes which: each part's   *)
(* inductive invariant, which its module states under the names of its own *)
(* variables, holds initially and is preserved by the part's steps (a      *)
(* lemma ...Start and a lemma ...Step for each), and implies the part's    *)
(* properties (a lemma ...Safe, where it does not contain them).  The      *)
(* theorems at the end put the parts of a theme together.                  *)
(***************************************************************************)
EXTENDS OuterServices, SequenceTheorems, FiniteSetTheorems, WellFoundedInduction, TLAPS
-----------------------------------------------------------------------------
(* Facts about sequences and numbers. *)

\* The empty sequence and sequences of one element.
LEMMA ShortSeqs ==
  ASSUME NEW S
  PROVE  /\ <<>> \in Seq(S) /\ Len(<<>>) = 0
         /\ \A x \in S : <<x>> \in Seq(S) /\ Len(<<x>>) = 1 /\ <<x>>[1] = x
OBVIOUS

\* A function on 1..n is a sequence of length n.
LEMMA FunctionIsSeq ==
  ASSUME NEW S, NEW n \in Nat, NEW f \in [1 .. n -> S]
  PROVE  f \in Seq(S) /\ Len(f) = n
OBVIOUS

\* An index of s in s \o t.
LEMMA ConcatFirst ==
  ASSUME NEW S, NEW s \in Seq(S), NEW t \in Seq(S), NEW k \in 1 .. Len(s), NEW u, u = s \o t
  PROVE  u \in Seq(S) /\ k \in 1 .. Len(u) /\ u[k] = s[k]
OBVIOUS

\* An index of t in s \o t.
LEMMA ConcatSecond ==
  ASSUME NEW S, NEW s \in Seq(S), NEW t \in Seq(S), NEW k \in 1 .. Len(t), NEW u, u = s \o t
  PROVE  u \in Seq(S) /\ Len(s) + k \in 1 .. Len(u) /\ u[Len(s) + k] = t[k]
OBVIOUS

\* A nonempty set of naturals has a least element.
LEMMA LeastNat ==
  ASSUME NEW T \in SUBSET Nat, T # {}
  PROVE  \E x \in T : \A y \in T : x <= y
<1>1. PICK x \in T : \A y \in T : ~(<<y, x>> \in OpToRel(<, Nat))
  BY WFMin, NatLessThanWellFounded
<1>2. \A y \in T : ~(y < x)
  BY <1>1 DEF OpToRel
<1> QED
  BY <1>2

\* A nonempty set of naturals with an upper bound has a greatest element.
LEMMA GreatestNat ==
  ASSUME NEW n \in Nat, NEW T \in SUBSET (0 .. n), T # {}
  PROVE  \E x \in T : \A y \in T : y <= x
<1> DEFINE R == {k \in Nat : n - k \in T}
<1>1. PICK t \in T : TRUE
  OBVIOUS
<1>2. n - t \in Nat /\ n - (n - t) = t
  BY <1>1
<1>3. R \in SUBSET Nat /\ R # {}
  BY <1>1, <1>2
<1>4. PICK k \in R : \A j \in R : k <= j
  BY <1>3, LeastNat
<1>5. n - k \in T /\ k \in Nat
  BY <1>4
<1> HIDE DEF R
<1>6. ASSUME NEW y \in T PROVE y <= n - k
  <2>1. n - y \in Nat /\ n - (n - y) = y
    OBVIOUS
  <2>2. n - y \in R
    BY <2>1 DEF R
  <2> QED
    <3>1. k <= n - y /\ y \in Int
      BY <1>4, <2>2
    <3> QED
      BY <1>5, <3>1
<1> QED
  BY <1>5, <1>6
-----------------------------------------------------------------------------
(* The instances count as FiniteSets does. *)

LEMMA AutCounts == \A S : Aut!Cardinality(S) = Cardinality(S) /\ (Aut!IsFiniteSet(S) <=> IsFiniteSet(S))
<1>1. \A S : Aut!IsFiniteSet(S) <=> IsFiniteSet(S)
  BY DEF Aut!IsFiniteSet, IsFiniteSet
<1>2. \A S : Aut!Cardinality(S) = Cardinality(S)
  BY <1>1 DEF Aut!Cardinality, Cardinality
<1> QED
  BY <1>1, <1>2

LEMMA TrCounts == \A S : Tr!Cardinality(S) = Cardinality(S) /\ (Tr!IsFiniteSet(S) <=> IsFiniteSet(S))
<1>1. \A S : Tr!IsFiniteSet(S) <=> IsFiniteSet(S)
  BY DEF Tr!IsFiniteSet, IsFiniteSet
<1>2. \A S : Tr!Cardinality(S) = Cardinality(S)
  BY <1>1 DEF Tr!Cardinality, Cardinality
<1> QED
  BY <1>1, <1>2

LEMMA StCounts == \A S : St!Cardinality(S) = Cardinality(S) /\ (St!IsFiniteSet(S) <=> IsFiniteSet(S))
<1>1. \A S : St!IsFiniteSet(S) <=> IsFiniteSet(S)
  BY DEF St!IsFiniteSet, IsFiniteSet
<1>2. \A S : St!Cardinality(S) = Cardinality(S)
  BY <1>1 DEF St!Cardinality, Cardinality
<1> QED
  BY <1>1, <1>2

LEMMA MigCounts == \A S : Mig!Cardinality(S) = Cardinality(S) /\ (Mig!IsFiniteSet(S) <=> IsFiniteSet(S))
<1>1. \A S : Mig!IsFiniteSet(S) <=> IsFiniteSet(S)
  BY DEF Mig!IsFiniteSet, IsFiniteSet
<1>2. \A S : Mig!Cardinality(S) = Cardinality(S)
  BY <1>1 DEF Mig!Cardinality, Cardinality
<1> QED
  BY <1>1, <1>2
-----------------------------------------------------------------------------
(***************************************************************************)
(* Migrator, the instance Mig: its variables are v1 tables, v2 records, v3 *)
(* ensured, v4 lock, v5 at, v6 commands, v7 faulty, v8 raced.              *)
(***************************************************************************)

\* A migrator that does nothing.
LEMMA MigIdle == Mig!Idle \in Mig!Positions /\ Mig!Idle.pc = "idle" /\ Mig!Idle.op = "up" /\ Mig!Idle.step = 0 /\ Mig!Idle.undo = {} /\ Mig!Idle.todo = {}
BY DEF Mig!Idle, Mig!Positions

\* The invariant of the migrators holds initially.
LEMMA MigStart == Mig!Init => Mig!MigInv
<1> SUFFICES ASSUME Mig!Init PROVE Mig!MigInv
  OBVIOUS
<1>1. IsFiniteSet({}) /\ v2 = {} /\ v1 = {} /\ v4 = "free" /\ v7 = {} /\ ~v8 /\ ~v3
  BY MigCounts, FS_EmptySet DEF Mig!Init
<1>2. v5 \in [Migrators -> Mig!Positions] /\ \A m \in Migrators : v5[m] = Mig!Idle
  BY MigIdle DEF Mig!Init
<1>3. Mig!MigType
  BY MigCounts, <1>1, <1>2 DEF Mig!MigType, Mig!Init
<1>4. \A m \in Migrators : ~Mig!Critical(m) /\ v5[m].pc # "drop"
  BY <1>2, MigIdle DEF Mig!Critical
<1>5. \A m \in Migrators : Mig!DropsAll(v5[m]) /\ Mig!Applies(v5[m]) /\ Mig!Reverts(v5[m])
  BY MigCounts, <1>2, MigIdle DEF Mig!DropsAll, Mig!Applies, Mig!Reverts
<1>6. Mig!Kept /\ Mig!OneMigrator /\ Mig!LeakNeedsFault /\ Mig!BatchesOrdered /\ Mig!SchemaInStep
  BY <1>1, <1>4, MigAssumption DEF Mig!Kept, Mig!OneMigrator, Mig!LeakNeedsFault, Mig!BatchesOrdered, Mig!SchemaInStep, Mig!Applied
<1> QED
  BY <1>3, <1>5, <1>6 DEF Mig!MigInv

\* A step of m that leaves tables and records alone and takes it to k.
LEMMA MigMoves ==
  ASSUME Mig!MigInv, NEW m \in Migrators, NEW k \in Mig!Positions, v5' = [v5 EXCEPT ![m] = k], UNCHANGED <<v1, v2>>,
         v3' \in BOOLEAN, v3 => v3', v4' \in Migrators \cup {"free"}, v7' \in SUBSET Migrators,
         v7 \subseteq v7', v8' \in BOOLEAN, v8 => v8',
         k.pc \in {"plan", "number", "apply", "revert", "release"} => v4' = m,
         \A o \in Migrators \ {m} : Mig!Critical(o) => v4' = o,
         \A o \in Migrators : v4' = o => IF o = m THEN k.pc \in {"plan", "number", "apply", "revert", "release"} \/ m \in v7'
                                                   ELSE v4 = o,
         ~v8' => /\ k.pc = "drop" => \A o \in Migrators \ {m} : ~Mig!Critical(o)
                 /\ k.pc \in {"plan", "number", "apply", "revert", "release"} => \A o \in Migrators \ {m} : v5[o].pc # "drop",
         v5[m].pc = "drop" => k.pc = "drop" \/ v8' \/ m \in v7' \/ v1 = Mig!Applied,
         ~v8' /\ k.pc = "drop" => v1 \subseteq k.todo /\ (v2 # {} => 0 \in k.todo),
         Mig!Applies(k), Mig!Reverts(k)
  PROVE  Mig!MigInv'
<1>1. v5' \in [Migrators -> Mig!Positions] /\ v5'[m] = k /\ \A o \in Migrators : o # m => v5'[o] = v5[o]
  BY MigCounts DEF Mig!MigInv, Mig!MigType
<1>2. Mig!MigType'
  BY MigCounts, <1>1 DEF Mig!MigInv, Mig!MigType
<1>3. \A o \in Migrators : o # m => (Mig!Critical(o)' <=> Mig!Critical(o))
  BY <1>1 DEF Mig!Critical
<1>4. Mig!Critical(m)' <=> k.pc \in {"plan", "number", "apply", "revert", "release"}
  BY <1>1 DEF Mig!Critical
<1>5. Mig!Kept'
  <2>1. ~v3' => v2' = {}
    BY DEF Mig!MigInv, Mig!Kept
  <2>2. ASSUME ~v8', NEW o \in Migrators, NEW p \in Migrators, v5'[o].pc = "drop" PROVE ~Mig!Critical(p)'
    BY <1>1, <1>3, <1>4, <2>2 DEF Mig!MigInv, Mig!Kept
  <2> QED
    BY <2>1, <2>2 DEF Mig!Kept
<1>6. Mig!OneMigrator'
  BY <1>3, <1>4 DEF Mig!OneMigrator
<1>7. Mig!LeakNeedsFault'
  BY <1>3, <1>4 DEF Mig!LeakNeedsFault, Mig!MigInv
<1>8. Mig!BatchesOrdered'
  BY DEF Mig!MigInv, Mig!BatchesOrdered
<1>9. Mig!SchemaInStep'
  <2>1. Mig!Applied' = Mig!Applied
    BY DEF Mig!Applied
  <2>2. CASE v8 \/ v1 = Mig!Applied
    BY <2>1, <2>2 DEF Mig!SchemaInStep
  <2>3. ASSUME NEW o \in Migrators, v5[o].pc = "drop" \/ o \in v7 PROVE Mig!SchemaInStep'
    BY <1>1, <2>1, <2>3 DEF Mig!SchemaInStep
  <2> QED
    BY <2>2, <2>3 DEF Mig!MigInv, Mig!SchemaInStep
<1>10. ASSUME NEW o \in Migrators PROVE Mig!DropsAll(v5[o])' /\ Mig!Applies(v5[o])' /\ Mig!Reverts(v5[o])'
  <2>1. CASE o = m
    BY MigCounts, <1>1, <2>1 DEF Mig!DropsAll, Mig!Applies, Mig!Reverts
  <2>2. CASE o # m
    BY MigCounts, <1>1, <2>2 DEF Mig!MigInv, Mig!DropsAll, Mig!Applies, Mig!Reverts
  <2> QED
    BY <2>1, <2>2
<1> QED
  BY <1>2, <1>5, <1>6, <1>7, <1>8, <1>9, <1>10 DEF Mig!MigInv

\* A step that only takes records and tables away keeps what the migrators rely on.
LEMMA MigLosesOne ==
  ASSUME Mig!MigInv, NEW k \in Mig!Positions, v2' \subseteq v2, v1' \subseteq v1, UNCHANGED v8,
         Mig!DropsAll(k), Mig!Applies(k), Mig!Reverts(k)
  PROVE  Mig!DropsAll(k)' /\ Mig!Applies(k)' /\ Mig!Reverts(k)'
<1>1. IsFiniteSet(v2) /\ IsFiniteSet(v2 \ k.undo)
  BY MigCounts, FS_Subset DEF Mig!MigInv, Mig!MigType
<1>2. PICK a \in Nat, b \in Nat, c \in Nat, d \in Nat :
        a = Cardinality(v2) /\ b = Cardinality(v2') /\ c = Cardinality(v2 \ k.undo) /\ d = Cardinality(v2' \ k.undo)
  BY MigCounts, <1>1, FS_Subset, FS_CardinalityType
<1>3. b <= a /\ d <= c
  <2>1. v2' \in SUBSET v2 /\ v2' \ k.undo \in SUBSET (v2 \ k.undo)
    OBVIOUS
  <2> QED
    BY MigCounts, <1>1, <1>2, <2>1, FS_Subset
<1>4. k.step \in Nat /\ k.since \in Nat
  BY DEF Mig!Positions
<1>5. Mig!Reverts(k)'
  BY MigCounts, <1>2, <1>3, <1>4 DEF Mig!Reverts
<1>6. Mig!DropsAll(k)'
  BY DEF Mig!DropsAll
<1>7. Mig!Applies(k)'
  BY DEF Mig!Applies
<1> QED
  BY <1>5, <1>6, <1>7

\* A step within a critical section or of a Fresh that only takes records and tables away.
LEMMA MigLoses ==
  ASSUME Mig!MigInv, NEW m \in Migrators, NEW k \in Mig!Positions, v5' = [v5 EXCEPT ![m] = k], k.pc = v5[m].pc,
         v2' \subseteq v2, v1' \subseteq v1, v3' \in BOOLEAN, ~v3' => v2' = {},
         UNCHANGED <<v4, v7, v8>>, Mig!SchemaInStep', Mig!DropsAll(k)', Mig!Applies(k)', Mig!Reverts(k)'
  PROVE  Mig!MigInv'
<1>1. v5' \in [Migrators -> Mig!Positions] /\ v5'[m] = k /\ \A o \in Migrators : o # m => v5'[o] = v5[o]
  BY MigCounts DEF Mig!MigInv, Mig!MigType
<1>2. IsFiniteSet(v2')
  BY MigCounts, FS_Subset DEF Mig!MigInv, Mig!MigType
<1>3. Mig!MigType'
  BY MigCounts, <1>1, <1>2 DEF Mig!MigInv, Mig!MigType
<1>4. \A o \in Migrators : v5'[o].pc = v5[o].pc /\ (Mig!Critical(o)' <=> Mig!Critical(o))
  BY <1>1 DEF Mig!Critical
<1>5. Mig!Kept'
  BY <1>4 DEF Mig!MigInv, Mig!Kept
<1>6. Mig!OneMigrator' /\ Mig!LeakNeedsFault' /\ Mig!BatchesOrdered'
  BY <1>4 DEF Mig!MigInv, Mig!OneMigrator, Mig!LeakNeedsFault, Mig!BatchesOrdered
<1>7. ASSUME NEW o \in Migrators PROVE Mig!DropsAll(v5[o])' /\ Mig!Applies(v5[o])' /\ Mig!Reverts(v5[o])'
  <2>1. CASE o = m
    BY MigCounts, <1>1, <2>1 DEF Mig!DropsAll, Mig!Applies, Mig!Reverts
  <2>2. CASE o # m
    <3>1. PICK j \in Mig!Positions : j = v5[o] /\ v5'[o] = j
      BY MigCounts, <1>1, <2>2 DEF Mig!MigInv, Mig!MigType
    <3>2. Mig!DropsAll(j)' /\ Mig!Applies(j)' /\ Mig!Reverts(j)'
      BY <3>1, MigLosesOne DEF Mig!MigInv
    <3> QED
      BY MigCounts, <3>1, <3>2 DEF Mig!DropsAll, Mig!Applies, Mig!Reverts
  <2> QED
    BY <2>1, <2>2
<1> QED
  BY <1>3, <1>5, <1>6, <1>7 DEF Mig!MigInv

\* dropAllTables, one table.
LEMMA MigDrops ==
  ASSUME Mig!MigInv, NEW m \in Migrators, v5[m].pc = "drop", NEW t \in v5[m].todo, v1' = v1 \ {t},
         v2' = (IF t = 0 THEN {} ELSE v2), v3' = (v3 /\ t # 0),
         v5' = [v5 EXCEPT ![m].todo = @ \ {t}], UNCHANGED <<v4, v6, v7, v8>>
  PROVE  Mig!MigInv'
<1>1. PICK j \in Mig!Positions : j = v5[m] /\ Mig!DropsAll(j) /\ Mig!Applies(j) /\ Mig!Reverts(j)
  BY MigCounts DEF Mig!MigInv, Mig!MigType
<1> DEFINE k == [j EXCEPT !.todo = j.todo \ {t}]
<1>2. v5' = [v5 EXCEPT ![m] = k]
  BY MigCounts, <1>1 DEF Mig!MigInv, Mig!MigType
<1>3. k \in Mig!Positions /\ k.pc = "drop" /\ k.op = "up" /\ k.todo = j.todo \ {t}
  BY <1>1 DEF Mig!Positions, Mig!Applies
<1> HIDE DEF k
<1>4. v5'[m] = k
  BY MigCounts, <1>2 DEF Mig!MigInv, Mig!MigType
<1>5. Mig!SchemaInStep'
  BY <1>3, <1>4 DEF Mig!SchemaInStep
<1>6. v2' \subseteq v2 /\ v1' \subseteq v1 /\ v3' \in BOOLEAN /\ (~v3' => v2' = {})
  BY DEF Mig!MigInv, Mig!Kept
<1>7. Mig!DropsAll(k)' /\ Mig!Applies(k)' /\ Mig!Reverts(k)'
  BY MigCounts, <1>1, <1>3, <1>6 DEF Mig!DropsAll, Mig!Applies, Mig!Reverts
<1> QED
  BY <1>1, <1>2, <1>3, <1>5, <1>6, <1>7, MigLoses

\* revertOne.
LEMMA MigReverts ==
  ASSUME Mig!MigInv, NEW m \in Migrators, v5[m].pc = "revert", NEW r \in v5[m].undo, v3, v1' = v1 \ {r.name},
         v2' = Mig!deleteRecord(r.name),
         v5' = [v5 EXCEPT ![m].undo = @ \ {r}], UNCHANGED <<v3, v4, v6, v7, v8>>
  PROVE  Mig!MigInv'
<1>1. PICK j \in Mig!Positions : j = v5[m] /\ Mig!DropsAll(j) /\ Mig!Applies(j) /\ Mig!Reverts(j)
  BY MigCounts DEF Mig!MigInv, Mig!MigType
<1> DEFINE k == [j EXCEPT !.undo = j.undo \ {r}]
<1>2. v5' = [v5 EXCEPT ![m] = k]
  BY MigCounts, <1>1 DEF Mig!MigInv, Mig!MigType
<1>3. k \in Mig!Positions /\ k.pc = "revert" /\ k.op = j.op /\ k.undo = j.undo \ {r} /\ k.step = j.step /\ k.since = j.since
  BY <1>1 DEF Mig!Positions
<1> HIDE DEF k
<1>4. v5'[m] = k /\ \A o \in Migrators : o # m => v5'[o] = v5[o]
  BY MigCounts, <1>2 DEF Mig!MigInv, Mig!MigType
<1>5. v2' = {s \in v2 : s.name # r.name} /\ v2' \subseteq v2 /\ v1' \subseteq v1
  BY DEF Mig!deleteRecord
<1>6. Mig!SchemaInStep'
  <2>1. v1 = Mig!Applied => v1' = Mig!Applied'
    BY <1>5 DEF Mig!Applied
  <2>2. ASSUME NEW o \in Migrators, v5[o].pc = "drop" \/ o \in v7 PROVE v5'[o].pc = "drop" \/ o \in v7'
    BY <1>3, <1>4, <2>2
  <2> QED
    BY <2>1, <2>2 DEF Mig!MigInv, Mig!SchemaInStep
<1>7. Mig!DropsAll(k)' /\ Mig!Applies(k)'
  BY <1>3 DEF Mig!DropsAll, Mig!Applies
<1>8. Mig!Reverts(k)'
  <2>1. v2' \ k.undo \in SUBSET (v2 \ j.undo)
    BY <1>3, <1>5
  <2>2. IsFiniteSet(v2 \ j.undo)
    BY MigCounts, FS_Subset DEF Mig!MigInv, Mig!MigType
  <2>3. PICK c \in Nat, d \in Nat : c = Cardinality(v2 \ j.undo) /\ d = Cardinality(v2' \ k.undo) /\ d <= c
    BY MigCounts, <2>1, <2>2, FS_Subset, FS_CardinalityType
  <2>4. j.since \in Nat
    BY DEF Mig!Positions
  <2> QED
    BY MigCounts, <1>1, <1>3, <2>3, <2>4 DEF Mig!Reverts
<1> QED
  BY MigCounts, <1>1, <1>2, <1>3, <1>5, <1>6, <1>7, <1>8, MigLoses DEF Mig!MigInv, Mig!Kept, Mig!MigType

\* applyOne.
LEMMA MigApplies ==
  ASSUME Mig!MigInv, NEW m \in Migrators, v5[m].pc = "apply", NEW n \in v5[m].todo, \A o \in v5[m].todo : n <= o, v3,
         n \notin v1, n \notin Mig!Applied, v1' = v1 \cup {n}, v2' = Mig!insertRecord(m, n), v5' = Mig!Applying(m, n),
         UNCHANGED <<v3, v4, v6, v7, v8>>
  PROVE  Mig!MigInv'
<1>1. PICK j \in Mig!Positions : j = v5[m] /\ Mig!DropsAll(j) /\ Mig!Applies(j) /\ Mig!Reverts(j)
  BY MigCounts DEF Mig!MigInv, Mig!MigType
<1> DEFINE k == [j EXCEPT !.todo = j.todo \ {n}]
           x == Mig!Record(n, j.batch, Mig!Checksum(m, n))
<1>2. k \in Mig!Positions /\ k.pc = "apply" /\ k.op = "up" /\ k.todo = j.todo \ {n} /\ k.batch = j.batch
  BY <1>1 DEF Mig!Positions, Mig!Applies
<1>3. n \in Mig!MigrationNames /\ n \in Nat
  BY <1>1, MigAssumption DEF Mig!Applies
<1>4. x \in Mig!Records /\ x.name = n /\ x.batch = j.batch /\ v2' = v2 \cup {x}
  BY <1>1, <1>3, MigAssumption DEF Mig!Record, Mig!Records, Mig!Checksum, Mig!insertRecord, Mig!Positions
<1> HIDE DEF k, x
<1>5. Mig!Critical(m) /\ v4 = m /\ \A o \in Migrators : o # m => ~Mig!Critical(o)
  BY DEF Mig!MigInv, Mig!Critical, Mig!OneMigrator
<1>6. ASSUME NEW o \in Migrators, o # m
      PROVE  /\ v5'[o] \in Mig!Positions /\ v5'[o].pc = v5[o].pc /\ v5'[o].op = v5[o].op /\ v5'[o].step = v5[o].step
             /\ v5'[o].since = v5[o].since + 1
  <2>1. PICK i \in Mig!Positions : i = v5[o]
    BY MigCounts DEF Mig!MigInv, Mig!MigType
  <2>2. PICK c \in Nat : c = i.since + 1
    BY DEF Mig!Positions
  <2>3. v5'[o] = [i EXCEPT !.since = c]
    BY <1>6, <2>1, <2>2 DEF Mig!Applying
  <2> QED
    BY <2>1, <2>2, <2>3 DEF Mig!Positions
<1>7. v5'[m] = k /\ v5' \in [Migrators -> Mig!Positions]
  <2>1. v5'[m] = k
    BY <1>1 DEF Mig!Applying, k
  <2>2. v5' = [o \in Migrators |-> v5'[o]]
    BY DEF Mig!Applying
  <2> QED
    BY <1>2, <1>6, <2>1, <2>2
<1>8. x \notin v2
  BY <1>4 DEF Mig!Applied
<1>9. IsFiniteSet(v2') /\ Cardinality(v2') = Cardinality(v2) + 1 /\ Cardinality(v2) \in Nat
  BY MigCounts, <1>4, <1>8, FS_AddElement, FS_CardinalityType DEF Mig!MigInv, Mig!MigType
<1>10. Mig!MigType'
  BY MigCounts, <1>3, <1>4, <1>7, <1>9 DEF Mig!MigInv, Mig!MigType
<1>11. \A o \in Migrators : v5'[o].pc = v5[o].pc /\ (Mig!Critical(o)' <=> Mig!Critical(o))
  BY <1>1, <1>2, <1>6, <1>7 DEF Mig!Critical
<1>12. Mig!Kept' /\ Mig!OneMigrator' /\ Mig!LeakNeedsFault'
  BY <1>11 DEF Mig!MigInv, Mig!Kept, Mig!OneMigrator, Mig!LeakNeedsFault
<1>13. \A r \in v2 : r.name < n /\ r.batch <= j.batch /\ r.name \in Nat /\ r.batch \in Nat
  BY MigCounts, <1>1, MigAssumption DEF Mig!Applies, Mig!MigInv, Mig!MigType, Mig!Records
<1>14. Mig!BatchesOrdered'
  <2>1. j.batch \in Nat
    BY DEF Mig!Positions
  <2>2. ASSUME NEW r \in v2', NEW s \in v2', r.name < s.name PROVE r.batch <= s.batch
    BY <1>3, <1>4, <1>13, <2>1, <2>2 DEF Mig!MigInv, Mig!BatchesOrdered
  <2> QED
    BY <2>2 DEF Mig!BatchesOrdered
<1>15. Mig!SchemaInStep'
  <2>1. v1 = Mig!Applied => v1' = Mig!Applied'
    BY <1>4 DEF Mig!Applied
  <2> QED
    BY <1>11, <2>1 DEF Mig!MigInv, Mig!SchemaInStep
<1>16. ASSUME NEW o \in Migrators PROVE Mig!DropsAll(v5[o])' /\ Mig!Applies(v5[o])' /\ Mig!Reverts(v5[o])'
  <2>1. CASE o = m
    <3>1. \A p \in k.todo : p \in Mig!MigrationNames /\ p \in Nat /\ n < p /\ \A r \in v2 : r.name < p
      <4> SUFFICES ASSUME NEW p \in k.todo PROVE p \in Mig!MigrationNames /\ p \in Nat /\ n < p /\ \A r \in v2 : r.name < p
        OBVIOUS
      <4>1. p \in j.todo /\ p # n /\ p \in Mig!MigrationNames /\ \A r \in v2 : r.name < p
        BY <1>1, <1>2 DEF Mig!Applies
      <4>2. n <= p /\ p \in Nat
        BY <1>1, <4>1, MigAssumption
      <4> QED
        BY <1>3, <4>1, <4>2
    <3>2. \A p \in k.todo, r \in v2' : r.name < p
      BY <1>4, <3>1
    <3>3. \A r \in v2' : r.batch <= j.batch
      <4>1. j.batch <= j.batch
        BY DEF Mig!Positions
      <4> QED
        BY <1>4, <1>13, <4>1
    <3> QED
      BY MigCounts, <1>2, <1>7, <2>1, <3>1, <3>2, <3>3 DEF Mig!DropsAll, Mig!Applies, Mig!Reverts
  <2>2. CASE o # m
    <3>1. ~Mig!Critical(o) /\ (v8 \/ v5[o].pc # "drop")
      BY <1>5, <2>2 DEF Mig!MigInv, Mig!Kept
    <3>2. Mig!DropsAll(v5[o])'
      BY <1>6, <2>2, <3>1 DEF Mig!DropsAll
    <3>3. Mig!Applies(v5[o])'
      BY <1>6, <2>2, <3>1 DEF Mig!Applies, Mig!Critical, Mig!MigInv
    <3>4. v5[o].step \in Nat /\ v5[o].since \in Nat
      BY MigCounts DEF Mig!MigInv, Mig!MigType, Mig!Positions
    <3>5. Mig!Reverts(v5[o])'
      <4>1. PICK a \in Nat, b \in Nat, c \in Nat : a = Cardinality(v2) /\ b = v5[o].step /\ c = v5[o].since
        BY <1>9, <3>4
      <4>2. Cardinality(v2') = a + 1 /\ v5'[o].step = b /\ v5'[o].since = c + 1
        BY <1>6, <1>9, <2>2, <4>1
      <4>3. v5'[o].pc \notin {"revert", "release"} /\ v5'[o].pc = v5[o].pc /\ v5'[o].op = v5[o].op
        BY <1>6, <2>2, <3>1 DEF Mig!Critical
      <4>4. b >= 2 /\ v5[o].op = "rollback" /\ v5[o].pc \in {"ensure", "acquire", "plan"} => a <= b + c
        BY MigCounts, <4>1 DEF Mig!MigInv, Mig!Reverts
      <4>5. a <= b + c => a + 1 <= b + (c + 1)
        OBVIOUS
      <4> QED
        BY MigCounts, <4>2, <4>3, <4>4, <4>5 DEF Mig!Reverts
    <3> QED
      BY <3>2, <3>3, <3>5
  <2> QED
    BY <2>1, <2>2
<1> QED
  BY <1>10, <1>12, <1>14, <1>15, <1>16 DEF Mig!MigInv

\* A step of m outside its critical section.
LEMMA MigOutside ==
  ASSUME Mig!MigInv, NEW m \in Migrators, NEW k \in Mig!Positions, v5' = [v5 EXCEPT ![m] = k],
         UNCHANGED <<v1, v2, v4, v7, v8>>, v3' \in BOOLEAN, v3 => v3',
         ~Mig!Critical(m), k.pc \in {"idle", "ensure", "count", "acquire"},
         v5[m].pc = "drop" => v8 \/ v1 = Mig!Applied, Mig!Applies(k), Mig!Reverts(k)
  PROVE  Mig!MigInv'
<1>1. \A o \in Migrators \ {m} : Mig!Critical(o) => v4' = o
  BY DEF Mig!MigInv, Mig!OneMigrator
<1>2. v4' = m => m \in v7'
  BY DEF Mig!MigInv, Mig!LeakNeedsFault
<1>3. v4' \in Migrators \cup {"free"} /\ v7' \in SUBSET Migrators /\ v8' \in BOOLEAN
  BY MigCounts DEF Mig!MigInv, Mig!MigType
<1> QED
  BY <1>1, <1>2, <1>3, MigMoves

\* A step of m inside its critical section that leaves tables and records alone.
LEMMA MigInside ==
  ASSUME Mig!MigInv, NEW m \in Migrators, NEW k \in Mig!Positions, v5' = [v5 EXCEPT ![m] = k],
         UNCHANGED <<v1, v2, v4, v7, v8, v3>>,
         Mig!Critical(m), k.pc \in {"plan", "number", "apply", "revert", "release"}, Mig!Applies(k), Mig!Reverts(k)
  PROVE  Mig!MigInv'
<1>1. v4' = m /\ \A o \in Migrators \ {m} : Mig!Critical(o) => v4' = o
  BY DEF Mig!MigInv, Mig!OneMigrator
<1>2. v5[m].pc # "drop" /\ (~v8' => \A o \in Migrators \ {m} : v5[o].pc # "drop")
  BY DEF Mig!MigInv, Mig!Kept, Mig!Critical
<1>3. v4' \in Migrators \cup {"free"} /\ v7' \in SUBSET Migrators /\ v8' \in BOOLEAN /\ v3' \in BOOLEAN
  BY MigCounts DEF Mig!MigInv, Mig!MigType
<1> QED
  BY <1>1, <1>2, <1>3, MigMoves

\* applyOne or revertOne fails, or there is nothing left to do.
LEMMA MigStops ==
  ASSUME Mig!MigInv, NEW m \in Migrators, Mig!Critical(m), v5[m].pc # "plan" \/ v5[m].op = "up", Mig!Goto(m, "release"),
         UNCHANGED <<v1, v2, v4, v7, v8, v3>>
  PROVE  Mig!MigInv'
<1>1. PICK j \in Mig!Positions : j = v5[m] /\ Mig!Applies(j) /\ Mig!Reverts(j)
  BY MigCounts DEF Mig!MigInv, Mig!MigType
<1> DEFINE k == [j EXCEPT !.pc = "release"]
<1>2. k \in Mig!Positions /\ k.pc = "release" /\ k.op = j.op /\ k.step = j.step /\ k.undo = j.undo /\ k.since = j.since
  BY DEF Mig!Positions
<1>3. v5' = [v5 EXCEPT ![m] = k]
  BY MigCounts, <1>1 DEF Mig!MigInv, Mig!MigType, Mig!Goto
<1> HIDE DEF k
<1>4. Mig!Applies(k) /\ Mig!Reverts(k)
  BY MigCounts, <1>1, <1>2 DEF Mig!Applies, Mig!Reverts, Mig!Critical
<1> QED
  BY <1>2, <1>3, <1>4, MigInside

\* runUp reads the records and plans.
LEMMA MigPlans ==
  ASSUME Mig!MigInv, NEW m \in Migrators, Mig!PlanUp(m)
  PROVE  Mig!MigInv'
<1>1. Mig!Critical(m) /\ v5[m].op = "up" /\ UNCHANGED <<v1, v2, v3, v4, v7, v8>>
  BY DEF Mig!PlanUp, Mig!Critical
<1>2. PICK todo \in Mig!firsts(Mig!pending(m), Mig!limited(Mig!pending(m), v5[m].step)) :
        \/ Mig!Goto(m, "release")
        \/ (\A n \in todo : ~Mig!isOutOfOrder(n)) /\ v5' = [v5 EXCEPT ![m] = [@ EXCEPT !.pc = "number", !.todo = todo]]
  BY DEF Mig!PlanUp
<1>3. CASE Mig!Goto(m, "release")
  BY <1>1, <1>3, MigStops
<1>4. CASE (\A n \in todo : ~Mig!isOutOfOrder(n)) /\ v5' = [v5 EXCEPT ![m] = [@ EXCEPT !.pc = "number", !.todo = todo]]
  <2>1. PICK j \in Mig!Positions : j = v5[m] /\ Mig!Applies(j) /\ Mig!Reverts(j)
    BY MigCounts DEF Mig!MigInv, Mig!MigType
  <2>2. todo \subseteq Mig!MigrationNames /\ \A n \in todo : n \notin Mig!Applied
    BY MigCounts DEF Mig!firsts, Mig!pending, Mig!Registered
  <2> DEFINE k == [j EXCEPT !.pc = "number", !.todo = todo]
  <2>3. k \in Mig!Positions /\ k.pc = "number" /\ k.op = "up" /\ k.todo = todo
    BY <1>1, <2>1, <2>2 DEF Mig!Positions
  <2>4. v5' = [v5 EXCEPT ![m] = k]
    BY MigCounts, <1>4, <2>1 DEF Mig!MigInv, Mig!MigType
  <2> HIDE DEF k
  <2>5. ASSUME NEW n \in todo, NEW r \in v2 PROVE r.name < n
    <3>1. r.name \in Mig!Applied /\ ~(n < r.name) /\ r.name # n
      BY <1>4, <2>2 DEF Mig!Applied, Mig!isOutOfOrder
    <3>2. n \in Nat /\ r.name \in Nat
      BY MigCounts, <2>2, MigAssumption DEF Mig!MigInv, Mig!MigType, Mig!Records
    <3> QED
      BY <3>1, <3>2
  <2>6. Mig!Applies(k) /\ Mig!Reverts(k)
    BY MigCounts, <2>2, <2>3, <2>5 DEF Mig!Applies, Mig!Reverts
  <2> QED
    BY <1>1, <2>3, <2>4, <2>6, MigInside
<1> QED
  BY <1>2, <1>3, <1>4

\* The batch number of a run of Up.
LEMMA MigNumbers ==
  ASSUME Mig!MigInv, NEW m \in Migrators, Mig!Number(m)
  PROVE  Mig!MigInv'
<1>1. Mig!Critical(m) /\ v5[m].pc = "number" /\ UNCHANGED <<v1, v2, v3, v4, v7, v8>>
  BY DEF Mig!Number, Mig!Critical
<1>2. CASE Mig!Goto(m, "release")
  BY <1>1, <1>2, MigStops
<1>3. ASSUME NEW b \in Mig!batches, Mig!LastBatch(b), v5' = [v5 EXCEPT ![m] = [@ EXCEPT !.pc = "apply", !.batch = b + 1]]
      PROVE  Mig!MigInv'
  <2>1. PICK j \in Mig!Positions : j = v5[m] /\ Mig!Applies(j) /\ Mig!Reverts(j)
    BY MigCounts DEF Mig!MigInv, Mig!MigType
  <2>2. b \in Nat /\ \A r \in v2 : r.batch \in Nat /\ r.batch <= b
    BY MigCounts, <1>3 DEF Mig!batches, Mig!LastBatch, Mig!MigInv, Mig!MigType, Mig!Records
  <2>3. PICK c \in Nat : c = b + 1
    BY <2>2
  <2> DEFINE k == [j EXCEPT !.pc = "apply", !.batch = c]
  <2>4. k \in Mig!Positions /\ k.pc = "apply" /\ k.op = "up" /\ k.todo = j.todo /\ k.batch = c
    BY <1>1, <2>1 DEF Mig!Positions, Mig!Applies
  <2>5. v5' = [v5 EXCEPT ![m] = k]
    BY MigCounts, <1>3, <2>1, <2>3 DEF Mig!MigInv, Mig!MigType
  <2> HIDE DEF k
  <2>6. \A r \in v2 : r.batch <= c
    BY <2>2, <2>3
  <2>7. Mig!Applies(k) /\ Mig!Reverts(k)
    BY MigCounts, <1>1, <2>1, <2>4, <2>6 DEF Mig!Applies, Mig!Reverts
  <2> QED
    BY <1>1, <2>4, <2>5, <2>7, MigInside
<1> QED
  BY <1>2, <1>3 DEF Mig!Number

\* Taking step of the records away leaves the rest.
LEMMA MigTargets ==
  ASSUME Mig!MigType, NEW step \in Nat, step >= 2, NEW since \in Nat, Cardinality(v2) <= step + since,
         NEW undo \in Mig!targets(step)
  PROVE  Cardinality(v2 \ undo) <= since
<1>1. undo \in SUBSET v2 /\ IsFiniteSet(v2) /\ Cardinality(undo) = Mig!howMany(step)
  BY MigCounts DEF Mig!targets, Mig!MigType
<1>2. IsFiniteSet(undo) /\ Cardinality(v2 \cap undo) = Cardinality(undo)
  <2>1. v2 \cap undo = undo
    BY <1>1
  <2> QED
    BY MigCounts, <1>1, <2>1, FS_Subset
<1>3. PICK a \in Nat, b \in Nat, c \in Nat :
        a = Cardinality(v2) /\ b = Cardinality(undo) /\ c = Cardinality(v2 \ undo) /\ c = a - b
  <2>1. Cardinality(v2 \ undo) = Cardinality(v2) - Cardinality(v2 \cap undo) /\ IsFiniteSet(v2 \ undo)
    BY MigCounts, <1>1, FS_Difference
  <2>2. Cardinality(v2) \in Nat /\ Cardinality(undo) \in Nat /\ Cardinality(v2 \ undo) \in Nat
    BY MigCounts, <1>1, <1>2, <2>1, FS_CardinalityType
  <2> QED
    BY <1>2, <2>1, <2>2
<1>4. b = (IF step < a THEN step ELSE a)
  BY MigCounts, <1>1, <1>3 DEF Mig!howMany
<1> QED
  BY <1>3, <1>4

\* Rollback reads the records and picks its targets.
LEMMA MigPicks ==
  ASSUME Mig!MigInv, NEW m \in Migrators, Mig!PlanRollback(m)
  PROVE  Mig!MigInv'
<1>1. Mig!Critical(m) /\ v5[m].pc = "plan" /\ v5[m].op = "rollback" /\ UNCHANGED <<v1, v2, v3, v4, v7, v8>>
  BY DEF Mig!PlanRollback, Mig!Critical
<1>2. PICK undo \in Mig!targets(v5[m].step), pc \in {"revert", "release"} :
        v5' = [v5 EXCEPT ![m].pc = pc, ![m].then = @ /\ v3, ![m].undo = undo]
  BY DEF Mig!PlanRollback
<1>3. PICK j \in Mig!Positions : j = v5[m] /\ Mig!Applies(j) /\ Mig!Reverts(j)
  BY MigCounts DEF Mig!MigInv, Mig!MigType
<1>4. PICK then \in BOOLEAN : then = (j.then /\ v3)
  OBVIOUS
<1>5. undo \in SUBSET Mig!Records
  BY MigCounts DEF Mig!targets, Mig!MigInv, Mig!MigType
<1> DEFINE k == [j EXCEPT !.pc = pc, !.then = then, !.undo = undo]
<1>6. k \in Mig!Positions /\ k.pc = pc /\ k.op = "rollback" /\ k.undo = undo /\ k.step = j.step /\ k.since = j.since
  BY <1>1, <1>3, <1>5 DEF Mig!Positions
<1>7. v5' = [v5 EXCEPT ![m] = k]
  BY MigCounts, <1>2, <1>3, <1>4 DEF Mig!MigInv, Mig!MigType
<1> HIDE DEF k
<1>8. j.step \in Nat /\ j.since \in Nat
  BY DEF Mig!Positions
<1>9. j.step >= 2 => Cardinality(v2 \ undo) <= j.since
  <2>1. j.step >= 2 => Cardinality(v2) <= j.step + j.since
    BY MigCounts, <1>1, <1>3 DEF Mig!Reverts
  <2> QED
    BY <1>2, <1>3, <1>8, <2>1, MigTargets DEF Mig!MigInv
<1>10. Mig!Applies(k) /\ Mig!Reverts(k)
  BY MigCounts, <1>2, <1>6, <1>9 DEF Mig!Applies, Mig!Reverts
<1> QED
  BY <1>1, <1>2, <1>6, <1>7, <1>10, MigInside

\* The steps before the lock is held.
LEMMA MigBegins ==
  ASSUME Mig!MigInv, NEW m \in Migrators, Mig!Start(m) \/ Mig!Fresh(m) \/ Mig!Ensure(m) \/ Mig!Count(m) \/ Mig!AcquireTimeout(m)
  PROVE  Mig!MigInv'
<1>1. PICK j \in Mig!Positions : j = v5[m] /\ Mig!Applies(j) /\ Mig!Reverts(j) /\ Mig!DropsAll(j)
  BY MigCounts DEF Mig!MigInv, Mig!MigType
<1>2. CASE Mig!Start(m)
  <2>1. PICK c \in {Mig!Idle, [Mig!Idle EXCEPT !.step = 1], [Mig!Idle EXCEPT !.op = "rollback"],
                 [Mig!Idle EXCEPT !.op = "rollback", !.step = 1], [Mig!Idle EXCEPT !.op = "reset"],
                 [Mig!Idle EXCEPT !.op = "reset", !.then = TRUE]} : v5' = [v5 EXCEPT ![m] = [c EXCEPT !.pc = "ensure"]]
    BY <1>2 DEF Mig!Start
  <2>2. c \in Mig!Positions /\ c.step \in {0, 1}
    <3>1. Mig!Idle \in Mig!Positions /\ Mig!Idle.step \in {0, 1}
      BY DEF Mig!Positions, Mig!Idle
    <3>2. [Mig!Idle EXCEPT !.step = 1] \in Mig!Positions /\ [Mig!Idle EXCEPT !.step = 1].step \in {0, 1}
      BY DEF Mig!Positions, Mig!Idle
    <3>3. [Mig!Idle EXCEPT !.op = "rollback"] \in Mig!Positions /\ [Mig!Idle EXCEPT !.op = "rollback"].step \in {0, 1}
      BY DEF Mig!Positions, Mig!Idle
    <3>4. [Mig!Idle EXCEPT !.op = "rollback", !.step = 1] \in Mig!Positions /\ [Mig!Idle EXCEPT !.op = "rollback", !.step = 1].step \in {0, 1}
      BY DEF Mig!Positions, Mig!Idle
    <3>5. [Mig!Idle EXCEPT !.op = "reset"] \in Mig!Positions /\ [Mig!Idle EXCEPT !.op = "reset"].step \in {0, 1}
      BY DEF Mig!Positions, Mig!Idle
    <3>6. [Mig!Idle EXCEPT !.op = "reset", !.then = TRUE] \in Mig!Positions /\ [Mig!Idle EXCEPT !.op = "reset", !.then = TRUE].step \in {0, 1}
      BY DEF Mig!Positions, Mig!Idle
    <3> QED
      BY <2>1, <3>1, <3>2, <3>3, <3>4, <3>5, <3>6
  <2> DEFINE k == [c EXCEPT !.pc = "ensure"]
  <2>3. k \in Mig!Positions /\ k.pc = "ensure" /\ k.step \in {0, 1}
    BY <2>2 DEF Mig!Positions
  <2> HIDE DEF k
  <2>4. Mig!Applies(k) /\ Mig!Reverts(k)
    BY MigCounts, <2>3 DEF Mig!Applies, Mig!Reverts
  <2>5. ~Mig!Critical(m) /\ v5[m].pc # "drop" /\ UNCHANGED <<v1, v2, v3, v4, v7, v8>>
    BY <1>2 DEF Mig!Start, Mig!Critical
  <2> QED
    BY MigCounts, <2>1, <2>3, <2>4, <2>5, MigOutside DEF k, Mig!MigInv, Mig!MigType
<1>3. CASE Mig!Fresh(m)
  <2>1. Mig!listTables \subseteq Mig!MigrationNames \cup {0} /\ (v2 # {} => 0 \in Mig!listTables) /\ v1 \subseteq Mig!listTables
    BY MigCounts DEF Mig!listTables, Mig!MigInv, Mig!MigType, Mig!Kept
  <2>2. PICK l : l = Mig!listTables
    OBVIOUS
  <2> DEFINE k == [Mig!Idle EXCEPT !.pc = "drop", !.todo = l]
  <2>3. k \in Mig!Positions /\ k.pc = "drop" /\ k.op = "up" /\ k.todo = l
    BY <2>1, <2>2, MigIdle DEF Mig!Positions
  <2>4. v5' = [v5 EXCEPT ![m] = k]
    BY <1>3, <2>2 DEF Mig!Fresh
  <2> HIDE DEF k
  <2>5. Mig!Applies(k) /\ Mig!Reverts(k)
    BY MigCounts, <2>3 DEF Mig!Applies, Mig!Reverts
  <2>6. v5[m].pc = "idle" /\ v8' = (v8 \/ \E o \in Migrators \ {m} : Mig!Critical(o))
        /\ UNCHANGED <<v1, v2, v3, v4, v7>>
    BY <1>3 DEF Mig!Fresh
  <2>7. (v4' = m => m \in v7') /\ \A o \in Migrators \ {m} : Mig!Critical(o) => v4' = o
    BY <2>6 DEF Mig!MigInv, Mig!LeakNeedsFault, Mig!OneMigrator, Mig!Critical
  <2>8. v4' \in Migrators \cup {"free"} /\ v7' \in SUBSET Migrators /\ v8' \in BOOLEAN /\ v3' \in BOOLEAN
    BY MigCounts, <2>6 DEF Mig!MigInv, Mig!MigType
  <2>9. (v8 => v8') /\ (~v8' => \A o \in Migrators \ {m} : ~Mig!Critical(o))
    BY <2>6
  <2> QED
    BY <2>1, <2>2, <2>3, <2>4, <2>5, <2>6, <2>7, <2>8, <2>9, MigMoves
<1>4. CASE Mig!Ensure(m)
  <2>1. PICK pc \in {"count", "acquire"} : v5' = [v5 EXCEPT ![m].pc = pc] /\ (pc = "count" => v5[m].op = "reset")
    BY <1>4 DEF Mig!Ensure, Mig!Goto
  <2> DEFINE k == [j EXCEPT !.pc = pc]
  <2>2. k \in Mig!Positions /\ k.pc = pc /\ k.op = j.op /\ k.step = j.step /\ k.since = j.since
    BY DEF Mig!Positions
  <2>3. v5' = [v5 EXCEPT ![m] = k]
    BY MigCounts, <1>1, <2>1 DEF Mig!MigInv, Mig!MigType
  <2> HIDE DEF k
  <2>4. v5[m].pc = "ensure" /\ v3' = TRUE /\ UNCHANGED <<v1, v2, v4, v7, v8>>
    BY <1>4 DEF Mig!Ensure
  <2>5. Mig!Applies(k) /\ Mig!Reverts(k)
    BY MigCounts, <1>1, <2>1, <2>2, <2>4 DEF Mig!Applies, Mig!Reverts
  <2> QED
    BY <2>1, <2>2, <2>3, <2>4, <2>5, MigOutside DEF Mig!Critical
<1>5. CASE Mig!Count(m)
  <2>1. v5[m].pc = "count" /\ UNCHANGED <<v1, v2, v3, v4, v7, v8>> /\ v3 \in BOOLEAN
    BY MigCounts, <1>5 DEF Mig!Count, Mig!MigInv, Mig!MigType
  <2>2. PICK a \in Nat : a = Cardinality(v2)
    BY MigCounts, FS_CardinalityType DEF Mig!MigInv, Mig!MigType
  <2>3. CASE v3
    <3> DEFINE k == [j EXCEPT !.pc = "ensure", !.op = "rollback", !.step = a, !.since = 0]
    <3>1. k \in Mig!Positions /\ k.pc = "ensure" /\ k.step = a /\ k.since = 0
      BY DEF Mig!Positions
    <3>2. v5' = [v5 EXCEPT ![m] = k]
      BY MigCounts, <1>1, <1>5, <2>2, <2>3 DEF Mig!Count, Mig!MigInv, Mig!MigType
    <3> HIDE DEF k
    <3>3. Mig!Applies(k) /\ Mig!Reverts(k)
      BY MigCounts, <2>2, <3>1 DEF Mig!Applies, Mig!Reverts
    <3> QED
      BY <2>1, <3>1, <3>2, <3>3, MigOutside DEF Mig!Critical
  <2>4. CASE ~v3
    <3>1. v5' = [v5 EXCEPT ![m] = Mig!Idle]
      BY MigCounts, <1>5, <2>4 DEF Mig!Count
    <3>2. Mig!Applies(Mig!Idle) /\ Mig!Reverts(Mig!Idle)
      BY MigCounts, MigIdle DEF Mig!Applies, Mig!Reverts
    <3> QED
      BY <2>1, <3>1, <3>2, MigIdle, MigOutside DEF Mig!Critical
  <2> QED
    BY <2>3, <2>4
<1>6. CASE Mig!AcquireTimeout(m)
  <2>1. v5[m].pc = "acquire" /\ v5' = [v5 EXCEPT ![m] = Mig!Idle] /\ UNCHANGED <<v1, v2, v3, v4, v7, v8>>
    BY <1>6 DEF Mig!AcquireTimeout
  <2>2. Mig!Applies(Mig!Idle) /\ Mig!Reverts(Mig!Idle) /\ v3 \in BOOLEAN
    BY MigCounts, MigIdle DEF Mig!Applies, Mig!Reverts, Mig!MigInv, Mig!MigType
  <2> QED
    BY <2>1, <2>2, MigIdle, MigOutside DEF Mig!Critical
<1> QED
  BY <1>2, <1>3, <1>4, <1>5, <1>6

\* Taking the lock, giving it back, and the faults.
LEMMA MigLocks ==
  ASSUME Mig!MigInv, NEW m \in Migrators, Mig!Acquire(m) \/ Mig!Release(m) \/ Mig!Crash(m) \/ Mig!Cancel(m)
  PROVE  Mig!MigInv'
<1>1. PICK j \in Mig!Positions : j = v5[m] /\ Mig!Applies(j) /\ Mig!Reverts(j)
  BY MigCounts DEF Mig!MigInv, Mig!MigType
<1>2. /\ v3 \in BOOLEAN /\ v8 \in BOOLEAN /\ v4 \in Migrators \cup {"free"} /\ v7 \in SUBSET Migrators
      /\ \A o \in Migrators : (Mig!Critical(o) => v4 = o) /\ (v4 = o => Mig!Critical(o) \/ o \in v7)
  BY MigCounts DEF Mig!MigInv, Mig!MigType, Mig!OneMigrator, Mig!LeakNeedsFault
<1>3. CASE Mig!Acquire(m)
  <2> DEFINE k == [j EXCEPT !.pc = "plan"]
  <2>1. k \in Mig!Positions /\ k.pc = "plan" /\ k.op = j.op /\ k.step = j.step /\ k.since = j.since
    BY DEF Mig!Positions
  <2>2. v5' = [v5 EXCEPT ![m] = k]
    BY MigCounts, <1>1, <1>3 DEF Mig!Acquire, Mig!Goto, Mig!MigInv, Mig!MigType
  <2> HIDE DEF k
  <2>3. /\ v5[m].pc = "acquire" /\ v4 = "free" /\ v4' = m /\ UNCHANGED <<v1, v2, v3, v7>>
        /\ v8' = (v8 \/ \E o \in Migrators \ {m} : v5[o].pc = "drop")
    BY <1>3 DEF Mig!Acquire, Mig!rowFree
  <2>4. Mig!Applies(k) /\ Mig!Reverts(k)
    BY MigCounts, <1>1, <2>1, <2>3 DEF Mig!Applies, Mig!Reverts
  <2>5. \A o \in Migrators : ~Mig!Critical(o)
    BY <1>2, <2>3, MigAssumption
  <2>6. v8' \in BOOLEAN /\ (v8 => v8') /\ (~v8' => \A o \in Migrators \ {m} : v5[o].pc # "drop")
    BY <2>3
  <2> QED
    BY <1>2, <2>1, <2>2, <2>3, <2>4, <2>5, <2>6, MigMoves
<1>4. CASE Mig!Release(m)
  <2>1. PICK k \in {Mig!Idle, [Mig!Idle EXCEPT !.pc = "ensure"]} : v5' = [v5 EXCEPT ![m] = k]
    BY <1>4 DEF Mig!Release
  <2>2. k \in Mig!Positions /\ k.pc \in {"idle", "ensure"} /\ k.step = 0
    BY MigIdle DEF Mig!Positions
  <2>3. Mig!Applies(k) /\ Mig!Reverts(k)
    BY MigCounts, <2>2 DEF Mig!Applies, Mig!Reverts
  <2>4. v5[m].pc = "release" /\ Mig!Critical(m) /\ v4 = m /\ v4' = "free" /\ UNCHANGED <<v1, v2, v3, v7, v8>>
    BY <1>2, <1>4 DEF Mig!Release, Mig!freed, Mig!Critical
  <2>5. \A o \in Migrators : v4' # o /\ (o # m => ~Mig!Critical(o))
    BY <1>2, <2>4, MigAssumption
  <2> QED
    BY <1>2, <2>1, <2>2, <2>3, <2>4, <2>5, MigMoves
<1>5. ASSUME NEW k \in Mig!Positions, v5' = [v5 EXCEPT ![m] = k], k.pc \in {"idle", "dead"}, Mig!Applies(k), Mig!Reverts(k),
             v7' = v7 \cup {m}, UNCHANGED <<v1, v2, v3, v4, v8>>
      PROVE  Mig!MigInv'
  BY <1>2, <1>5, MigMoves
<1>6. CASE Mig!Crash(m)
  <2> DEFINE k == [j EXCEPT !.pc = "dead"]
  <2>1. k \in Mig!Positions /\ k.pc = "dead"
    BY DEF Mig!Positions
  <2>2. v5' = [v5 EXCEPT ![m] = k]
    BY MigCounts, <1>1, <1>6 DEF Mig!Crash, Mig!Goto, Mig!MigInv, Mig!MigType
  <2> HIDE DEF k
  <2>3. Mig!Applies(k) /\ Mig!Reverts(k)
    BY MigCounts, <2>1 DEF Mig!Applies, Mig!Reverts
  <2> QED
    BY MigCounts, <1>5, <1>6, <2>1, <2>2, <2>3 DEF Mig!Crash
<1>7. CASE Mig!Cancel(m)
  <2>1. Mig!Applies(Mig!Idle) /\ Mig!Reverts(Mig!Idle)
    BY MigCounts, MigIdle DEF Mig!Applies, Mig!Reverts
  <2> QED
    BY MigCounts, <1>5, <1>7, <2>1, MigIdle DEF Mig!Cancel
<1> QED
  BY <1>3, <1>4, <1>6, <1>7

\* Every step of the migrators preserves the invariant.
LEMMA MigStep == Mig!MigInv /\ (Mig!Next \/ UNCHANGED Mig!migVars) => Mig!MigInv'
<1>1. ASSUME Mig!MigInv, UNCHANGED Mig!migVars PROVE Mig!MigInv'
  BY MigCounts, <1>1 DEF Mig!migVars, Mig!MigInv, Mig!MigType, Mig!Kept, Mig!OneMigrator, Mig!LeakNeedsFault, Mig!BatchesOrdered, Mig!SchemaInStep, Mig!Applied, Mig!Critical,
              Mig!DropsAll, Mig!Applies, Mig!Reverts
<1>2. ASSUME Mig!MigInv, NEW m \in Migrators, Mig!dropAllTables(m) PROVE Mig!MigInv'
  <2>1. CASE v5[m].todo = {} /\ Mig!Goto(m, "ensure") /\ UNCHANGED <<v1, v2, v3>>
    <3>1. PICK j \in Mig!Positions : j = v5[m] /\ Mig!Applies(j) /\ Mig!DropsAll(j)
      BY MigCounts, <1>2 DEF Mig!MigInv, Mig!MigType
    <3> DEFINE k == [j EXCEPT !.pc = "ensure"]
    <3>2. k \in Mig!Positions /\ k.pc = "ensure" /\ k.op = j.op
      BY DEF Mig!Positions
    <3>3. v5' = [v5 EXCEPT ![m] = k]
      BY MigCounts, <1>2, <2>1, <3>1 DEF Mig!Goto, Mig!MigInv, Mig!MigType
    <3> HIDE DEF k
    <3>4. j.pc = "drop" /\ j.op = "up" /\ UNCHANGED <<v1, v2, v3, v4, v7, v8>>
      BY <1>2, <2>1, <3>1 DEF Mig!dropAllTables, Mig!Applies
    <3>5. v8 \/ v1 = Mig!Applied
      BY <2>1, <3>1, <3>4 DEF Mig!DropsAll, Mig!Applied
    <3>6. Mig!Applies(k) /\ Mig!Reverts(k) /\ ~Mig!Critical(m) /\ v3 \in BOOLEAN
      BY MigCounts, <1>2, <3>1, <3>2, <3>4 DEF Mig!Applies, Mig!Reverts, Mig!Critical, Mig!MigInv, Mig!MigType
    <3> QED
      BY <1>2, <3>2, <3>3, <3>4, <3>5, <3>6, MigOutside
  <2> QED
    BY <1>2, <2>1, MigDrops DEF Mig!dropAllTables
<1>3. ASSUME Mig!MigInv, NEW m \in Migrators, Mig!applyOne(m) PROVE Mig!MigInv'
  <2>1. CASE Mig!Goto(m, "release") /\ UNCHANGED <<v1, v2>>
    BY <1>3, <2>1, MigStops DEF Mig!applyOne, Mig!Critical
  <2> QED
    BY <1>3, <2>1, MigApplies DEF Mig!applyOne
<1>4. ASSUME Mig!MigInv, NEW m \in Migrators, Mig!revertOne(m) PROVE Mig!MigInv'
  <2>1. CASE Mig!Goto(m, "release") /\ UNCHANGED <<v1, v2>>
    BY <1>4, <2>1, MigStops DEF Mig!revertOne, Mig!Critical
  <2> QED
    BY <1>4, <2>1, MigReverts DEF Mig!revertOne
<1> QED
  BY <1>1, <1>2, <1>3, <1>4, MigBegins, MigLocks, MigPlans, MigNumbers, MigPicks DEF Mig!Next, Mig!Step

\* The invariant of the migrators implies the properties.
LEMMA MigSafe == Mig!MigInv => Mig!OneMigrator /\ Mig!SchemaInStep /\ Mig!BatchesOrdered /\ Mig!LeakNeedsFault /\ Mig!ResetBounded
<1> SUFFICES ASSUME Mig!MigInv PROVE Mig!ResetBounded
  BY DEF Mig!MigInv
<1> SUFFICES ASSUME NEW m \in Migrators, v5[m].pc = "release", v5[m].op = "rollback", v5[m].step >= 2, v5[m].undo = {}
             PROVE  Cardinality(v2) <= v5[m].since
  BY MigCounts DEF Mig!ResetBounded
<1>1. v2 \ v5[m].undo = v2
  OBVIOUS
<1> QED
  BY MigCounts, <1>1 DEF Mig!MigInv, Mig!Reverts

-----------------------------------------------------------------------------
(***************************************************************************)
(* Session, the instance Ses: its variables are v1 items, v2 stale, v3     *)
(* req, v4 cookies, v5 ids, v6 started, v7 anonymous, v8 ended, v9 shared. *)
(***************************************************************************)

\* The invariant of the sessions holds initially.
LEMMA SessionStart == Ses!Init => Ses!Inv
<1> SUFFICES ASSUME Ses!Init PROVE Ses!Inv
  OBVIOUS
<1>1. \A r \in Requests : v3[r] = Ses!Idle
  BY DEF Ses!Init
<1>2. Ses!Idle \in Ses!SessionRecords /\ Ses!Idle.pc = "idle" /\ Ses!Idle.id = 0 /\ Ses!Idle.cache = "none"
  BY DEF Ses!Idle, Ses!Session, Ses!SessionRecords
<1>3. Ses!TypeOK
  BY <1>1, <1>2 DEF Ses!Init, Ses!TypeOK
<1>4. Ses!HoldersAgree /\ Ses!NoFixation /\ Ses!LogoutSticks /\ Ses!CacheIsCurrent
  BY <1>1, <1>2 DEF Ses!Init, Ses!HoldersAgree, Ses!Held, Ses!NoFixation, Ses!LogoutSticks, Ses!CacheIsCurrent
<1> QED
  BY <1>3, <1>4 DEF Ses!Inv

\* A request that gets a fresh id: nobody else has it, and no revoked session is alive under it.
LEMMA SessionFresh ==
  ASSUME Ses!Inv, v5' = v5 + 1, NEW r \in Requests, NEW k \in Ses!SessionRecords, k.id = v5 + 1,
         v3' = [v3 EXCEPT ![r] = k], k.cache \in {"none", "nobody"},
         DOMAIN v1' \subseteq DOMAIN v1, \A i \in DOMAIN v1' : v1'[i] = v1[i],
         UNCHANGED <<v4, v7, v8, v9>>
  PROVE  Ses!Inv'
<1>1. v3' \in [Requests -> Ses!SessionRecords] /\ v3'[r] = k /\ \A s \in Requests : s # r => v3'[s] = v3[s]
  BY DEF Ses!Inv, Ses!TypeOK
<1>2. Ses!TypeOK'
  <2>1. v5 \in Nat /\ v5' \in Nat /\ 1 .. v5 \subseteq 1 .. v5'
    BY DEF Ses!Inv, Ses!TypeOK
  <2>2. \A s \in Requests : (v3'[s].id <= v5' /\ v3'[s].id # 0) \/ v3'[s] = v3[s]
    BY <1>1, <2>1
  <2>3. \A s \in Requests : v3'[s].id <= v5' /\ (v3'[s].pc # "idle" => v3'[s].id # 0)
    BY <2>1, <2>2 DEF Ses!Inv, Ses!TypeOK, Ses!SessionRecords
  <2> QED
    BY <1>1, <2>1, <2>3 DEF Ses!Inv, Ses!TypeOK
<1>3. Ses!HoldersAgree'
  BY <1>1 DEF Ses!Inv, Ses!TypeOK, Ses!HoldersAgree, Ses!Held
<1>4. Ses!NoFixation' /\ Ses!LogoutSticks' /\ Ses!CacheIsCurrent'
  BY <1>1 DEF Ses!Inv, Ses!NoFixation, Ses!LogoutSticks, Ses!CacheIsCurrent
<1> QED
  BY <1>2, <1>3, <1>4 DEF Ses!Inv

\* Every step of the sessions preserves the invariant.
LEMMA SessionStep == Ses!Inv /\ [Ses!Next]_Ses!sesVars => Ses!Inv'
<1> SUFFICES ASSUME Ses!Inv, [Ses!Next]_Ses!sesVars PROVE Ses!Inv'
  OBVIOUS
<1>1. ASSUME NEW r \in Requests, NEW c \in v4 \cup {0}, Ses!Start(r, c) PROVE Ses!Inv'
  <2>1. CASE c \in DOMAIN v1 /\ c \in v2
    <3>1. c \in Nat /\ c <= v5
      BY <2>1 DEF Ses!Inv, Ses!TypeOK
    <3> DEFINE k == Ses!Session("evict", c, "guest", FALSE)
    <3>2. k \in Ses!SessionRecords /\ k.id = c /\ k.pc = "evict" /\ k.cache = "none"
      BY <3>1 DEF Ses!Session, Ses!SessionRecords
    <3> HIDE DEF k
    <3>3. v3' = [v3 EXCEPT ![r] = k]
      BY <1>1, <2>1 DEF Ses!Start, k
    <3>4. v3' \in [Requests -> Ses!SessionRecords] /\ v3'[r] = k /\ \A s \in Requests : s # r => v3'[s] = v3[s]
      BY <3>2, <3>3 DEF Ses!Inv, Ses!TypeOK
    <3> QED
      BY <1>1, <2>1, <3>1, <3>2, <3>4 DEF Ses!Start, Ses!Inv, Ses!TypeOK, Ses!HoldersAgree, Ses!Held, Ses!NoFixation, Ses!LogoutSticks, Ses!CacheIsCurrent
  <2>2. CASE c \in DOMAIN v1 /\ c \notin v2
    <3>1. c \in Nat /\ c <= v5 /\ c # 0 /\ v1[c] \in {"guest", User}
      BY <2>2 DEF Ses!Inv, Ses!TypeOK
    <3> DEFINE k == Ses!Session("run", c, v1[c], FALSE)
    <3>2. k \in Ses!SessionRecords /\ k.id = c /\ k.user = v1[c] /\ k.cache = "none"
      BY <3>1 DEF Ses!Session, Ses!SessionRecords
    <3> HIDE DEF k
    <3>3. v3' = [v3 EXCEPT ![r] = k] /\ UNCHANGED <<v1, v2, v4, v7, v8, v9, v5>>
      BY <1>1, <2>2 DEF Ses!Start, k
    <3>4. v3' \in [Requests -> Ses!SessionRecords] /\ v3'[r] = k /\ \A s \in Requests : s # r => v3'[s] = v3[s]
      BY <3>2, <3>3 DEF Ses!Inv, Ses!TypeOK
    <3>5. Ses!HoldersAgree'
      BY <2>2, <3>2, <3>3, <3>4 DEF Ses!Inv, Ses!HoldersAgree, Ses!Held, Ses!NoFixation, Ses!LogoutSticks
    <3> QED
      BY <3>1, <3>2, <3>3, <3>4, <3>5 DEF Ses!Inv, Ses!TypeOK, Ses!NoFixation, Ses!LogoutSticks, Ses!CacheIsCurrent
  <2>3. CASE c \notin DOMAIN v1
    <3>1. v5 + 1 \in Nat
      BY DEF Ses!Inv, Ses!TypeOK
    <3> DEFINE k == Ses!Session("run", v5 + 1, "guest", TRUE)
    <3>2. k \in Ses!SessionRecords /\ k.id = v5 + 1 /\ k.cache = "none"
      BY <3>1 DEF Ses!Session, Ses!SessionRecords
    <3> HIDE DEF k
    <3>3. v3' = [v3 EXCEPT ![r] = k]
      BY <1>1, <2>3 DEF Ses!Start, k
    <3> QED
      BY <1>1, <2>3, <3>2, <3>3, SessionFresh DEF Ses!Start
  <2> QED
    BY <2>1, <2>2, <2>3
<1>2. ASSUME NEW r \in Requests, Ses!evict(r) PROVE Ses!Inv'
  <2>1. v5 + 1 \in Nat
    BY DEF Ses!Inv, Ses!TypeOK
  <2> DEFINE k == Ses!Session("run", v5 + 1, "guest", TRUE)
  <2>2. k \in Ses!SessionRecords /\ k.id = v5 + 1 /\ k.cache = "none"
    BY <2>1 DEF Ses!Session, Ses!SessionRecords
  <2> HIDE DEF k
  <2>3. v3' = [v3 EXCEPT ![r] = k]
    BY <1>2 DEF Ses!evict, k
  <2> QED
    BY <1>2, <2>2, <2>3, SessionFresh DEF Ses!evict, Ses!Without
<1>3. ASSUME NEW r \in Requests, Ses!Put(r) \/ Ses!currentUser(r) \/ Ses!Finish(r) PROVE Ses!Inv'
  <2>1. /\ v3' \in [Requests -> Ses!SessionRecords] /\ \A s \in Requests : s # r => v3'[s] = v3[s]
        /\ v3'[r].id <= v5
        /\ \/ v3'[r].pc = "idle" /\ v3'[r].cache = "none"
           \/ /\ v3'[r].pc = v3[r].pc /\ v3'[r].id = v3[r].id /\ v3'[r].user = v3[r].user
              /\ v3'[r].destroyed = v3[r].destroyed
              /\ v3'[r].cache \in {v3[r].cache, "nobody", v3[r].user}
    <3>1. CASE Ses!Put(r)
      BY <3>1 DEF Ses!Put, Ses!Inv, Ses!TypeOK, Ses!SessionRecords
    <3>2. CASE Ses!currentUser(r)
      <4>1. PICK u \in {v3[r].user, "nobody"} : v3' = [v3 EXCEPT ![r].cache = u]
        BY <3>2 DEF Ses!currentUser
      <4> QED
        BY <4>1 DEF Ses!Inv, Ses!TypeOK, Ses!SessionRecords
    <3>3. CASE Ses!Finish(r)
      <4>1. Ses!Idle \in Ses!SessionRecords /\ Ses!Idle.pc = "idle" /\ Ses!Idle.id = 0 /\ Ses!Idle.cache = "none"
        BY DEF Ses!Idle, Ses!Session, Ses!SessionRecords
      <4> QED
        BY <3>3, <4>1 DEF Ses!Finish, Ses!Inv, Ses!TypeOK
    <3> QED
      BY <1>3, <3>1, <3>2, <3>3
  <2>2. UNCHANGED <<v1, v4, v5, v7, v8, v9>>
    BY <1>3 DEF Ses!Put, Ses!currentUser, Ses!Finish
  <2>3. Ses!TypeOK'
    BY <2>1, <2>2 DEF Ses!Inv, Ses!TypeOK
  <2>4. Ses!HoldersAgree'
    BY <2>1, <2>2 DEF Ses!Inv, Ses!HoldersAgree, Ses!Held
  <2> QED
    BY <2>1, <2>2, <2>3, <2>4 DEF Ses!Inv, Ses!NoFixation, Ses!LogoutSticks, Ses!CacheIsCurrent
<1>4. ASSUME NEW r \in Requests, Ses!Login(r) PROVE Ses!Inv'
  <2> DEFINE k == [v3[r] EXCEPT !.id = v5 + 1, !.user = User, !.dirty = TRUE, !.cache = "none"]
  <2>0. v3[r] \in Ses!SessionRecords /\ v5 + 1 \in Nat
    BY DEF Ses!Inv, Ses!TypeOK
  <2>1. k \in Ses!SessionRecords /\ k.id = v5 + 1 /\ k.cache = "none"
    BY <2>0 DEF Ses!SessionRecords
  <2> HIDE DEF k
  <2>2. v3' = [v3 EXCEPT ![r] = k]
    BY <1>4 DEF Ses!Login, Ses!newId, Ses!clearCachedUser, k
  <2> QED
    BY <1>4, <2>1, <2>2, SessionFresh DEF Ses!Login, Ses!destroyOld, Ses!Without
<1>5. ASSUME NEW r \in Requests, Ses!Logout(r) \/ Ses!Destroy(r) PROVE Ses!Inv'
  <2> DEFINE i == v3[r].id
  <2>1. /\ v3' \in [Requests -> Ses!SessionRecords] /\ \A s \in Requests : s # r => v3'[s] = v3[s]
        /\ v3'[r].id <= v5' /\ v3'[r].id # 0 /\ (v3'[r].cache = "none" \/ v3'[r].destroyed)
        /\ v3'[r].destroyed \/ (v3'[r].id = v5 + 1 /\ v5' = v5 + 1)
        /\ v5' \in Nat /\ v5 <= v5'
    <3>1. CASE Ses!Logout(r)
      <4> DEFINE k == [v3[r] EXCEPT !.id = v5 + 1, !.user = "guest", !.dirty = TRUE, !.cache = "none"]
      <4>0. v3[r] \in Ses!SessionRecords /\ v5 + 1 \in Nat /\ v5 \in Nat
        BY DEF Ses!Inv, Ses!TypeOK
      <4>1. k \in Ses!SessionRecords /\ k.id = v5 + 1 /\ k.cache = "none"
        BY <4>0 DEF Ses!SessionRecords
      <4> HIDE DEF k
      <4>2. v3' = [v3 EXCEPT ![r] = k] /\ v5' = v5 + 1
        BY <3>1 DEF Ses!Logout, Ses!clearCachedUser, k
      <4> QED
        BY <4>0, <4>1, <4>2 DEF Ses!Inv, Ses!TypeOK
    <3>2. CASE Ses!Destroy(r)
      <4> DEFINE k == [v3[r] EXCEPT !.user = "guest", !.destroyed = TRUE]
      <4>1. k \in Ses!SessionRecords /\ k.id = v3[r].id /\ k.destroyed
        BY DEF Ses!Inv, Ses!TypeOK, Ses!SessionRecords
      <4> HIDE DEF k
      <4>2. v3' = [v3 EXCEPT ![r] = k] /\ v5' = v5 /\ v3[r].pc = "run"
        BY <3>2 DEF Ses!Destroy, k
      <4> QED
        BY <4>1, <4>2 DEF Ses!Inv, Ses!TypeOK, Ses!SessionRecords
    <3> QED
      BY <1>5, <3>1, <3>2
  <2>2. /\ v1' = Ses!Without(i) /\ UNCHANGED <<v4, v7>>
        /\ v8' = v8 \cup {i} /\ v9' = (IF Ses!Holders(i) = {r} THEN v9 ELSE v9 \cup {i})
        /\ v3[r].pc = "run"
    BY <1>5 DEF Ses!Logout, Ses!Destroy, Ses!destroyOld
  <2>3. DOMAIN v1' = DOMAIN v1 \ {i} /\ \A j \in DOMAIN v1' : v1'[j] = v1[j]
    BY <2>2 DEF Ses!Without
  <2>4. v8' \subseteq 1 .. v5'
    <3>1. i \in 1 .. v5
      BY <2>2 DEF Ses!Inv, Ses!TypeOK, Ses!SessionRecords
    <3>2. 1 .. v5 \subseteq 1 .. v5'
      BY <2>1 DEF Ses!Inv, Ses!TypeOK
    <3> QED
      BY <2>2, <3>1, <3>2 DEF Ses!Inv, Ses!TypeOK
  <2>5. Ses!TypeOK'
    BY <2>1, <2>2, <2>3, <2>4 DEF Ses!Inv, Ses!TypeOK, Ses!SessionRecords
  <2>6. \A s \in Requests : s # r /\ Ses!Held(s) /\ v3[s].id = i => i \in v9'
    BY <2>2 DEF Ses!Holders, Ses!Held
  <2>7. Ses!HoldersAgree'
    <3>1. \A s \in Requests : Ses!Held(s)' /\ s # r => Ses!Held(s) /\ v3'[s] = v3[s]
      BY <2>1 DEF Ses!Held
    <3>2. Ses!Held(r)' => v3'[r].id = v5 + 1 /\ v5 + 1 \notin DOMAIN v1' /\ v5 + 1 \notin v7' /\ v5 + 1 \notin v8'
      BY <2>1, <2>2, <2>3 DEF Ses!Held, Ses!Inv, Ses!TypeOK, Ses!SessionRecords
    <3>3. \A s \in Requests : s # r => v3'[s].id # v5 + 1
      BY <2>1 DEF Ses!Inv, Ses!TypeOK, Ses!SessionRecords
    <3> QED
      BY <2>2, <2>3, <2>6, <3>1, <3>2, <3>3 DEF Ses!Inv, Ses!HoldersAgree
  <2>8. Ses!NoFixation' /\ Ses!LogoutSticks'
    BY <2>2, <2>3 DEF Ses!Inv, Ses!NoFixation, Ses!LogoutSticks
  <2> QED
    BY <2>1, <2>5, <2>7, <2>8 DEF Ses!Inv, Ses!CacheIsCurrent
<1>6. ASSUME NEW r \in Requests, Ses!flushSave(r) PROVE Ses!Inv'
  <2> DEFINE i == v3[r].id
  <2>1. /\ v3' \in [Requests -> Ses!SessionRecords] 
        /\ \A s \in Requests : /\ v3'[s].pc = v3[s].pc /\ v3'[s].id = v3[s].id /\ v3'[s].user = v3[s].user
                               /\ v3'[s].destroyed = v3[s].destroyed /\ v3'[s].cache = v3[s].cache
        /\ UNCHANGED <<v5, v8, v9>> /\ v3[r].pc = "run"
    BY <1>6, ZenonT(30) DEF Ses!flushSave, Ses!Inv, Ses!TypeOK, Ses!SessionRecords
  <2>2. CASE v3[r].destroyed
    BY <1>6, <2>1, <2>2 DEF Ses!flushSave, Ses!mustSkip, Ses!Inv, Ses!TypeOK, Ses!HoldersAgree, Ses!Held, Ses!NoFixation, Ses!LogoutSticks, Ses!CacheIsCurrent
  <2>3. CASE ~v3[r].destroyed
    <3>1. Ses!Save(r) /\ Ses!Held(r)
      BY <1>6, <2>1, <2>3 DEF Ses!flushSave, Ses!mustSkip, Ses!Held
    <3>2. /\ DOMAIN v1' \subseteq DOMAIN v1 \cup {i}
          /\ \A j \in DOMAIN v1' : v1'[j] = IF j = i THEN v3[r].user ELSE v1[j]
      BY <3>1 DEF Ses!Save, Ses!With, Ses!Inv, Ses!HoldersAgree
    <3>3. v7' = (IF v3[r].user = "guest" THEN v7 \cup {i} ELSE v7) /\ v4' = v4 \cup {i}
      BY <3>1 DEF Ses!Save
    <3>x. i \in 1 .. v5
      BY <2>1 DEF Ses!Inv, Ses!TypeOK, Ses!SessionRecords
    <3>4. Ses!TypeOK'
      BY <2>1, <3>2, <3>3, <3>x DEF Ses!Inv, Ses!TypeOK, Ses!SessionRecords
    <3>5. Ses!HoldersAgree'
      BY <2>1, <3>1, <3>2, <3>3 DEF Ses!Inv, Ses!HoldersAgree, Ses!Held
    <3>6. Ses!NoFixation' /\ Ses!LogoutSticks'
      BY <2>1, <3>1, <3>2, <3>3 DEF Ses!Inv, Ses!HoldersAgree, Ses!NoFixation, Ses!LogoutSticks
    <3> QED
      BY <2>1, <3>4, <3>5, <3>6 DEF Ses!Inv, Ses!CacheIsCurrent
  <2> QED
    BY <2>2, <2>3
<1>7. ASSUME NEW i \in DOMAIN v1, Ses!Expire(i) PROVE Ses!Inv'
  BY <1>7 DEF Ses!Expire, Ses!Inv, Ses!TypeOK, Ses!HoldersAgree, Ses!Held, Ses!NoFixation, Ses!LogoutSticks, Ses!CacheIsCurrent
<1>8. CASE Ses!sweep
  BY <1>8 DEF Ses!sweep, Ses!Inv, Ses!TypeOK, Ses!HoldersAgree, Ses!Held, Ses!NoFixation, Ses!LogoutSticks, Ses!CacheIsCurrent
<1>9. CASE UNCHANGED Ses!sesVars
  BY <1>9 DEF Ses!sesVars, Ses!Inv, Ses!TypeOK, Ses!HoldersAgree, Ses!Held, Ses!NoFixation, Ses!LogoutSticks, Ses!CacheIsCurrent
<1> QED
  BY <1>1, <1>2, <1>3, <1>4, <1>5, <1>6, <1>7, <1>8, <1>9 DEF Ses!Next

-----------------------------------------------------------------------------
(***************************************************************************)
(* Auth, the instance Aut: its variables are v1 saved, v2 issued, v3       *)
(* consuming, v4 wins, v5 overlapped, v6 tokens, v7 made, v8 doing, v9     *)
(* revokedIds, v10 raced, v11 accepted, v12 window, v13 at, v14 hits, v15  *)
(* guesses.                                                                *)
(***************************************************************************)

\* The invariant of the one-time tokens holds initially.
LEMMA AccountStart == Aut!AccountInit => Aut!AccountInv
<1>1. Aut!NoRecord \in Aut!Records
  BY DEF Aut!NoRecord, Aut!Records
<1> QED
  BY <1>1 DEF Aut!AccountInit, Aut!AccountInv, Aut!AccountTypeOK, Aut!UsedOnce, Aut!Holds, Aut!Idle

\* Every step of the one-time tokens preserves the invariant.
LEMMA AccountStep == Aut!AccountInv /\ [Aut!AccountNext]_Aut!accountVars => Aut!AccountInv'
<1> SUFFICES ASSUME Aut!AccountInv, [Aut!AccountNext]_Aut!accountVars PROVE Aut!AccountInv'
  OBVIOUS
<1> DEFINE Held(S) == [token : S \cup {"none"}, rec : Aut!Records]
<1>0. Aut!Idle \in Held(v2)
  BY DEF Aut!Idle, Aut!NoRecord, Aut!Records
<1>1. ASSUME NEW t \in Tokens, Aut!Delete(t) PROVE Aut!AccountInv'
  BY <1>1 DEF Aut!Delete, Aut!AccountInv, Aut!AccountTypeOK, Aut!UsedOnce, Aut!Holds
<1>2. ASSUME NEW t \in Tokens, NEW p \in Aut!Purposes, Aut!Issue(t, p) PROVE Aut!AccountInv'
  <2> DEFINE k == [purpose |-> p, left |-> TTL, used |-> FALSE]
  <2>1. k \in Aut!Records
    BY AuthAssumption DEF Aut!Records
  <2> HIDE DEF k
  <2>2. /\ DOMAIN v1' = DOMAIN v1 \cup {t} /\ v1'[t] = k
        /\ \A u \in DOMAIN v1 : u # t => v1'[u] = v1[u]
    BY <1>2 DEF Aut!Issue, Aut!Put, k
  <2>3. Aut!AccountTypeOK'
    BY <1>2, <2>1, <2>2 DEF Aut!Issue, Aut!AccountInv, Aut!AccountTypeOK
  <2>4. ASSUME NEW u \in Tokens \ v5' PROVE Aut!UsedOnce(u)'
    <3>1. Aut!UsedOnce(u) /\ UNCHANGED <<v3, v4, v5>> /\ t \notin v2 /\ v2 \subseteq v2'
      BY <1>2 DEF Aut!Issue, Aut!AccountInv
    <3> QED
      BY <2>2, <3>1 DEF Aut!UsedOnce, Aut!Holds
  <2> QED
    BY <2>3, <2>4 DEF Aut!AccountInv
<1>3. ASSUME NEW c \in Callers, NEW t \in Tokens, NEW p \in Aut!Purposes, NEW right \in BOOLEAN, Aut!Consume(c, t, p, right)
      PROVE Aut!AccountInv'
  <2> DEFINE k == [token |-> t, rec |-> v1[t]]
  <2>1. t \in DOMAIN v1 /\ v1[t] \in Aut!Records /\ ~v1[t].used /\ v3[c] = Aut!Idle /\ t \in v2
    BY <1>3 DEF Aut!Consume, Aut!lookup, Aut!Used, Aut!AccountInv, Aut!AccountTypeOK
  <2>2. k \in Held(v2) /\ k.token = t /\ k.rec \in Aut!Records
    BY <2>1
  <2> HIDE DEF k
  <2>3. v3' = [v3 EXCEPT ![c] = k] /\ UNCHANGED <<v1, v2, v4>>
    BY <1>3 DEF Aut!Consume, k
  <2>4. v3' \in [Callers -> Held(v2)] /\ v3'[c] = k /\ \A d \in Callers : d # c => v3'[d] = v3[d]
    BY <2>2, <2>3 DEF Aut!AccountInv, Aut!AccountTypeOK
  <2>5. Aut!AccountTypeOK'
    BY <2>1, <2>2, <2>3, <2>4 DEF Aut!AccountInv, Aut!AccountTypeOK
  <2>6. v5' = IF \E d \in Callers : v3[d].token = t THEN v5 \cup {t} ELSE v5
    BY <1>3 DEF Aut!Consume
  <2>7. \A u \in Tokens \ v5' : Aut!UsedOnce(u)'
    BY <2>1, <2>2, <2>3, <2>4, <2>6 DEF Aut!AccountInv, Aut!UsedOnce, Aut!Holds
  <2> QED
    BY <2>5, <2>7 DEF Aut!AccountInv
<1>4. ASSUME NEW c \in Callers, Aut!ConsumeSave(c) PROVE Aut!AccountInv'
  <2>0. PICK t \in Tokens : t = v3[c].token
    BY <1>4 DEF Aut!ConsumeSave, Aut!AccountInv, Aut!AccountTypeOK
  <2> DEFINE k == [v3[c].rec EXCEPT !.used = TRUE]
  <2>1. t \in v2 /\ t = v3[c].token /\ v3[c].rec \in Aut!Records /\ v3[c] # Aut!Idle
    BY <1>4, <2>0 DEF Aut!ConsumeSave, Aut!AccountInv, Aut!AccountTypeOK
  <2>2. k \in Aut!Records /\ k.used
    BY <2>1 DEF Aut!Records
  <2> HIDE DEF k
  <2>3. DOMAIN v1' = DOMAIN v1 \cup {t} /\ v1'[t] = k /\ \A u \in DOMAIN v1 : u # t => v1'[u] = v1[u]
    BY <1>4, <2>0 DEF Aut!ConsumeSave, Aut!Put, Aut!markUsed, k
  <2>4. /\ v3' \in [Callers -> Held(v2)] /\ v3'[c] = Aut!Idle
        /\ \A d \in Callers : d # c => v3'[d] = v3[d]
    BY <1>0, <1>4 DEF Aut!ConsumeSave, Aut!AccountInv, Aut!AccountTypeOK
  <2>5. v4' \in [Tokens -> Nat] /\ v4'[t] = v4[t] + 1 /\ \A u \in Tokens : u # t => v4'[u] = v4[u]
    BY <1>4, <2>1 DEF Aut!ConsumeSave, Aut!AccountInv, Aut!AccountTypeOK
  <2>6. UNCHANGED <<v2, v5>>
    BY <1>4 DEF Aut!ConsumeSave
  <2>7. Aut!AccountTypeOK'
    BY <2>1, <2>2, <2>3, <2>4, <2>5, <2>6 DEF Aut!AccountInv, Aut!AccountTypeOK
  <2>8. t \notin v5 => v4[t] = 0
    BY <2>1 DEF Aut!AccountInv, Aut!AccountTypeOK, Aut!UsedOnce, Aut!Holds
  <2>9. \A u \in Tokens \ v5' : Aut!UsedOnce(u)'
    <3>1. ASSUME NEW u \in Tokens \ v5', u # t PROVE Aut!UsedOnce(u)'
      BY <2>3, <2>4, <2>5, <2>6, <3>1 DEF Aut!AccountInv, Aut!UsedOnce, Aut!Holds
    <3>2. ASSUME t \notin v5' PROVE Aut!UsedOnce(t)'
      <4>1. Aut!UsedOnce(t) /\ Aut!Holds(c, t) /\ \A d \in Callers : ~Aut!Holds(d, t)'
        BY <2>1, <2>4, <2>6, <3>2 DEF Aut!AccountInv, Aut!UsedOnce, Aut!Holds
      <4> QED
        BY <2>1, <2>2, <2>3, <2>5, <2>6, <2>8, <3>2, <4>1 DEF Aut!UsedOnce
    <3> QED
      BY <3>1, <3>2
  <2> QED
    BY <2>7, <2>9 DEF Aut!AccountInv
<1>5. ASSUME NEW c \in Callers, Aut!ConsumeFails(c) PROVE Aut!AccountInv'
  <2>4. /\ v3' \in [Callers -> Held(v2)] /\ v3'[c] = Aut!Idle
        /\ \A d \in Callers : d # c => v3'[d] = v3[d]
    BY <1>0, <1>5 DEF Aut!ConsumeFails, Aut!AccountInv, Aut!AccountTypeOK
  <2> QED
    BY <1>5, <2>4 DEF Aut!ConsumeFails, Aut!AccountInv, Aut!AccountTypeOK, Aut!UsedOnce, Aut!Holds
<1>6. CASE Aut!AccountTick
  <2>1. /\ DOMAIN v1' = DOMAIN v1
        /\ \A t \in DOMAIN v1 : v1'[t] \in Aut!Records /\ v1'[t].used = v1[t].used
    BY <1>6 DEF Aut!AccountTick, Aut!AccountInv, Aut!AccountTypeOK, Aut!Records
  <2> QED
    BY <1>6, <2>1 DEF Aut!AccountTick, Aut!AccountInv, Aut!AccountTypeOK, Aut!UsedOnce, Aut!Holds
<1>7. CASE UNCHANGED Aut!accountVars
  BY <1>7 DEF Aut!accountVars, Aut!AccountInv, Aut!AccountTypeOK, Aut!UsedOnce, Aut!Holds
<1> QED
  BY <1>1, <1>2, <1>3, <1>4, <1>5, <1>6, <1>7 DEF Aut!AccountNext

\* The invariant of the one-time tokens implies the properties.
LEMMA AccountSafe == Aut!AccountInv => Aut!SingleUse
BY DEF Aut!AccountInv, Aut!AccountTypeOK, Aut!UsedOnce, Aut!SingleUse

\* The invariant of the access tokens holds initially.
LEMMA AccessStart == Aut!AccessInit => Aut!AccessInv
<1>1. Aut!NoCall \in [op : {"none", "find", "revoke"}, id : {"none"}, left : Int] /\ Aut!NoCall.op = "none"
  BY DEF Aut!NoCall
<1> SUFFICES ASSUME Aut!AccessInit PROVE Aut!AccessInv
  OBVIOUS
<1>2. Aut!AccessTypeOK
  BY <1>1 DEF Aut!AccessInit, Aut!AccessTypeOK
<1> QED
  BY <1>2 DEF Aut!AccessInit, Aut!AccessInv, Aut!RevocationSticks

\* Every step of the access tokens preserves the invariant.
LEMMA AccessStep == Aut!AccessInv /\ [Aut!AccessNext]_Aut!accessVars => Aut!AccessInv'
<1> SUFFICES ASSUME Aut!AccessInv, [Aut!AccessNext]_Aut!accessVars PROVE Aut!AccessInv'
  OBVIOUS
<1> DEFINE CallRecords == [op : {"none", "find", "revoke"}, id : v7 \cup {"none"}, left : Int]
<1>0. /\ Aut!NoCall \in CallRecords /\ Aut!NoCall.op = "none" /\ v8 \in [Callers -> CallRecords]
  BY DEF Aut!NoCall, Aut!AccessInv, Aut!AccessTypeOK
<1>1. ASSUME NEW t \in Tokens, NEW ttl \in {TTL, Aut!Never}, Aut!IssueToken(t, ttl) PROVE Aut!AccessInv'
  <2> DEFINE k == [left |-> ttl, revoked |-> FALSE]
  <2>1. k \in Aut!AccessRecords /\ ~k.revoked
    BY AuthAssumption DEF Aut!AccessRecords, Aut!Never
  <2> HIDE DEF k
  <2>2. /\ DOMAIN v6' = DOMAIN v6 \cup {t} /\ v6'[t] = k
        /\ \A u \in DOMAIN v6 : u # t => v6'[u] = v6[u]
    BY <1>1 DEF Aut!IssueToken, Aut!PutToken, k
  <2>3. v7' = v7 \cup {t} /\ t \notin v7 /\ UNCHANGED <<v8, v9, v10, v11>>
    BY <1>1 DEF Aut!IssueToken
  <2>4. v8' \in [Callers -> [op : {"none", "find", "revoke"}, id : v7' \cup {"none"}, left : Int]]
    BY <1>0, <2>3
  <2>5. Aut!AccessTypeOK'
    BY <2>1, <2>2, <2>3, <2>4 DEF Aut!AccessInv, Aut!AccessTypeOK
  <2>6. ASSUME NEW u \in v7' \ v10' PROVE Aut!StaysRevoked(u)'
    <3>1. Aut!Finding(u)' <=> Aut!Finding(u)
      BY <2>3 DEF Aut!Finding
    <3> QED
      BY <2>1, <2>2, <2>3, <3>1 DEF Aut!AccessInv, Aut!AccessTypeOK, Aut!StaysRevoked
  <2> QED
    BY <2>3, <2>5, <2>6 DEF Aut!AccessInv, Aut!RevocationSticks
<1>2. ASSUME NEW c \in Callers, NEW t \in Tokens, NEW right \in BOOLEAN, Aut!Find(c, t, right) PROVE Aut!AccessInv'
  <2> DEFINE k == [op |-> "find", id |-> t, left |-> v6[t].left]
  <2>1. t \in DOMAIN v6 /\ t \in v7 /\ v6[t] \in Aut!AccessRecords /\ ~v6[t].revoked
    BY <1>2 DEF Aut!Find, Aut!Revoked, Aut!AccessInv, Aut!AccessTypeOK
  <2>2. k \in CallRecords /\ k.op = "find" /\ k.id = t
    BY <2>1 DEF Aut!AccessRecords
  <2> HIDE DEF k
  <2>3. v8' = [v8 EXCEPT ![c] = k] /\ UNCHANGED <<v6, v7, v9, v10>>
    BY <1>2 DEF Aut!Find, k
  <2>4. v8' \in [Callers -> CallRecords] /\ v8'[c] = k /\ \A d \in Callers : d # c => v8'[d] = v8[d]
    BY <1>0, <2>2, <2>3
  <2>5. Aut!AccessTypeOK'
    BY <2>1, <2>2, <2>3, <2>4 DEF Aut!AccessInv, Aut!AccessTypeOK
  <2>6. ASSUME NEW u \in v7' \ v10' PROVE Aut!StaysRevoked(u)'
    <3>1. Aut!StaysRevoked(u)
      BY <2>3 DEF Aut!AccessInv
    <3>2. u # t => (Aut!Finding(u)' <=> Aut!Finding(u))
      BY <1>0, <1>2, <2>2, <2>4 DEF Aut!Finding, Aut!Find
    <3> QED
      BY <2>1, <2>3, <3>1, <3>2 DEF Aut!StaysRevoked
  <2>7. t \in v9 => t \in v10
    BY <2>1 DEF Aut!AccessInv, Aut!StaysRevoked
  <2>8. Aut!RevocationSticks'
    BY <1>2, <2>3, <2>7 DEF Aut!Find, Aut!AccessInv, Aut!RevocationSticks
  <2> QED
    BY <2>5, <2>6, <2>8 DEF Aut!AccessInv
<1>3. ASSUME NEW c \in Callers, Aut!stampLastUsed(c) PROVE Aut!AccessInv'
  <2>0. PICK t \in v7 : t = v8[c].id /\ v8[c].op = "find"
    BY <1>3 DEF Aut!stampLastUsed, Aut!AccessInv, Aut!AccessTypeOK
  <2> DEFINE k == [left |-> v8[c].left, revoked |-> FALSE]
  <2>1. k \in Aut!AccessRecords /\ ~k.revoked
    BY <1>0 DEF Aut!AccessRecords
  <2> HIDE DEF k
  <2>2. /\ DOMAIN v6' = DOMAIN v6 \cup {t} /\ v6'[t] = k
        /\ \A u \in DOMAIN v6 : u # t => v6'[u] = v6[u]
    BY <1>3, <2>0 DEF Aut!stampLastUsed, Aut!PutToken, k
  <2>3. UNCHANGED <<v7, v9, v10, v11>>
    BY <1>3 DEF Aut!stampLastUsed
  <2>4. v8' \in [Callers -> CallRecords] /\ v8'[c] = Aut!NoCall /\ \A d \in Callers : d # c => v8'[d] = v8[d]
    BY <1>0, <1>3 DEF Aut!stampLastUsed
  <2>5. Aut!AccessTypeOK'
    BY <1>0, <2>1, <2>2, <2>3, <2>4 DEF Aut!AccessInv, Aut!AccessTypeOK
  <2>6. ASSUME NEW u \in v7' \ v10' PROVE Aut!StaysRevoked(u)'
    <3>1. Aut!StaysRevoked(u)
      BY <2>3 DEF Aut!AccessInv
    <3>2. Aut!Finding(u)' => Aut!Finding(u)
      BY <1>0, <2>4 DEF Aut!Finding
    <3>3. Aut!Finding(t)
      BY <2>0 DEF Aut!Finding
    <3> QED
      BY <2>1, <2>2, <2>3, <3>1, <3>2, <3>3 DEF Aut!StaysRevoked
  <2> QED
    BY <2>3, <2>5, <2>6 DEF Aut!AccessInv, Aut!RevocationSticks
<1>4. ASSUME NEW c \in Callers, NEW t \in Tokens, Aut!Revoke(c, t) PROVE Aut!AccessInv'
  <2>1. t \in DOMAIN v6 /\ t \in v7 /\ v6[t] \in Aut!AccessRecords /\ UNCHANGED <<v6, v7, v10, v11>>
    BY <1>4 DEF Aut!Revoke, Aut!AccessInv, Aut!AccessTypeOK
  <2>2. CASE v6[t].revoked
    <3>1. v9' = v9 \cup {t} /\ UNCHANGED v8
      BY <1>4, <2>2 DEF Aut!Revoke
    <3>2. ASSUME NEW u \in v7' \ v10' PROVE Aut!StaysRevoked(u)'
      <4>1. Aut!StaysRevoked(u)
        BY <2>1 DEF Aut!AccessInv
      <4> QED
        BY <2>1, <2>2, <3>1, <4>1 DEF Aut!StaysRevoked, Aut!Finding
    <3> QED
      BY <2>1, <3>1, <3>2 DEF Aut!AccessInv, Aut!AccessTypeOK, Aut!RevocationSticks
  <2>3. CASE ~v6[t].revoked
    <3> DEFINE k == [op |-> "revoke", id |-> t, left |-> v6[t].left]
    <3>1. k \in CallRecords /\ k.op = "revoke" /\ k.id = t
      BY <2>1 DEF Aut!AccessRecords
    <3> HIDE DEF k
    <3>2. v8' = [v8 EXCEPT ![c] = k] /\ UNCHANGED v9
      BY <1>4, <2>3 DEF Aut!Revoke, k
    <3>3. v8' \in [Callers -> CallRecords] /\ v8'[c] = k /\ \A d \in Callers : d # c => v8'[d] = v8[d]
      BY <1>0, <3>1, <3>2
    <3>4. Aut!AccessTypeOK'
      BY <2>1, <3>1, <3>2, <3>3 DEF Aut!AccessInv, Aut!AccessTypeOK
    <3>5. ASSUME NEW u \in v7' \ v10' PROVE Aut!StaysRevoked(u)'
      <4>1. Aut!StaysRevoked(u)
        BY <2>1 DEF Aut!AccessInv
      <4>2. Aut!Finding(u)' => Aut!Finding(u)
        BY <3>1, <3>3 DEF Aut!Finding
      <4> QED
        BY <2>1, <3>2, <4>1, <4>2 DEF Aut!StaysRevoked
    <3> QED
      BY <2>1, <3>4, <3>5 DEF Aut!AccessInv, Aut!RevocationSticks
  <2> QED
    BY <2>2, <2>3
<1>5. ASSUME NEW c \in Callers, Aut!RevokeSave(c) PROVE Aut!AccessInv'
  <2>0. PICK t \in v7 : t = v8[c].id
    BY <1>5 DEF Aut!RevokeSave, Aut!AccessInv, Aut!AccessTypeOK
  <2>1. Aut!revoked(c) \in Aut!AccessRecords /\ Aut!revoked(c).revoked
    BY <1>0 DEF Aut!AccessRecords, Aut!revoked
  <2>2. /\ DOMAIN v6' = DOMAIN v6 \cup {t} /\ v6'[t] = Aut!revoked(c)
        /\ \A u \in DOMAIN v6 : u # t => v6'[u] = v6[u]
    BY <1>5, <2>0 DEF Aut!RevokeSave, Aut!PutToken
  <2>3. /\ v9' = v9 \cup {t} /\ UNCHANGED <<v7, v11>>
        /\ v10' = IF Aut!Finding(t) THEN v10 \cup {t} ELSE v10
    BY <1>5, <2>0 DEF Aut!RevokeSave
  <2>4. v8' \in [Callers -> CallRecords] /\ v8'[c] = Aut!NoCall /\ \A d \in Callers : d # c => v8'[d] = v8[d]
    BY <1>0, <1>5 DEF Aut!RevokeSave
  <2>5. Aut!AccessTypeOK'
    BY <1>0, <2>1, <2>2, <2>3, <2>4 DEF Aut!AccessInv, Aut!AccessTypeOK
  <2>6. ASSUME NEW u \in v7' \ v10' PROVE Aut!StaysRevoked(u)'
    <3>1. Aut!StaysRevoked(u) /\ (u = t => ~Aut!Finding(t))
      BY <2>3 DEF Aut!AccessInv
    <3>2. Aut!Finding(u)' => Aut!Finding(u)
      BY <1>0, <2>4 DEF Aut!Finding
    <3> QED
      BY <2>1, <2>2, <2>3, <3>1, <3>2 DEF Aut!StaysRevoked
  <2> QED
    BY <2>3, <2>5, <2>6 DEF Aut!AccessInv, Aut!RevocationSticks
<1>6. ASSUME NEW t \in Tokens, Aut!DeleteToken(t) PROVE Aut!AccessInv'
  <2>1. /\ DOMAIN v6' = DOMAIN v6 \ {t} /\ \A u \in DOMAIN v6' : v6'[u] = v6[u]
        /\ UNCHANGED <<v7, v8, v9, v11>> /\ v10 \subseteq v10'
    BY <1>6 DEF Aut!DeleteToken
  <2>2. Aut!AccessTypeOK'
    BY <2>1 DEF Aut!AccessInv, Aut!AccessTypeOK
  <2> QED
    BY <2>1, <2>2 DEF Aut!AccessInv, Aut!StaysRevoked, Aut!RevocationSticks, Aut!Finding
<1>7. CASE Aut!AccessTick
  <2>1. /\ DOMAIN v6' = DOMAIN v6
        /\ \A t \in DOMAIN v6 : v6'[t] \in Aut!AccessRecords /\ v6'[t].revoked = v6[t].revoked
    BY <1>7 DEF Aut!AccessTick, Aut!AccessInv, Aut!AccessTypeOK, Aut!AccessRecords
  <2>2. UNCHANGED <<v7, v8, v9, v10, v11>>
    BY <1>7 DEF Aut!AccessTick
  <2> QED
    BY <2>1, <2>2 DEF Aut!AccessInv, Aut!AccessTypeOK, Aut!StaysRevoked, Aut!RevocationSticks, Aut!Finding
<1>8. CASE UNCHANGED Aut!accessVars
  BY <1>8 DEF Aut!accessVars, Aut!AccessInv, Aut!AccessTypeOK, Aut!StaysRevoked, Aut!RevocationSticks, Aut!Finding
<1> QED
  BY <1>1, <1>2, <1>3, <1>4, <1>5, <1>6, <1>7, <1>8 DEF Aut!AccessNext

\* The logins that the throttle has admitted can be counted.
LEMMA AdmittedFinite ==
  /\ IsFiniteSet(Aut!Admitted) /\ Cardinality(Aut!Admitted) \in Nat /\ Cardinality(Aut!Admitted) <= Cardinality(Logins)
  /\ Cardinality(Logins) \in Nat
BY AutCounts, AuthAssumption, FS_Subset, FS_CardinalityType DEF Aut!Admitted

\* The invariant of the login throttle holds initially.
LEMMA ThrottleStart == Aut!ThrottleInit => Aut!ThrottleInv
<1> SUFFICES ASSUME Aut!ThrottleInit PROVE Aut!ThrottleInv
  OBVIOUS
<1>1. v12.count = 0 /\ v12 \in [count : Nat, left : Int] /\ v15 = 0
  BY DEF Aut!ThrottleInit, Aut!NoWindow
<1>2. v13 \in [Logins -> {"idle", "admitted"}]
  BY DEF Aut!ThrottleInit
<1> QED
  BY AutCounts, <1>1, <1>2, AdmittedFinite, AuthAssumption DEF Aut!ThrottleInv

\* Every step of the login throttle preserves the invariant.
LEMMA ThrottleStep == Aut!ThrottleInv /\ [Aut!ThrottleNext]_Aut!throttleVars => Aut!ThrottleInv'
<1> SUFFICES ASSUME Aut!ThrottleInv, [Aut!ThrottleNext]_Aut!throttleVars PROVE Aut!ThrottleInv'
  OBVIOUS
<1>0. Aut!NoWindow \in [count : Nat, left : Int] /\ Aut!NoWindow.count = 0
  BY DEF Aut!NoWindow
<1>a. /\ IsFiniteSet(Aut!Admitted') /\ Cardinality(Aut!Admitted') \in Nat /\ Cardinality(Aut!Admitted') <= Cardinality(Logins)
  BY AutCounts, AuthAssumption, FS_Subset, FS_CardinalityType DEF Aut!Admitted
<1>1. ASSUME NEW l \in Logins, Aut!Check(l) PROVE Aut!ThrottleInv'
  <2>1. v12' \in [count : Nat, left : Int] /\ v15' \in Nat /\ v15' = v12'.count
    BY AutCounts, <1>0, <1>1 DEF Aut!Check, Aut!ThrottleInv
  <2>2. v13' \in [Logins -> {"idle", "admitted"}]
    BY AutCounts, <1>1 DEF Aut!Check, Aut!ThrottleInv
  <2>3. CASE Aut!overLimit(v12'.count)
    <3>1. Aut!Admitted' = Aut!Admitted
      BY AutCounts, <1>1, <2>3 DEF Aut!Check, Aut!Admitted, Aut!ThrottleInv
    <3>2. v15' <= v15
      BY AutCounts, <1>1 DEF Aut!Check, Aut!ThrottleInv
    <3>3. v15' + Cardinality(Aut!Admitted') <= maxAttempts - 1 + Cardinality(Logins)
      BY AutCounts, <2>1, <3>1, <3>2, AdmittedFinite, AuthAssumption DEF Aut!ThrottleInv
    <3> QED
      BY AutCounts, <2>1, <2>2, <3>3 DEF Aut!ThrottleInv
  <2>4. CASE ~Aut!overLimit(v12'.count)
    <3>1. v15' <= maxAttempts - 1
      BY <2>1, <2>4, AuthAssumption DEF Aut!overLimit
    <3> QED
      BY AutCounts, <1>a, <2>1, <2>2, <3>1, AdmittedFinite, AuthAssumption DEF Aut!ThrottleInv
  <2> QED
    BY <2>3, <2>4
<1>2. ASSUME NEW l \in Logins, Aut!Hit(l) PROVE Aut!ThrottleInv'
  <2>1. v12' \in [count : Nat, left : Int] /\ v15' \in Nat /\ v15' = v12'.count
    <3>1. CASE Aut!isOver
      BY AutCounts, <1>2, <3>1, AuthAssumption DEF Aut!Hit, Aut!ThrottleInv, Aut!startWindow
    <3>2. CASE ~Aut!isOver
      BY AutCounts, <1>2, <3>2 DEF Aut!Hit, Aut!ThrottleInv
    <3> QED
      BY <3>1, <3>2
  <2>2. v13' \in [Logins -> {"idle", "admitted"}]
    BY AutCounts, <1>2 DEF Aut!Hit, Aut!ThrottleInv
  <2>3. l \in Aut!Admitted /\ Aut!Admitted' = Aut!Admitted \ {l}
    BY AutCounts, <1>2 DEF Aut!Hit, Aut!Admitted, Aut!ThrottleInv
  <2>4. Cardinality(Aut!Admitted') = Cardinality(Aut!Admitted) - 1
    BY AutCounts, <2>3, AdmittedFinite, FS_RemoveElement
  <2>5. v15' = 1 \/ v15' = v15 + 1
    BY <1>2 DEF Aut!Hit
  <2> QED
    BY AutCounts, <2>1, <2>2, <2>4, <2>5, AdmittedFinite, AuthAssumption DEF Aut!ThrottleInv
<1>3. ASSUME NEW l \in Logins, Aut!Clear(l) PROVE Aut!ThrottleInv'
  <2>1. v12' = Aut!NoWindow /\ v15' = 0 /\ v13' \in [Logins -> {"idle", "admitted"}]
    BY AutCounts, <1>3 DEF Aut!Clear, Aut!ThrottleInv
  <2> QED
    BY AutCounts, <1>0, <1>a, <2>1, AdmittedFinite, AuthAssumption DEF Aut!ThrottleInv
<1>4. CASE Aut!ThrottleTick
  BY AutCounts, <1>4 DEF Aut!ThrottleTick, Aut!ThrottleInv, Aut!Admitted
<1>5. CASE UNCHANGED Aut!throttleVars
  BY AutCounts, <1>5 DEF Aut!throttleVars, Aut!ThrottleInv, Aut!Admitted
<1> QED
  BY <1>1, <1>2, <1>3, <1>4, <1>5 DEF Aut!ThrottleNext

\* The invariant of the login throttle implies the properties.
LEMMA ThrottleSafe == Aut!ThrottleInv => Aut!GuessesBounded
BY AutCounts, AdmittedFinite, AuthAssumption DEF Aut!ThrottleInv, Aut!GuessesBounded

-----------------------------------------------------------------------------
(***************************************************************************)
(* Authz, the instance Az: its variables are v1 gate, v2 policy, v3 hooks, *)
(* v4 readers, v5 writes, v6 call.                                         *)
(***************************************************************************)

\* The invariant of gates and policies holds initially.
LEMMA AuthzStart == Az!Init => Az!Inv
<1> USE DEF Az!Unset, Az!Verdicts, Az!Resources
<1>1. Az!Nothing \in Az!Snapshots /\ Az!Nothing.policy = Az!Unset
  BY DEF Az!Nothing, Az!Snapshots
<1>2. Az!Idle \in [pc : {"idle", "waiting", "found", "answered", "panicked"}, user : {"admin", "guest"},
                           res : Az!Resources, seen : Az!Snapshots, answer : Az!Verdicts \cup {Az!Unset}]
  BY <1>1 DEF Az!Idle
<1>3. Az!Idle.seen = Az!Nothing /\ Az!Idle.pc = "idle"
  BY DEF Az!Idle
<1> SUFFICES ASSUME Az!Init PROVE Az!Inv
  OBVIOUS
<1>4. \A c \in Callers : v6[c] = Az!Idle
  BY DEF Az!Init
<1>5. Az!TypeOK
  BY <1>2 DEF Az!Init, Az!TypeOK
<1>6. Az!SeenTogether /\ Az!StuckNeedsPanic
  BY <1>1, <1>3, <1>4 DEF Az!Init, Az!SeenTogether, Az!StuckNeedsPanic, Az!Waiting
<1> QED
  BY <1>5, <1>6 DEF Az!Inv

\* Every step of gates and policies preserves the invariant.
LEMMA AuthzStep == Az!Inv /\ [Az!Next]_Az!azVars => Az!Inv'
<1> SUFFICES ASSUME Az!Inv, [Az!Next]_Az!azVars PROVE Az!Inv'
  OBVIOUS
<1> DEFINE Call == [pc : {"idle", "waiting", "found", "answered", "panicked"}, user : {"admin", "guest"},
                           res : Az!Resources, seen : Az!Snapshots, answer : Az!Verdicts \cup {Az!Unset}]
<1>0. /\ Az!Idle \in Call /\ Az!Idle.seen \in Az!Snapshots /\ Az!Idle.seen.policy = Az!Unset /\ Az!Idle.pc = "idle"
      /\ v6 \in [Callers -> Call]
  <2>1. Az!Nothing \in Az!Snapshots /\ Az!Nothing.policy = Az!Unset
    BY DEF Az!Nothing, Az!Snapshots, Az!Unset
  <2>2. Az!Idle \in Call
    BY <2>1 DEF Az!Idle, Az!Unset, Az!Resources
  <2>3. Az!Idle.seen = Az!Nothing /\ Az!Idle.pc = "idle"
    BY DEF Az!Idle
  <2> QED
    BY <2>1, <2>2, <2>3 DEF Az!Inv, Az!TypeOK
<1>1. ASSUME NEW c \in Callers, Az!Register(c) PROVE Az!Inv'
  <2>1. CASE v4 = {} /\ v6' = v6
    <3>1. Az!TypeOK'
      <4>1. v1' \in {Az!Unset, "yes", "no"} /\ v2' \in Az!Verdicts \cup {Az!Unset} /\ v4' \subseteq Callers /\ v5' \in Nat
        BY <1>1, <2>1 DEF Az!Register, Az!Inv, Az!TypeOK
      <4>2. v3' \in BOOLEAN
        BY <1>1, <2>1, Zenon DEF Az!Register, Az!Inv, Az!TypeOK
      <4> QED
        BY <1>0, <2>1, <4>1, <4>2 DEF Az!TypeOK
    <3>2. Az!SeenTogether'
      BY <2>1 DEF Az!Inv, Az!SeenTogether
    <3>3. Az!StuckNeedsPanic'
      BY <1>1, <2>1 DEF Az!Register, Az!Inv, Az!StuckNeedsPanic, Az!Waiting
    <3> QED
      BY <3>1, <3>2, <3>3 DEF Az!Inv
  <2>2. CASE v4 # {} /\ v6' = [v6 EXCEPT ![c].pc = "waiting"] /\ UNCHANGED <<v1, v2, v3>>
    <3>1. v6' \in [Callers -> Call]
      BY <1>0, <2>2
    <3>2. \A x \in Callers : /\ v6'[x].seen = v6[x].seen /\ v6'[x].res = v6[x].res /\ v6'[x].user = v6[x].user
                             /\ v6'[x].answer = v6[x].answer /\ (v6'[x].pc = "answered" => v6[x].pc = "answered")
      BY <1>0, <2>2
    <3>3. Az!SeenTogether'
      BY <3>2 DEF Az!Inv, Az!SeenTogether
    <3> QED
      BY <1>1, <2>2, <3>1, <3>3 DEF Az!Register, Az!Inv, Az!TypeOK, Az!StuckNeedsPanic, Az!Waiting
  <2> QED
    BY <1>1, <2>1, <2>2 DEF Az!Register
<1>2. ASSUME NEW c \in Callers, Az!answer(c) PROVE Az!Inv'
  <2>1. v6[c] \in Call /\ v6[c].seen \in Az!Snapshots
    BY <1>0 DEF Az!Snapshots
  <2>2. Az!Allows(v6[c].user, v6[c].res, v6[c].seen) \in Az!Verdicts
    BY <2>1 DEF Az!Allows, Az!callGate, Az!Snapshots, Az!Verdicts, Az!Unset
  <2>3. v6' \in [Callers -> Call]
    BY <1>0, <1>2, <2>2, ZenonT(30) DEF Az!answer
  <2>4. \A x \in Callers : /\ v6'[x].seen = v6[x].seen /\ v6'[x].res = v6[x].res /\ v6'[x].user = v6[x].user
                           /\ (x # c => v6'[x] = v6[x])
                           /\ (v6'[x].pc = "waiting" => v6[x].pc = "waiting")
    BY <1>0, <1>2 DEF Az!answer
  <2>5. v6'[c].answer = Az!Allows(v6[c].user, v6[c].res, v6[c].seen)
    BY <1>0, <1>2 DEF Az!answer
  <2>6. Az!SeenTogether'
    BY <2>4, <2>5 DEF Az!Inv, Az!SeenTogether
  <2> QED
    BY <1>2, <2>3, <2>4, <2>6 DEF Az!answer, Az!Inv, Az!TypeOK, Az!StuckNeedsPanic, Az!Waiting
<1>3. ASSUME NEW c \in Callers, Az!return(c) PROVE Az!Inv'
  <2>1. v6' \in [Callers -> Call]
    BY <1>0, <1>3 DEF Az!return
  <2> QED
    BY <1>0, <1>3, <2>1 DEF Az!return, Az!Inv, Az!TypeOK, Az!SeenTogether, Az!StuckNeedsPanic, Az!Waiting
<1>4. ASSUME NEW c \in Callers, NEW user \in {"admin", "guest"}, NEW res \in Az!Resources, Az!lookup(c, user, res) PROVE Az!Inv'
  <2> DEFINE panics == v1 = Az!Unset /\ res = "nilPointer" /\ v2 # Az!Unset
             s == [gate |-> v1, hooks |-> v3, policy |-> IF v1 = Az!Unset THEN Az!policyFor(res) ELSE Az!Unset]
             k == [pc |-> IF panics THEN "panicked" ELSE "found", user |-> user, res |-> res, answer |-> Az!Unset, seen |-> s]
  <2>1. s \in Az!Snapshots /\ (s.policy # Az!Unset => res \in {"value", "pointer"} /\ s.gate = Az!Unset)
    BY DEF Az!Inv, Az!TypeOK, Az!Snapshots, Az!policyFor
  <2> HIDE DEF s
  <2>2. k \in Call /\ k.seen = s /\ k.res = res /\ k.pc \notin {"answered", "waiting"}
    BY <2>1 DEF Az!Verdicts
  <2> HIDE DEF k
  <2>3. v6' = [v6 EXCEPT ![c] = k]
    BY <1>4 DEF Az!lookup, k, s
  <2>4. v6' \in [Callers -> Call]
    BY <1>0, <2>2, <2>3
  <2>5. /\ v6'[c] = k /\ \A x \in Callers : x # c => v6'[x] = v6[x]
    BY <1>0, <2>3
  <2>6. Az!SeenTogether'
    BY <2>1, <2>2, <2>5 DEF Az!Inv, Az!SeenTogether
  <2>7. Az!StuckNeedsPanic'
    BY <1>4, <2>2, <2>5 DEF Az!lookup, Az!runlock, Az!Inv, Az!StuckNeedsPanic, Az!Waiting
  <2> QED
    BY <1>4, <2>4, <2>6, <2>7 DEF Az!lookup, Az!runlock, Az!Inv, Az!TypeOK
<1>5. CASE UNCHANGED Az!azVars
  BY <1>5 DEF Az!azVars, Az!Inv, Az!TypeOK, Az!SeenTogether, Az!StuckNeedsPanic, Az!Waiting
<1> QED
  BY <1>1, <1>2, <1>3, <1>4, <1>5 DEF Az!Next

\* The invariant of gates and policies implies the properties.
LEMMA AuthzSafe == Az!Inv => Az!AllowedByOneMoment /\ Az!StuckNeedsPanic
<1> SUFFICES ASSUME Az!Inv, NEW c \in Callers, v6[c].pc = "answered" /\ ~Az!Denies(v6[c].answer)
             PROVE  LET k == v6[c] IN
                      \/ k.seen.hooks /\ k.user = "admin"
                      \/ k.seen.gate = "yes" /\ k.res \in {"none", "value"}
                      \/ k.seen.gate = Az!Unset /\ k.seen.policy = "yes" /\ k.res \in {"value", "pointer"}
  BY DEF Az!Inv, Az!AllowedByOneMoment
<1>1. v6[c].seen \in Az!Snapshots /\ v6[c].seen.hooks \in BOOLEAN
  BY DEF Az!Inv, Az!TypeOK, Az!Snapshots
<1>2. v6[c].answer = "yes" /\ v6[c].answer = Az!Allows(v6[c].user, v6[c].res, v6[c].seen)
  BY DEF Az!Denies, Az!Inv, Az!SeenTogether
<1>3. v6[c].seen.policy # Az!Unset => v6[c].res \in {"value", "pointer"} /\ v6[c].seen.gate = Az!Unset
  BY DEF Az!Inv, Az!SeenTogether
<1> QED
  BY <1>1, <1>2, <1>3 DEF Az!Allows, Az!callGate, Az!Unset

-----------------------------------------------------------------------------
(***************************************************************************)
(* Transport, the instance Tr: its variables are v1 owner, v2 header, v3   *)
(* wrote, v4 call, v5 open, v6 groups, v7 routes, v8 program, v9 req, v10  *)
(* run, v11 server, v12 drained, v13 rpc.                                  *)
(***************************************************************************)

\* The invariant of the http client holds initially.
LEMMA ClientStart == Tr!ClientInit => Tr!ClientInv
<1> SUFFICES ASSUME Tr!ClientInit PROVE Tr!ClientInv
  OBVIOUS
<1>1. Tr!NoCall \in Tr!Dos /\ Tr!NoCall.attempt = 0 /\ Tr!NoCall.retries = 0 /\ DOMAIN Tr!NoCall.sent = {}
  BY DEF Tr!NoCall, Tr!Dos
<1> QED
  BY <1>1, ClientAssumption DEF Tr!ClientInit, Tr!ClientInv, Tr!DoOK

\* A step of one client's Do that leaves the clones alone and its own open body accounted for.
LEMMA ClientDoes ==
  ASSUME Tr!ClientInv, NEW c \in Clients, NEW k \in Tr!Dos, Tr!DoOK(k), v4' = [v4 EXCEPT ![c] = k], UNCHANGED <<v1, v2, v3>>,
         v5' \subseteq Clients \X Nat,
         \A i \in Nat : <<c, i>> \in v5' => k.pc = "read" /\ i = k.attempt,
         \A d \in Clients, i \in Nat : d # c /\ <<d, i>> \in v5' => <<d, i>> \in v5
  PROVE  Tr!ClientInv'
<1>1. v4' \in [Clients -> Tr!Dos] /\ v4'[c] = k /\ \A d \in Clients : d # c => v4'[d] = v4[d]
  BY DEF Tr!ClientInv
<1>2. \A d \in Clients : Tr!DoOK(v4'[d])
  BY <1>1 DEF Tr!ClientInv
<1>3. \A d \in Clients, i \in Nat : <<d, i>> \in v5' => v4'[d].pc = "read" /\ i = v4'[d].attempt
  BY <1>1 DEF Tr!ClientInv
<1> QED
  BY <1>1, <1>2, <1>3 DEF Tr!ClientInv

\* One more attempt of Do sends the body the first attempt sent.
LEMMA ClientSent ==
  ASSUME Tr!ClientInv, NEW c \in Clients, v4[c].pc = "send"
  PROVE  \E n \in Seq(BOOLEAN) :
           /\ Tr!Sent(c) = [v4[c] EXCEPT !.attempt = v4[c].attempt + 1, !.sent = n]
           /\ \A i \in DOMAIN n : n[i] = v4[c].data
<1>1. PICK k \in Tr!Dos : k = v4[c]
  BY DEF Tr!ClientInv
<1>2. k.sent \in Seq(BOOLEAN) /\ k.data \in BOOLEAN /\ \A i \in DOMAIN k.sent : k.sent[i] = k.data
  BY <1>1 DEF Tr!Dos, Tr!ClientInv, Tr!DoOK
<1>3. PICK n : n = Append(k.sent, k.data)
  OBVIOUS
<1>4. n \in Seq(BOOLEAN) /\ \A i \in DOMAIN n : n[i] = k.data
  BY <1>2, <1>3, AppendProperties
<1>5. Tr!Sent(c) = [k EXCEPT !.attempt = k.attempt + 1, !.sent = n]
  BY <1>1, <1>3 DEF Tr!Sent, Tr!reader
<1> QED
  BY <1>1, <1>4, <1>5

\* Every step of the http client preserves the invariant.
LEMMA ClientStep == Tr!ClientInv /\ [Tr!ClientNext]_Tr!hcVars => Tr!ClientInv'
<1> SUFFICES ASSUME Tr!ClientInv, [Tr!ClientNext]_Tr!hcVars PROVE Tr!ClientInv'
  OBVIOUS
<1>1. ASSUME NEW c \in Clients, Tr!Header(c) PROVE Tr!ClientInv'
  <2>1. c # Tr!Base
    BY ClientAssumption
  <2>2. v2' = [v2 EXCEPT ![c] = {c}] /\ v1' = [v1 EXCEPT ![c] = c] /\ v3' = [v3 EXCEPT ![c] = {c}]
        /\ UNCHANGED <<v4, v5>>
    BY <1>1 DEF Tr!Header, Tr!cloneMap, Tr!ClientInv
  <2> QED
    BY <2>1, <2>2 DEF Tr!ClientInv
<1>2. ASSUME NEW c \in Clients, NEW n \in 0 .. MaxRetries, NEW body \in BOOLEAN, Tr!Start(c, n, body) PROVE Tr!ClientInv'
  <2> DEFINE k == [Tr!NoCall EXCEPT !.pc = "send", !.retries = n, !.data = body]
  <2>0. n \in Nat
    BY ClientAssumption
  <2>1. k \in Tr!Dos /\ k.pc = "send" /\ k.attempt = 0 /\ k.retries = n /\ DOMAIN k.sent = {}
    <3>1. Tr!NoCall \in Tr!Dos /\ Tr!NoCall.attempt = 0 /\ DOMAIN Tr!NoCall.sent = {}
      BY DEF Tr!NoCall, Tr!Dos
    <3> QED
      BY <2>0, <3>1 DEF Tr!Dos
  <2>2. v4' = [v4 EXCEPT ![c] = k] /\ UNCHANGED <<v1, v2, v3, v5>> /\ v4[c].pc = "idle"
    BY <1>2 DEF Tr!Start
  <2> HIDE DEF k
  <2>3. Tr!DoOK(k)
    BY <2>1 DEF Tr!DoOK
  <2>4. \A i \in Nat : <<c, i>> \notin v5
    BY <2>2 DEF Tr!ClientInv
  <2>5. v5 \subseteq Clients \X Nat
    BY DEF Tr!ClientInv
  <2> QED
    BY <2>1, <2>2, <2>3, <2>4, <2>5, ClientDoes
<1>3. ASSUME NEW c \in Clients, Tr!Fails(c) PROVE Tr!ClientInv'
  <2>1. PICK k0 \in Tr!Dos : k0 = v4[c] /\ Tr!DoOK(k0) /\ k0.pc = "send"
    BY <1>3 DEF Tr!ClientInv, Tr!Fails
  <2>2. PICK n \in Seq(BOOLEAN) : /\ Tr!Sent(c) = [k0 EXCEPT !.attempt = k0.attempt + 1, !.sent = n]
                                  /\ \A i \in DOMAIN n : n[i] = k0.data
    BY <2>1, ClientSent, ZenonT(30)
  <2> DEFINE a == k0.attempt + 1  k == [k0 EXCEPT !.attempt = a, !.sent = n, !.lastErr = "transport", !.pc = "wait"]
  <2>3. a \in Nat /\ a <= k0.retries + 1
    BY <2>1 DEF Tr!Dos, Tr!DoOK
  <2>4. v4' = [v4 EXCEPT ![c] = k] /\ UNCHANGED <<v1, v2, v3, v5>>
    BY <1>3, <2>2 DEF Tr!Fails, Tr!Dos
  <2> HIDE DEF a
  <2>5. k \in Tr!Dos /\ k.pc = "wait" /\ k.attempt = a /\ k.retries = k0.retries /\ k.sent = n /\ k.data = k0.data
    BY <2>3 DEF Tr!Dos
  <2> HIDE DEF k
  <2>6. Tr!DoOK(k)
    BY <2>2, <2>3, <2>5 DEF Tr!DoOK
  <2>7. \A i \in Nat : <<c, i>> \notin v5
    BY <2>1 DEF Tr!ClientInv
  <2>8. v5 \subseteq Clients \X Nat
    BY DEF Tr!ClientInv
  <2> QED
    BY <2>4, <2>5, <2>6, <2>7, <2>8, ClientDoes
<1>4. ASSUME NEW c \in Clients, NEW status \in {200, 404, 429, 500}, Tr!Answers(c, status) PROVE Tr!ClientInv'
  <2>1. PICK k0 \in Tr!Dos : k0 = v4[c] /\ Tr!DoOK(k0) /\ k0.pc = "send"
    BY <1>4 DEF Tr!ClientInv, Tr!Answers
  <2>0. v4[c].pc = "send"
    BY <1>4 DEF Tr!Answers
  <2>s. PICK n \in Seq(BOOLEAN) : /\ Tr!Sent(c) = [v4[c] EXCEPT !.attempt = v4[c].attempt + 1, !.sent = n]
                                  /\ \A i \in DOMAIN n : n[i] = v4[c].data
    BY <2>0, ClientSent
  <2>2. /\ Tr!Sent(c) = [k0 EXCEPT !.attempt = k0.attempt + 1, !.sent = n]
        /\ \A i \in DOMAIN n : n[i] = k0.data
    BY <2>1, <2>s
  <2> DEFINE a == k0.attempt + 1
  <2>3. a \in Nat /\ a <= k0.retries + 1
    BY <2>1 DEF Tr!Dos, Tr!DoOK
  <2>4. \A i \in Nat : <<c, i>> \notin v5
    BY <2>1 DEF Tr!ClientInv
  <2>5. v5 \subseteq Clients \X Nat
    BY DEF Tr!ClientInv
  <2>6. CASE /\ v5' = (v5 \cup {<<c, v4[c].attempt + 1>>}) \ Tr!closed(c)
             /\ v4' = [v4 EXCEPT ![c] = [Tr!Sent(c) EXCEPT !.lastErr = "status", !.pc = "wait"]]
    <3> DEFINE k == [k0 EXCEPT !.attempt = a, !.sent = n, !.lastErr = "status", !.pc = "wait"]
    <3>1. v4' = [v4 EXCEPT ![c] = k] /\ UNCHANGED <<v1, v2, v3>>
      BY <1>4, <2>2, <2>6 DEF Tr!Answers, Tr!Dos
    <3>2. v5' = v5
      BY <2>1, <2>3, <2>4, <2>6 DEF Tr!closed
    <3> HIDE DEF a
    <3>3. k \in Tr!Dos /\ k.pc = "wait" /\ k.attempt = a /\ k.retries = k0.retries /\ k.sent = n /\ k.data = k0.data
      BY <2>3 DEF Tr!Dos
    <3> HIDE DEF k
    <3>4. Tr!DoOK(k)
      BY <2>2, <2>3, <3>3 DEF Tr!DoOK
    <3>5. v5' \subseteq Clients \X Nat
      BY <2>5, <3>2
    <3>6. \A i \in Nat : <<c, i>> \in v5' => k.pc = "read" /\ i = k.attempt
      BY <2>4, <3>2
    <3>7. \A d \in Clients, i \in Nat : d # c /\ <<d, i>> \in v5' => <<d, i>> \in v5
      BY <3>2
    <3> QED
      BY <3>1, <3>3, <3>4, <3>5, <3>6, <3>7, ClientDoes, ZenonT(30)
  <2>7. CASE /\ v5' = v5 \cup {<<c, v4[c].attempt + 1>>}
             /\ v4' = [v4 EXCEPT ![c] = [Tr!Sent(c) EXCEPT !.result = "answer", !.pc = "read"]]
    <3> DEFINE k == [k0 EXCEPT !.attempt = a, !.sent = n, !.result = "answer", !.pc = "read"]
    <3>1. v4' = [v4 EXCEPT ![c] = k] /\ UNCHANGED <<v1, v2, v3>>
      BY <1>4, <2>2, <2>7 DEF Tr!Answers, Tr!Dos
    <3>2. v5' = v5 \cup {<<c, a>>}
      BY <2>1, <2>7
    <3> HIDE DEF a
    <3>3. k \in Tr!Dos /\ k.pc = "read" /\ k.attempt = a /\ k.retries = k0.retries /\ k.sent = n /\ k.data = k0.data
      BY <2>3 DEF Tr!Dos
    <3> HIDE DEF k
    <3>4. Tr!DoOK(k)
      BY <2>2, <2>3, <3>3 DEF Tr!DoOK
    <3>5. v5' \subseteq Clients \X Nat
      BY <2>3, <2>5, <3>2
    <3>6. \A i \in Nat : <<c, i>> \in v5' => k.pc = "read" /\ i = k.attempt
      BY <2>4, <3>2, <3>3
    <3>7. \A d \in Clients, i \in Nat : d # c /\ <<d, i>> \in v5' => <<d, i>> \in v5
      BY <3>2
    <3> QED
      BY <3>1, <3>3, <3>4, <3>5, <3>6, <3>7, ClientDoes, ZenonT(30)
  <2> QED
    BY <1>4, <2>6, <2>7 DEF Tr!Answers
<1>5. ASSUME NEW c \in Clients, NEW n \in {0, MaxBody, MaxBody + 1}, Tr!readResponse(c, n) PROVE Tr!ClientInv'
  <2>1. PICK k0 \in Tr!Dos : k0 = v4[c] /\ Tr!DoOK(k0) /\ k0.pc = "read"
    BY <1>5 DEF Tr!ClientInv, Tr!readResponse
  <2>2. PICK r \in {"tooLarge", "answer"} : v4' = [v4 EXCEPT ![c].pc = "done", ![c].result = r]
    BY <1>5 DEF Tr!readResponse
  <2> DEFINE k == [k0 EXCEPT !.pc = "done", !.result = r]
  <2>3. v4' = [v4 EXCEPT ![c] = k]
    BY <2>1, <2>2 DEF Tr!ClientInv
  <2>4. k \in Tr!Dos /\ k.pc = "done" /\ k.attempt = k0.attempt /\ k.retries = k0.retries /\ k.sent = k0.sent /\ k.data = k0.data
    BY DEF Tr!Dos
  <2> HIDE DEF k
  <2>5. Tr!DoOK(k)
    BY <2>1, <2>4 DEF Tr!DoOK
  <2>6. v5' = v5 \ {<<c, k0.attempt>>} /\ UNCHANGED <<v1, v2, v3>>
    BY <1>5, <2>1 DEF Tr!readResponse
  <2>7. v5' \subseteq Clients \X Nat /\ \A i \in Nat : <<c, i>> \notin v5'
    BY <2>1, <2>6 DEF Tr!ClientInv
  <2> QED
    BY <2>3, <2>4, <2>5, <2>6, <2>7, ClientDoes
<1>6. ASSUME NEW c \in Clients, Tr!Backoff(c) PROVE Tr!ClientInv'
  <2>1. PICK k0 \in Tr!Dos : k0 = v4[c] /\ Tr!DoOK(k0) /\ k0.pc = "wait"
    BY <1>6 DEF Tr!ClientInv, Tr!Backoff
  <2>2. \A i \in Nat : <<c, i>> \notin v5
    BY <2>1 DEF Tr!ClientInv
  <2>3. v5 \subseteq Clients \X Nat /\ UNCHANGED <<v1, v2, v3, v5>>
    BY <1>6 DEF Tr!ClientInv, Tr!Backoff
  <2>4. CASE k0.attempt < k0.retries + 1 /\ v4' = [v4 EXCEPT ![c].pc = "send"]
    <3> DEFINE k == [k0 EXCEPT !.pc = "send"]
    <3>1. v4' = [v4 EXCEPT ![c] = k]
      BY <2>1, <2>4 DEF Tr!ClientInv
    <3>2. k \in Tr!Dos /\ k.pc = "send" /\ k.attempt = k0.attempt /\ k.retries = k0.retries /\ k.sent = k0.sent /\ k.data = k0.data
      BY DEF Tr!Dos
    <3> HIDE DEF k
    <3>3. k0.attempt \in Nat /\ k0.retries \in Nat
      BY DEF Tr!Dos
    <3>4. Tr!DoOK(k)
      BY <2>1, <2>4, <3>2, <3>3 DEF Tr!DoOK
    <3> QED
      BY <2>2, <2>3, <3>1, <3>2, <3>4, ClientDoes
  <2>5. ASSUME NEW r \in {"cancelled", "failed"}, v4' = [v4 EXCEPT ![c].pc = "done", ![c].result = r] PROVE Tr!ClientInv'
    <3> DEFINE k == [k0 EXCEPT !.pc = "done", !.result = r]
    <3>1. v4' = [v4 EXCEPT ![c] = k]
      BY <2>1, <2>5 DEF Tr!ClientInv
    <3>2. k \in Tr!Dos /\ k.pc = "done" /\ k.attempt = k0.attempt /\ k.retries = k0.retries /\ k.sent = k0.sent /\ k.data = k0.data
      BY DEF Tr!Dos
    <3> HIDE DEF k
    <3>4. Tr!DoOK(k)
      BY <2>1, <3>2 DEF Tr!DoOK
    <3> QED
      BY <2>2, <2>3, <3>1, <3>2, <3>4, ClientDoes
  <2> QED
    BY <1>6, <2>1, <2>4, <2>5 DEF Tr!Backoff, Tr!attempts
<1>7. CASE UNCHANGED Tr!hcVars
  BY <1>7 DEF Tr!hcVars, Tr!ClientInv
<1> QED
  BY <1>1, <1>2, <1>3, <1>4, <1>5, <1>6, <1>7 DEF Tr!ClientNext

\* The invariant of the http client implies the properties.
LEMMA ClientSafe == Tr!ClientInv => Tr!ClientsApart /\ Tr!BodiesClosed /\ Tr!WholeBodyEachTime
<1> SUFFICES ASSUME Tr!ClientInv PROVE Tr!ClientsApart /\ Tr!BodiesClosed /\ Tr!WholeBodyEachTime
  OBVIOUS
<1>1. Tr!ClientsApart
  BY DEF Tr!ClientInv, Tr!ClientsApart
<1>2. Tr!BodiesClosed
  BY ClientAssumption DEF Tr!ClientInv, Tr!BodiesClosed
<1>3. Tr!WholeBodyEachTime
  BY DEF Tr!ClientInv, Tr!DoOK, Tr!WholeBodyEachTime, Tr!attempts
<1> QED
  BY <1>1, <1>2, <1>3

Grown(s, x, t) == t = Append(s, x)
Those(s, what, from, to) == {k \in from .. to : s[k][1] = what}

\* The declarations of one kind between two places can be counted.
LEMMA CountIsNat ==
  ASSUME NEW s, NEW what, NEW from \in Nat, NEW to \in Nat
  PROVE  IsFiniteSet(Those(s, what, from, to)) /\ Tr!Count(s, what, from, to) \in Nat
<1>1. IsFiniteSet(from .. to)
  BY TrCounts, FS_Interval
<1>2. Those(s, what, from, to) \subseteq from .. to
  BY DEF Those
<1>3. IsFiniteSet(Those(s, what, from, to))
  BY TrCounts, <1>1, <1>2, FS_Subset
<1>4. Tr!Count(s, what, from, to) = Cardinality(Those(s, what, from, to))
  BY TrCounts DEF Tr!Count, Those
<1> QED
  BY TrCounts, <1>3, <1>4, FS_CardinalityType

\* A declaration does not change the counts before it.
LEMMA CountSame ==
  ASSUME NEW s \in Seq(Tr!Decls), NEW x \in Tr!Decls, NEW t, Grown(s, x, t), NEW n \in Nat, n = Len(s), NEW what, NEW p \in 1 .. n + 1,
         NEW k \in 0 .. n
  PROVE  Tr!Count(t, what, p, k) = Tr!Count(s, what, p, k)
<1>1. \A i \in 1 .. n : t[i] = s[i]
  BY AppendProperties DEF Grown
<1>2. Those(t, what, p, k) = Those(s, what, p, k)
  BY <1>1 DEF Those
<1> QED
  BY TrCounts, <1>2 DEF Tr!Count, Those

\* A declaration counts once, among those of its kind.
LEMMA CountAppend ==
  ASSUME NEW s \in Seq(Tr!Decls), NEW x \in Tr!Decls, NEW t, Grown(s, x, t), NEW n \in Nat, n = Len(s), NEW what, NEW p \in 1 .. n + 1
  PROVE  /\ x[1] = what => Tr!Count(t, what, p, n + 1) = Tr!Count(s, what, p, n) + 1
         /\ x[1] # what => Tr!Count(t, what, p, n + 1) = Tr!Count(s, what, p, n)
<1>1. \A k \in 1 .. n : t[k] = s[k]
  BY AppendProperties DEF Grown
<1>2. t[n + 1] = x
  BY AppendProperties DEF Grown
<1>4. IsFiniteSet(Those(s, what, p, n))
  BY CountIsNat
<1>5. n + 1 \notin Those(s, what, p, n)
  BY DEF Those
<1>6. CASE x[1] = what
  <2>1. Those(t, what, p, n + 1) = Those(s, what, p, n) \cup {n + 1}
    BY <1>1, <1>2, <1>6 DEF Those
  <2>2. Cardinality(Those(t, what, p, n + 1)) = Cardinality(Those(s, what, p, n)) + 1
    BY TrCounts, <1>4, <1>5, <2>1, FS_AddElement
  <2> QED
    BY TrCounts, <1>6, <2>2 DEF Tr!Count, Those
<1>7. CASE x[1] # what
  <2>1. Those(t, what, p, n + 1) = Those(s, what, p, n)
    BY <1>1, <1>2, <1>7 DEF Those
  <2>2. Tr!Count(t, what, p, n + 1) = Tr!Count(s, what, p, n)
    BY TrCounts, <2>1 DEF Tr!Count, Those
  <2> QED
    BY <1>7, <2>2, CountIsNat
<1> QED
  BY <1>6, <1>7

\* What a program is after one more declaration.
LEMMA GrownIs ==
  ASSUME NEW s \in Seq(Tr!Decls), NEW x \in Tr!Decls, NEW t, Grown(s, x, t), NEW n \in Nat, n = Len(s)
  PROVE  t \in Seq(Tr!Decls) /\ Len(t) = n + 1 /\ (\A p \in 1 .. n : t[p] = s[p]) /\ t[n + 1] = x /\ DOMAIN s = 1 .. n /\ DOMAIN t = 1 .. n + 1
BY AppendProperties DEF Grown

\* The counts of groups and ends after one more declaration.
LEMMA GrownCounts ==
  ASSUME NEW s \in Seq(Tr!Decls), NEW x \in Tr!Decls, NEW t, Grown(s, x, t), NEW n \in Nat, n = Len(s), NEW p \in 1 .. n + 1, NEW what
  PROVE  /\ Tr!Count(s, what, p, n) \in Nat
         /\ Tr!Count(t, what, p, n + 1) = Tr!Count(s, what, p, n) + IF x[1] = what THEN 1 ELSE 0
<1>1. p \in Nat
  OBVIOUS
<1>2. Tr!Count(s, what, p, n) \in Nat
  BY <1>1, CountIsNat
<1>3. /\ x[1] = what => Tr!Count(t, what, p, n + 1) = Tr!Count(s, what, p, n) + 1
      /\ x[1] # what => Tr!Count(t, what, p, n + 1) = Tr!Count(s, what, p, n)
  BY CountAppend
<1> QED
  BY <1>2, <1>3

\* A declaration does not change what was in force, and how many routes there were, before it.
LEMMA GrownKeeps ==
  ASSUME NEW s \in Seq(Tr!Decls), NEW x \in Tr!Decls, NEW t, Grown(s, x, t), NEW n \in Nat, n = Len(s), NEW p \in 1 .. n, NEW q \in 1 .. n
  PROVE  (Tr!Stays(t, p, q) <=> Tr!Stays(s, p, q)) /\ Tr!Count(t, "add", 1, q) = Tr!Count(s, "add", 1, q)
<1>1. p \in 1 .. n + 1 /\ 1 \in 1 .. n + 1 /\ q \in 0 .. n /\ \A k \in p .. q : k \in 0 .. n
  OBVIOUS
<1>2. ASSUME NEW k \in p .. q, NEW what PROVE Tr!Count(t, what, p, k) = Tr!Count(s, what, p, k)
  BY <1>1, CountSame
<1>3. Tr!Count(t, "add", 1, q) = Tr!Count(s, "add", 1, q)
  BY <1>1, CountSame
<1> QED
  BY <1>2, <1>3 DEF Tr!Stays

\* The groups open since a declaration, after one more.
LEMMA GrownOpened ==
  ASSUME NEW s \in Seq(Tr!Decls), NEW x \in Tr!Decls, NEW t, Grown(s, x, t), NEW n \in Nat, n = Len(s), NEW p \in 1 .. n
  PROVE  /\ Tr!Opened(s, p) \in Int
         /\ Tr!Stays(s, p, n) => Tr!Opened(s, p) >= 0
         /\ x[1] = "group" => Tr!Opened(t, p) = Tr!Opened(s, p) + 1
         /\ x[1] = "end" => Tr!Opened(t, p) = Tr!Opened(s, p) - 1
         /\ x[1] \notin {"group", "end"} => Tr!Opened(t, p) = Tr!Opened(s, p)
         /\ Tr!Stays(t, p, n + 1) => Tr!Stays(s, p, n) /\ Tr!Opened(t, p) >= 0
<1>0. p \in 1 .. n + 1 /\ n \in p .. n /\ n + 1 \in p .. n + 1
  OBVIOUS
<1>1. PICK g \in Nat, e \in Nat : g = Tr!Count(s, "group", p, n) /\ e = Tr!Count(s, "end", p, n)
  BY <1>0, GrownCounts
<1>2. Tr!Opened(s, p) = g - e
  BY <1>1 DEF Tr!Opened
<1>3. PICK g2 \in Nat : g2 = Tr!Count(t, "group", p, n + 1) /\ g2 = g + IF x[1] = "group" THEN 1 ELSE 0
  BY <1>0, <1>1, GrownCounts
<1>4. PICK e2 \in Nat : e2 = Tr!Count(t, "end", p, n + 1) /\ e2 = e + IF x[1] = "end" THEN 1 ELSE 0
  BY <1>0, <1>1, GrownCounts
<1>5. Tr!Opened(t, p) = g2 - e2
  <2>1. Len(t) = n + 1
    BY GrownIs
  <2> QED
    BY <1>3, <1>4, <2>1 DEF Tr!Opened
<1>6. Tr!Stays(s, p, n) => g >= e
  BY <1>0, <1>1 DEF Tr!Stays
<1>7. Tr!Stays(t, p, n + 1) => g2 >= e2
  BY <1>0, <1>3, <1>4 DEF Tr!Stays
<1>8. Tr!Stays(t, p, n + 1) => Tr!Stays(s, p, n)
  <2>1. \A k \in p .. n : k \in 0 .. n /\ k \in p .. n + 1
    OBVIOUS
  <2>2. ASSUME NEW k \in p .. n, NEW what PROVE Tr!Count(t, what, p, k) = Tr!Count(s, what, p, k)
    BY <1>0, <2>1, CountSame
  <2> QED
    BY <2>1, <2>2 DEF Tr!Stays
<1> QED
  BY <1>2, <1>3, <1>4, <1>5, <1>6, <1>7, <1>8, SMTT(30)

\* A declaration that opens or closes no group has no group open since.
LEMMA GrownFresh ==
  ASSUME NEW s \in Seq(Tr!Decls), NEW x \in Tr!Decls, NEW t, Grown(s, x, t), NEW n \in Nat, n = Len(s), x[1] \notin {"group", "end"}
  PROVE  Tr!Opened(t, n + 1) = 0
<1>1. ASSUME NEW what PROVE Tr!Count(s, what, n + 1, n) = 0
  <2>1. Those(s, what, n + 1, n) = {}
    BY DEF Those
  <2> QED
    BY TrCounts, <2>1, FS_EmptySet DEF Tr!Count, Those
<1>2. n + 1 \in 1 .. n + 1
  OBVIOUS
<1>3. Tr!Count(t, "group", n + 1, n + 1) = 0 /\ Tr!Count(t, "end", n + 1, n + 1) = 0
  BY <1>1, <1>2, GrownCounts
<1>4. Len(t) = n + 1
  BY GrownIs
<1> QED
  BY <1>3, <1>4 DEF Tr!Opened

Same(r, s) == /\ s \in Tr!Reqs /\ s.pc = r.pc /\ s.route = r.route /\ s.depth = r.depth /\ s.method = r.method /\ s.bad = r.bad
              /\ s.calls = r.calls /\ s.ran = r.ran /\ s.end = r.end

\* writeHeader writes the status once.
LEMMA HeaderWritten ==
  ASSUME NEW r \in Tr!Reqs, NEW code \in Nat
  PROVE  LET s == Tr!writeHeader(r, code) IN
         /\ Same(r, s) /\ s.bodies = r.bodies /\ s.bodyWritten = r.bodyWritten /\ s.statusWritten
         /\ r.statusWritten => s = r
         /\ ~r.statusWritten => s.headers = r.headers + 1 /\ s.status = IF r.pending # 0 THEN r.pending ELSE code
<1>1. CASE r.statusWritten
  BY <1>1 DEF Tr!writeHeader, Same
<1>2. CASE ~r.statusWritten
  <2>1. PICK st \in Nat : st = IF r.pending # 0 THEN r.pending ELSE code
    BY DEF Tr!Reqs
  <2>2. PICK h \in Nat : h = r.headers + 1
    BY DEF Tr!Reqs
  <2> DEFINE s == [r EXCEPT !.status = st, !.headers = h, !.statusWritten = TRUE]
  <2>3. Tr!writeHeader(r, code) = s
    BY <1>2, <2>1, <2>2 DEF Tr!writeHeader
  <2>4. s \in Tr!Reqs /\ s.status = st /\ s.headers = h /\ s.statusWritten
    BY DEF Tr!Reqs
  <2>5. Same(r, s) /\ s.bodies = r.bodies /\ s.bodyWritten = r.bodyWritten
    BY <2>4 DEF Same, Tr!Reqs
  <2> HIDE DEF s
  <2> QED
    BY <1>2, <2>1, <2>2, <2>3, <2>4, <2>5
<1> QED
  BY <1>1, <1>2

\* JSON writes one status and one body, or nothing after a body.
LEMMA JSONWritten ==
  ASSUME NEW r \in Tr!Reqs, Tr!Written(r), NEW code \in Nat, code # 204, NEW body \in {"error", "value"}
  PROVE  LET s == Tr!JSON(r, code, body) IN
         /\ Same(r, s) /\ Tr!Written(s) /\ s.bodyWritten /\ s.statusWritten
         /\ r.bodyWritten => s = r
         /\ ~r.bodyWritten => s.bodies = <<body>> /\ (~r.statusWritten /\ r.pending = 0 => s.status = code)
<1>1. CASE r.bodyWritten
  BY <1>1 DEF Tr!JSON, Same, Tr!Written
<1>2. CASE ~r.bodyWritten
  <2>1. PICK h : h = Tr!writeHeader(r, code)
    OBVIOUS
  <2>2. /\ Same(r, h) /\ h.bodies = r.bodies /\ h.bodyWritten = r.bodyWritten /\ h.statusWritten
        /\ r.statusWritten => h = r
        /\ ~r.statusWritten => h.headers = r.headers + 1 /\ h.status = IF r.pending # 0 THEN r.pending ELSE code
    BY <2>1, HeaderWritten
  <2>3. h \in Tr!Reqs /\ h.bodies = <<>> /\ h.headers = 1 /\ h.status # 204
    <3>1. r.pending # 204
      BY DEF Tr!Reqs
    <3> QED
      BY <1>2, <2>2, <3>1 DEF Same, Tr!Written
  <2>4. PICK b \in Seq({"error", "value", "redirect"}) : b = <<body>> /\ Len(b) = 1
    <3>1. <<body>> \in Seq({"error", "value", "redirect"}) /\ Len(<<body>>) = 1
      BY ShortSeqs
    <3> QED
      BY <3>1, Zenon
  <2> DEFINE s == [h EXCEPT !.bodies = b, !.bodyWritten = TRUE]
  <2>5. Tr!JSON(r, code, body) = s
    <3>1. Append(h.bodies, body) = b
      BY <2>3, <2>4
    <3> QED
      BY <1>2, <2>1, <3>1 DEF Tr!JSON
  <2>6. s \in Tr!Reqs /\ s.bodies = b /\ s.bodyWritten
    BY <2>3 DEF Tr!Reqs
  <2>7. Same(h, s) /\ s.headers = h.headers /\ s.status = h.status /\ s.statusWritten = h.statusWritten
    BY <2>3, <2>6 DEF Same, Tr!Reqs
  <2> HIDE DEF s
  <2>8. Same(r, s)
    BY <2>2, <2>7 DEF Same
  <2>9. Tr!Written(s)
    BY <2>2, <2>3, <2>4, <2>6, <2>7 DEF Tr!Written
  <2> QED
    BY <1>2, <2>2, <2>4, <2>5, <2>6, <2>7, <2>8, <2>9
<1> QED
  BY <1>1, <1>2

\* NoContent writes one status and no body.
LEMMA NothingWritten ==
  ASSUME NEW r \in Tr!Reqs, Tr!Written(r)
  PROVE  LET s == Tr!NoContent(r) IN Same(r, s) /\ Tr!Written(s) /\ s.bodyWritten /\ s.statusWritten
<1>1. PICK h : h = Tr!writeHeader(r, 204)
  OBVIOUS
<1>2. /\ Same(r, h) /\ h.bodies = r.bodies /\ h.bodyWritten = r.bodyWritten /\ h.statusWritten
      /\ r.statusWritten => h = r
      /\ ~r.statusWritten => h.headers = r.headers + 1 /\ h.status = IF r.pending # 0 THEN r.pending ELSE 204
  BY <1>1, HeaderWritten
<1>3. h \in Tr!Reqs /\ h.headers = 1 /\ Len(h.bodies) <= 1 /\ (h.status = 204 => h.bodies = <<>>)
  BY <1>2 DEF Same, Tr!Written
<1> DEFINE s == [h EXCEPT !.bodyWritten = TRUE]
<1>4. Tr!NoContent(r) = s
  BY <1>1 DEF Tr!NoContent
<1>5. s \in Tr!Reqs /\ s.bodyWritten
  BY <1>3 DEF Tr!Reqs
<1>6. Same(h, s) /\ s.headers = h.headers /\ s.status = h.status /\ s.statusWritten = h.statusWritten /\ s.bodies = h.bodies
  BY <1>3, <1>5 DEF Same, Tr!Reqs
<1> HIDE DEF s
<1>7. Same(r, s)
  BY <1>2, <1>6 DEF Same
<1>8. Tr!Written(s)
  BY <1>2, <1>3, <1>5, <1>6 DEF Tr!Written
<1> QED
  BY <1>2, <1>4, <1>5, <1>6, <1>7, <1>8

\* Redirect writes one status and one body.
LEMMA RedirectWritten ==
  ASSUME NEW r \in Tr!Reqs, Tr!Written(r), r.statusWritten => r.bodyWritten
  PROVE  LET s == Tr!Redirect(r) IN Same(r, s) /\ Tr!Written(s) /\ s.bodyWritten
<1>1. CASE r.bodyWritten
  BY <1>1 DEF Tr!Redirect, Same
<1>2. CASE ~r.bodyWritten
  <2>1. ~r.statusWritten /\ r.headers = 0 /\ r.bodies = <<>>
    BY <1>2 DEF Tr!Written
  <2>2. PICK b \in Seq({"error", "value", "redirect"}) : b = <<"redirect">> /\ Len(b) = 1
    BY ShortSeqs
  <2>0. PICK st \in Nat, h \in Nat : st = 302 /\ h = 1
    OBVIOUS
  <2> DEFINE s == [r EXCEPT !.bodies = b, !.status = st, !.headers = h, !.statusWritten = TRUE, !.bodyWritten = TRUE]
  <2>3. Tr!Redirect(r) = s
    <3>1. Append(r.bodies, "redirect") = b /\ r.headers + 1 = h
      BY <2>0, <2>1, <2>2
    <3> QED
      BY <1>2, <2>0, <2>1, <3>1 DEF Tr!Redirect
  <2>4. s \in Tr!Reqs /\ s.bodies = b /\ s.status = st /\ s.headers = h /\ s.statusWritten /\ s.bodyWritten
    BY DEF Tr!Reqs
  <2>5. Same(r, s)
    BY <2>4 DEF Same, Tr!Reqs
  <2> HIDE DEF s
  <2>6. Tr!Written(s)
    BY <2>0, <2>2, <2>4 DEF Tr!Written
  <2> QED
    BY <2>3, <2>4, <2>5, <2>6
<1> QED
  BY <1>1, <1>2

\* SSE writes one status, or nothing after a body.
LEMMA StreamWritten ==
  ASSUME NEW r \in Tr!Reqs, Tr!Written(r)
  PROVE  LET s == Tr!SSE(r) IN Same(r, s) /\ Tr!Written(s) /\ (s = r \/ s.bodyWritten)
<1>1. CASE r.statusWritten
  BY <1>1 DEF Tr!SSE, Same
<1>2. CASE ~r.statusWritten
  <2>1. PICK h : h = Tr!writeHeader(r, 200)
    OBVIOUS
  <2>2. /\ Same(r, h) /\ h.bodies = r.bodies /\ h.bodyWritten = r.bodyWritten /\ h.statusWritten
        /\ ~r.statusWritten => h.headers = r.headers + 1 /\ h.status = IF r.pending # 0 THEN r.pending ELSE 200
    BY <2>1, HeaderWritten
  <2>3. r.pending # 204
    BY DEF Tr!Reqs
  <2>4. h \in Tr!Reqs /\ h.headers = 1 /\ h.bodies = <<>> /\ h.status # 204
    BY <1>2, <2>2, <2>3 DEF Same, Tr!Written
  <2> DEFINE s == [h EXCEPT !.bodyWritten = TRUE]
  <2>5. Tr!SSE(r) = s
    BY <1>2, <2>1 DEF Tr!SSE
  <2>6. s \in Tr!Reqs /\ s.bodyWritten
    BY <2>4 DEF Tr!Reqs
  <2>7. Same(h, s) /\ s.headers = h.headers /\ s.status = h.status /\ s.statusWritten = h.statusWritten /\ s.bodies = h.bodies
    BY <2>4, <2>6 DEF Same, Tr!Reqs
  <2> HIDE DEF s
  <2>8. Same(r, s)
    BY <2>2, <2>7 DEF Same
  <2>9. Tr!Written(s)
    BY <2>2, <2>4, <2>6, <2>7 DEF Tr!Written
  <2> QED
    BY <2>5, <2>6, <2>8, <2>9
<1> QED
  BY <1>1, <1>2

\* respond: the handler's error is the one body, unless the handler has written one.
LEMMA RespondWritten ==
  ASSUME NEW r \in Tr!Reqs, Tr!Written(r), NEW value \in BOOLEAN, NEW err \in {"nil", "validation", "notFound", "other", "internal"}
  PROVE  LET s == Tr!respond(r, value, err) IN
         /\ Same(r, s) /\ Tr!Written(s) /\ s.statusWritten
         /\ r.bodyWritten => s = r
         /\ ~r.bodyWritten /\ err # "nil" => s.bodies = <<"error">> /\ (~r.statusWritten /\ r.pending = 0 => s.status = Tr!codeOf(err))
<1>1. PICK code \in {404, 422, 500} : code = Tr!codeOf(err)
  BY DEF Tr!codeOf
<1>2. CASE r.bodyWritten
  BY <1>2 DEF Tr!respond, Same, Tr!Written
<1>3. CASE ~r.bodyWritten /\ err # "nil"
  <2>1. Tr!respond(r, value, err) = Tr!JSON(r, code, "error")
    BY <1>1, <1>3 DEF Tr!respond
  <2> QED
    BY <1>1, <1>3, <2>1, JSONWritten
<1>4. CASE ~r.bodyWritten /\ err = "nil" /\ value
  <2>1. PICK ok \in Nat : ok = 200 /\ ok # 204
    OBVIOUS
  <2>2. PICK s : s = Tr!JSON(r, ok, "value")
    OBVIOUS
  <2>3. Same(r, s) /\ Tr!Written(s) /\ s.statusWritten
    BY <2>1, <2>2, JSONWritten
  <2>4. Tr!respond(r, value, err) = s
    BY <1>4, <2>1, <2>2 DEF Tr!respond
  <2>5. ~r.bodyWritten /\ err = "nil"
    BY <1>4
  <2> QED
    BY <2>3, <2>4, <2>5
<1>5. CASE ~r.bodyWritten /\ err = "nil" /\ ~value
  <2>1. Tr!respond(r, value, err) = IF r.statusWritten THEN r ELSE Tr!NoContent(r)
    BY <1>5 DEF Tr!respond
  <2>2. CASE r.statusWritten
    BY <1>5, <2>1, <2>2 DEF Same
  <2>3. CASE ~r.statusWritten
    BY <1>5, <2>1, <2>3, NothingWritten
  <2> QED
    BY <2>2, <2>3
<1> QED
  BY <1>2, <1>3, <1>4, <1>5

\* The invariant of router, middleware and Context holds initially.
LEMMA WebStart == Tr!WebInit => Tr!WebInv
<1> SUFFICES ASSUME Tr!WebInit PROVE Tr!WebInv
  OBVIOUS
<1>1. /\ Tr!NoRequest \in Tr!Reqs /\ Tr!NoRequest.pc = "idle" /\ ~Tr!NoRequest.ran /\ Tr!NoRequest.headers = 0 /\ Tr!NoRequest.status = 0
      /\ ~Tr!NoRequest.statusWritten /\ ~Tr!NoRequest.bodyWritten /\ Tr!NoRequest.bodies = <<>>
  BY DEF Tr!NoRequest, Tr!Reqs
<1>2. Tr!Written(v9) /\ Tr!Passed(v9) /\ Tr!Begun(v9) /\ Tr!Ended(v9) /\ v9 \in Tr!Reqs
  BY <1>1 DEF Tr!WebInit, Tr!Written, Tr!Passed, Tr!Begun, Tr!Ended
<1>3. v6 \in Seq(Seq(Tr!Middlewares)) /\ Len(v6) = 1 /\ v7 \in Seq(Seq(Tr!Middlewares)) /\ v8 \in Seq(Tr!Decls)
  <2>1. <<>> \in Seq(Tr!Middlewares)
    BY ShortSeqs
  <2> QED
    BY <2>1, ShortSeqs DEF Tr!WebInit
<1>4. Len(v8) = 0 /\ DOMAIN v8 = {} /\ DOMAIN v7 = {} /\ Len(v7) = 0
  BY DEF Tr!WebInit
<1>5. Tr!Count(v8, "add", 1, 0) = 0
  <2>1. Those(v8, "add", 1, 0) = {}
    BY DEF Those
  <2> QED
    BY TrCounts, <2>1, FS_EmptySet DEF Tr!Count, Those
<1> QED
  BY <1>2, <1>3, <1>4, <1>5 DEF Tr!WebInv, Tr!WebType, Tr!GroupsHold, Tr!RoutesHold

\* The invariant of router, middleware and Context implies the properties.
LEMMA WebSafe == Tr!WebInv => Tr!GuardsHold /\ Tr!OneAnswer /\ Tr!ErrorShown
<1> SUFFICES ASSUME Tr!WebInv PROVE Tr!GuardsHold /\ Tr!OneAnswer /\ Tr!ErrorShown
  OBVIOUS
<1>1. Tr!OneAnswer
  BY DEF Tr!WebInv, Tr!Written, Tr!Ended, Tr!OneAnswer
<1>2. Tr!ErrorShown
  BY DEF Tr!WebInv, Tr!Ended, Tr!ErrorShown
<1>3. Tr!GuardsHold
  <2> SUFFICES ASSUME v9.ran, NEW p \in DOMAIN v8, v8[p][1] = "use", Tr!InForce(p, Tr!RouteAt(v9.route)),
                      Tr!refused(v9, v8[p][2])
               PROVE  FALSE
    BY DEF Tr!GuardsHold
  <2>1. v9.route \in DOMAIN v7 /\ v9.depth = Len(v7[v9.route])
    BY DEF Tr!WebInv, Tr!Passed
  <2>2. PICK q : q = Tr!RouteAt(v9.route)
    OBVIOUS
  <2>3. q \in DOMAIN v8 /\ v8[q] = <<"add">> /\ Tr!Count(v8, "add", 1, q) = v9.route
    BY <2>1, <2>2 DEF Tr!WebInv, Tr!RoutesHold, Tr!RouteAt
  <2>4. v8[p][2] \in Tr!Elements(v7[v9.route])
    BY <2>1, <2>2, <2>3 DEF Tr!WebInv, Tr!RoutesHold
  <2>5. PICK c \in Seq(Tr!Middlewares) : c = v7[v9.route]
    BY <2>1 DEF Tr!WebInv, Tr!WebType
  <2>6. PICK k \in 1 .. Len(c) : c[k] = v8[p][2]
    BY <2>4, <2>5 DEF Tr!Elements
  <2>7. c[k] \in Guards
    BY <2>6 DEF Tr!refused, Tr!WebInv, Tr!WebType, Tr!Reqs
  <2> QED
    BY <2>1, <2>5, <2>6, <2>7 DEF Tr!WebInv, Tr!Passed
<1> QED
  BY <1>1, <1>2, <1>3

\* What a declaration x leaves as it was, and what it must establish.
LEMMA WebDeclares ==
  ASSUME Tr!WebInv, NEW x \in Tr!Decls, Tr!Declare(x), v6' \in Seq(Seq(Tr!Middlewares)), Len(v6') >= 1, v7' \in Seq(Seq(Tr!Middlewares)),
         Tr!GroupsHold', Tr!RoutesHold'
  PROVE  Tr!WebInv'
<1>1. v9' = Tr!NoRequest /\ v8' = Append(v8, x)
  BY DEF Tr!Declare
<1>2. v8' \in Seq(Tr!Decls)
  BY <1>1, AppendProperties DEF Tr!WebInv, Tr!WebType
<1>3. /\ Tr!NoRequest \in Tr!Reqs /\ Tr!NoRequest.pc = "idle" /\ ~Tr!NoRequest.ran /\ Tr!NoRequest.headers = 0 /\ Tr!NoRequest.status = 0
      /\ ~Tr!NoRequest.statusWritten /\ ~Tr!NoRequest.bodyWritten /\ Tr!NoRequest.bodies = <<>>
  BY DEF Tr!NoRequest, Tr!Reqs
<1>4. v9' \in Tr!Reqs /\ Tr!Written(v9') /\ Tr!Begun(v9') /\ Tr!Ended(v9')
  BY <1>1, <1>3 DEF Tr!Written, Tr!Begun, Tr!Ended
<1>5. Tr!Passed(v9)'
  BY <1>1, <1>3 DEF Tr!Passed
<1> QED
  BY <1>2, <1>4, <1>5 DEF Tr!WebInv, Tr!WebType

\* Of the books of the declarations, those a declaration other than a route does not touch.
LEMMA RoutesKept ==
  ASSUME Tr!WebInv, NEW x \in Tr!Decls, Tr!Declare(x), x[1] # "add", UNCHANGED v7
  PROVE  Tr!RoutesHold'
<1>1. PICK n \in Nat : n = Len(v8)
  BY DEF Tr!WebInv, Tr!WebType
<1>2. PICK s \in Seq(Tr!Decls) : s = v8
  BY DEF Tr!WebInv, Tr!WebType
<1>3. PICK t : t = v8' /\ Grown(s, x, t)
  BY <1>2 DEF Tr!Declare, Grown
<1>4. /\ t \in Seq(Tr!Decls) /\ Len(t) = n + 1 /\ (\A p \in 1 .. n : t[p] = s[p]) /\ t[n + 1] = x
  BY <1>1, <1>2, <1>3, GrownIs
<1>a. ASSUME NEW p \in 1 .. n, NEW q \in 1 .. n PROVE (Tr!Stays(t, p, q) <=> Tr!Stays(s, p, q)) /\ Tr!Count(t, "add", 1, q) = Tr!Count(s, "add", 1, q)
  BY <1>1, <1>2, <1>3, GrownKeeps
<1>b. Tr!Count(t, "add", 1, n + 1) = Tr!Count(s, "add", 1, n) + IF x[1] = "add" THEN 1 ELSE 0
  <2>1. 1 \in 1 .. n + 1
    OBVIOUS
  <2> QED
    BY <1>1, <1>2, <1>3, <2>1, GrownCounts
<1>5. Tr!Count(s, "add", 1, n) \in Nat
  BY CountIsNat
<1>6. DOMAIN s = 1 .. n /\ DOMAIN t = 1 .. n + 1 /\ x # <<"add">>
  BY <1>1, <1>2, <1>4
<1>7. Len(v7) = Tr!Count(t, "add", 1, Len(t))
  BY <1>1, <1>2, <1>4, <1>5, <1>b DEF Tr!WebInv, Tr!RoutesHold
<1>8. ASSUME NEW i \in DOMAIN v7 PROVE \E q \in DOMAIN t : t[q] = <<"add">> /\ Tr!Count(t, "add", 1, q) = i
  <2>1. PICK q \in DOMAIN s : s[q] = <<"add">> /\ Tr!Count(s, "add", 1, q) = i
    BY <1>2 DEF Tr!WebInv, Tr!RoutesHold
  <2>2. q \in DOMAIN t /\ t[q] = s[q] /\ Tr!Count(t, "add", 1, q) = Tr!Count(s, "add", 1, q)
    BY <1>4, <1>6, <1>a
  <2> QED
    BY <2>1, <2>2
<1>9. ASSUME NEW p \in DOMAIN t, NEW q \in DOMAIN t, t[q] = <<"add">>, t[p][1] = "use", p < q, Tr!Stays(t, p, q),
             NEW i \in DOMAIN v7, i = Tr!Count(t, "add", 1, q)
      PROVE  t[p][2] \in Tr!Elements(v7[i])
  <2>1. q \in 1 .. n /\ p \in 1 .. n
    BY <1>4, <1>6, <1>9
  <2>2. s[q] = <<"add">> /\ s[p] = t[p] /\ Tr!Stays(s, p, q) /\ i = Tr!Count(s, "add", 1, q)
    BY <1>4, <1>9, <1>a, <2>1
  <2>3. p \in DOMAIN v8 /\ q \in DOMAIN v8 /\ Tr!InForce(p, q)
    BY <1>2, <1>6, <1>9, <2>1, <2>2 DEF Tr!InForce
  <2> QED
    BY <1>2, <1>9, <2>2, <2>3 DEF Tr!WebInv, Tr!RoutesHold
<1>10. ASSUME NEW q \in DOMAIN t, t[q] = <<"add">> PROVE Tr!Count(t, "add", 1, q) \in DOMAIN v7
  <2>1. q \in 1 .. n
    BY <1>4, <1>6, <1>10
  <2>2. s[q] = <<"add">> /\ Tr!Count(t, "add", 1, q) = Tr!Count(s, "add", 1, q)
    BY <1>4, <1>10, <1>a, <2>1
  <2> QED
    BY <1>2, <1>6, <2>1, <2>2 DEF Tr!WebInv, Tr!RoutesHold
<1> QED
  BY <1>3, <1>7, <1>8, <1>9, <1>10 DEF Tr!RoutesHold, Tr!InForce

\* A guard in force before a declaration that is in force after it, and one that is new.
LEMMA GroupsKept ==
  ASSUME Tr!WebInv, NEW x \in Tr!Decls, Tr!Declare(x), NEW old \in Nat, old = Len(v6), NEW new \in Nat, new = Len(v6'),
         x[1] = "group" => new = old + 1 /\ v6'[new] = v6[old],
         x[1] = "end" => new = old - 1,
         x[1] \notin {"group", "end"} => new = old,
         \A d \in 1 .. old : d <= new => Tr!Elements(v6[d]) \subseteq Tr!Elements(v6'[d]),
         x[1] = "use" => new >= 1 /\ x[2] \in Tr!Elements(v6'[new])
  PROVE  Tr!GroupsHold'
<1>1. PICK n \in Nat : n = Len(v8)
  BY DEF Tr!WebInv, Tr!WebType
<1>2. PICK s \in Seq(Tr!Decls) : s = v8
  BY DEF Tr!WebInv, Tr!WebType
<1>3. PICK t : t = v8' /\ Grown(s, x, t)
  BY <1>2 DEF Tr!Declare, Grown
<1>4. t \in Seq(Tr!Decls) /\ Len(t) = n + 1 /\ (\A p \in 1 .. n : t[p] = s[p]) /\ t[n + 1] = x /\ DOMAIN s = 1 .. n /\ DOMAIN t = 1 .. n + 1
  BY <1>1, <1>2, <1>3, GrownIs
<1> SUFFICES ASSUME NEW p \in 1 .. n + 1, t[p][1] = "use", Tr!Stays(t, p, n + 1)
             PROVE  Tr!Opened(t, p) < new /\ \A d \in new - Tr!Opened(t, p) .. new : t[p][2] \in Tr!Elements(v6'[d])
  BY <1>3, <1>4 DEF Tr!GroupsHold
<1>5. CASE p = n + 1
  <2>1. x[1] = "use"
    BY <1>4, <1>5
  <2>2. Tr!Opened(t, p) = 0
    BY <1>1, <1>2, <1>3, <1>5, <2>1, GrownFresh
  <2> QED
    BY <1>4, <1>5, <2>1, <2>2
<1>6. CASE p \in 1 .. n
  <2>0. /\ Tr!Opened(s, p) \in Int
        /\ Tr!Stays(s, p, n) => Tr!Opened(s, p) >= 0
        /\ x[1] = "group" => Tr!Opened(t, p) = Tr!Opened(s, p) + 1
        /\ x[1] = "end" => Tr!Opened(t, p) = Tr!Opened(s, p) - 1
        /\ x[1] \notin {"group", "end"} => Tr!Opened(t, p) = Tr!Opened(s, p)
        /\ Tr!Stays(t, p, n + 1) => Tr!Stays(s, p, n) /\ Tr!Opened(t, p) >= 0
    <3>1. Grown(s, x, t) /\ n = Len(s) /\ p \in 1 .. n
      BY <1>1, <1>2, <1>3, <1>6
    <3> QED
      BY <1>1, <1>2, <3>1, GrownOpened, SMTT(60)
  <2>1. PICK e \in Int : e = Tr!Opened(s, p) /\ Tr!Stays(s, p, n) /\ e >= 0
    BY <2>0
  <2>2. PICK f \in Int : /\ f = Tr!Opened(t, p) /\ f >= 0
                         /\ x[1] = "group" => f = e + 1
                         /\ x[1] = "end" => f = e - 1
                         /\ x[1] \notin {"group", "end"} => f = e
    BY <2>0, <2>1
  <2>3. e < old /\ \A d \in old - e .. old : s[p][2] \in Tr!Elements(v6[d])
    BY <1>1, <1>2, <1>4, <1>6, <2>1, <1>3 DEF Tr!WebInv, Tr!GroupsHold
  <2>4. f < new /\ new - f = old - e
    <3>1. CASE x[1] = "group"
      <4>1. f = e + 1 /\ new = old + 1
        BY <2>2, <3>1
      <4> QED
        BY <2>3, <4>1
    <3>2. CASE x[1] = "end"
      <4>1. f = e - 1 /\ new = old - 1
        BY <2>2, <3>2
      <4> QED
        BY <2>3, <4>1
    <3>3. CASE x[1] \notin {"group", "end"}
      <4>1. f = e /\ new = old
        BY <2>2, <3>3
      <4> QED
        BY <2>3, <4>1
    <3> QED
      BY <3>1, <3>2, <3>3
  <2>5. ASSUME NEW d \in new - f .. new PROVE s[p][2] \in Tr!Elements(v6'[d])
    <3>1. CASE d <= old
      <4>1. d \in 1 .. old /\ d \in old - e .. old
        BY <2>1, <2>2, <2>3, <2>4, <3>1
      <4>2. d <= new
        BY <2>4, <2>5
      <4>3. Tr!Elements(v6[d]) \subseteq Tr!Elements(v6'[d])
        BY <4>1, <4>2
      <4> QED
        BY <2>3, <4>1, <4>3
    <3>2. CASE d > old
      <4>1. x[1] = "group" /\ d = new
        BY <2>4, <2>5, <3>2
      <4>2. old \in old - e .. old
        BY <2>1
      <4> QED
        BY <2>3, <4>1, <4>2
    <3> QED
      BY <2>4, <3>1, <3>2
  <2> QED
    BY <1>4, <1>6, <2>2, <2>4, <2>5
<1> QED
  BY <1>5, <1>6

\* Use: the middleware is in force for the declarations that follow in the group.
LEMMA WebUse == ASSUME Tr!WebInv, NEW m \in Tr!Middlewares, Tr!Use(m) PROVE Tr!WebInv'
<1> DEFINE x == <<"use", m>>
<1>1. x \in Tr!Decls /\ x[1] = "use" /\ x[2] = m
  BY DEF Tr!Decls
<1> HIDE DEF x
<1>2. Tr!Declare(x) /\ v6' = [v6 EXCEPT ![Len(v6)] = Append(@, m)] /\ UNCHANGED v7
  BY DEF Tr!Use, x
<1>3. PICK N \in Nat : N = Len(v6) /\ N >= 1 /\ N \in DOMAIN v6
  BY DEF Tr!WebInv, Tr!WebType
<1>4. PICK g \in Seq(Tr!Middlewares) : g = v6[N]
  BY <1>3 DEF Tr!WebInv, Tr!WebType
<1>5. PICK h \in Seq(Tr!Middlewares) : h = Append(g, m)
  BY AppendProperties
<1>6. v6' = [v6 EXCEPT ![N] = h] /\ v6 \in Seq(Seq(Tr!Middlewares))
  BY <1>2, <1>3, <1>4, <1>5 DEF Tr!WebInv, Tr!WebType
<1>7. v6' \in Seq(Seq(Tr!Middlewares)) /\ Len(v6') = N /\ v6'[N] = h /\ \A d \in 1 .. N : d # N => v6'[d] = v6[d]
  BY <1>3, <1>6, ExceptSeq
<1>8. Tr!Elements(g) \subseteq Tr!Elements(h) /\ m \in Tr!Elements(h)
  <2>1. Len(g) \in Nat /\ DOMAIN g = 1 .. Len(g) /\ DOMAIN h = 1 .. Len(g) + 1 /\ h[Len(g) + 1] = m /\ \A i \in 1 .. Len(g) : h[i] = g[i]
    BY <1>5
  <2> QED
    BY <2>1 DEF Tr!Elements
<1>9. \A d \in 1 .. N : d <= N => Tr!Elements(v6[d]) \subseteq Tr!Elements(v6'[d])
  BY <1>4, <1>7, <1>8
<1>10. Tr!GroupsHold'
  <2>1. N = Len(v6')
    BY <1>7
  <2>2. /\ x[1] = "group" => N = N + 1 /\ v6'[N] = v6[N]
        /\ x[1] = "end" => N = N - 1
        /\ x[1] \notin {"group", "end"} => N = N
        /\ x[1] = "use" => N >= 1 /\ x[2] \in Tr!Elements(v6'[N])
    BY <1>1, <1>3, <1>7, <1>8
  <2> QED
    BY <1>1, <1>2, <1>3, <1>9, <2>1, <2>2, GroupsKept
<1>11. Tr!RoutesHold'
  BY <1>1, <1>2, RoutesKept
<1>12. v7' \in Seq(Seq(Tr!Middlewares))
  BY <1>2 DEF Tr!WebInv, Tr!WebType
<1> QED
  BY <1>1, <1>2, <1>3, <1>7, <1>10, <1>11, <1>12, WebDeclares

\* Group: the new router starts with the middleware of the enclosing one.
LEMMA WebGroup == ASSUME Tr!WebInv, Tr!Group PROVE Tr!WebInv'
<1> DEFINE x == <<"group">>
<1>1. x \in Tr!Decls /\ x[1] = "group"
  BY DEF Tr!Decls
<1> HIDE DEF x
<1>2. Tr!Declare(x) /\ v6' = Append(v6, v6[Len(v6)]) /\ UNCHANGED v7
  BY DEF Tr!Group, Tr!inherited, x
<1>3. PICK N \in Nat : N = Len(v6) /\ N >= 1 /\ N \in DOMAIN v6
  BY DEF Tr!WebInv, Tr!WebType
<1>4. PICK g \in Seq(Tr!Middlewares) : g = v6[N]
  BY <1>3 DEF Tr!WebInv, Tr!WebType
<1>5. v6' = Append(v6, g) /\ v6 \in Seq(Seq(Tr!Middlewares))
  BY <1>2, <1>3, <1>4 DEF Tr!WebInv, Tr!WebType
<1>6. v6' \in Seq(Seq(Tr!Middlewares)) /\ Len(v6') = N + 1 /\ v6'[N + 1] = g /\ \A d \in 1 .. N : v6'[d] = v6[d]
  BY <1>3, <1>5, AppendProperties
<1>7. \A d \in 1 .. N : d <= N + 1 => Tr!Elements(v6[d]) \subseteq Tr!Elements(v6'[d])
  BY <1>6
<1>8. N + 1 \in Nat /\ N + 1 >= 1
  BY <1>3
<1>9. Tr!GroupsHold'
  <2>1. PICK M \in Nat : M = Len(v6') /\ M = N + 1
    BY <1>6, <1>8
  <2>2. /\ x[1] = "group" => M = N + 1 /\ v6'[M] = v6[N]
        /\ x[1] = "end" => M = N - 1
        /\ x[1] \notin {"group", "end"} => M = N
        /\ x[1] = "use" => M >= 1 /\ x[2] \in Tr!Elements(v6'[M])
    BY <1>1, <1>4, <1>6, <2>1
  <2>3. \A d \in 1 .. N : d <= M => Tr!Elements(v6[d]) \subseteq Tr!Elements(v6'[d])
    BY <1>7, <2>1
  <2> QED
    BY <1>1, <1>2, <1>3, <2>1, <2>2, <2>3, GroupsKept
<1>10. Tr!RoutesHold'
  BY <1>1, <1>2, RoutesKept
<1>11. v7' \in Seq(Seq(Tr!Middlewares))
  BY <1>2 DEF Tr!WebInv, Tr!WebType
<1> QED
  BY <1>1, <1>2, <1>6, <1>8, <1>9, <1>10, <1>11, WebDeclares

\* The end of a group: the middleware of the enclosing router is in force again.
LEMMA WebEndGroup == ASSUME Tr!WebInv, Tr!EndGroup PROVE Tr!WebInv'
<1> DEFINE x == <<"end">>
<1>1. x \in Tr!Decls /\ x[1] = "end"
  BY DEF Tr!Decls
<1> HIDE DEF x
<1>2. Tr!Declare(x) /\ v6' = SubSeq(v6, 1, Len(v6) - 1) /\ UNCHANGED v7 /\ Len(v6) > 1
  BY DEF Tr!EndGroup, x
<1>3. PICK N \in Nat : N = Len(v6) /\ N >= 2
  BY <1>2 DEF Tr!WebInv, Tr!WebType
<1>4. v6 \in Seq(Seq(Tr!Middlewares))
  BY DEF Tr!WebInv, Tr!WebType
<1>5. v6' \in Seq(Seq(Tr!Middlewares)) /\ Len(v6') = N - 1 /\ \A d \in 1 .. N - 1 : v6'[d] = v6[d]
  BY <1>2, <1>3, <1>4, SubSeqProperties
<1>6. \A d \in 1 .. N : d <= N - 1 => Tr!Elements(v6[d]) \subseteq Tr!Elements(v6'[d])
  BY <1>3, <1>5
<1>7. N - 1 \in Nat /\ N - 1 >= 1
  BY <1>3
<1>8. Tr!GroupsHold'
  <2>1. PICK M \in Nat : M = Len(v6') /\ M = N - 1
    BY <1>5, <1>7
  <2>2. /\ x[1] = "group" => M = N + 1 /\ v6'[M] = v6[N]
        /\ x[1] = "end" => M = N - 1
        /\ x[1] \notin {"group", "end"} => M = N
        /\ x[1] = "use" => M >= 1 /\ x[2] \in Tr!Elements(v6'[M])
    BY <1>1, <2>1
  <2>3. \A d \in 1 .. N : d <= M => Tr!Elements(v6[d]) \subseteq Tr!Elements(v6'[d])
    BY <1>6, <2>1
  <2> QED
    BY <1>1, <1>2, <1>3, <2>1, <2>2, <2>3, GroupsKept
<1>9. Tr!RoutesHold'
  BY <1>1, <1>2, RoutesKept
<1>10. v7' \in Seq(Seq(Tr!Middlewares))
  BY <1>2 DEF Tr!WebInv, Tr!WebType
<1> QED
  BY <1>1, <1>2, <1>5, <1>7, <1>8, <1>9, <1>10, WebDeclares

\* add: the route is stored with the middleware in force.
LEMMA WebAdd == ASSUME Tr!WebInv, Tr!add PROVE Tr!WebInv'
<1> DEFINE x == <<"add">>
<1>0. x \in Tr!Decls /\ x[1] = "add"
  BY DEF Tr!Decls
<1> HIDE DEF x
<1>p. Tr!Declare(x) /\ UNCHANGED v6 /\ v7' = Append(v7, v6[Len(v6)])
  BY DEF Tr!add, Tr!wrapped, x
<1>1. PICK n \in Nat : n = Len(v8)
  BY DEF Tr!WebInv, Tr!WebType
<1>2. PICK s \in Seq(Tr!Decls) : s = v8
  BY DEF Tr!WebInv, Tr!WebType
<1>3. PICK t : t = v8' /\ Grown(s, x, t)
  BY <1>2, <1>p DEF Tr!Declare, Grown
<1>4. t \in Seq(Tr!Decls) /\ Len(t) = n + 1 /\ (\A p \in 1 .. n : t[p] = s[p]) /\ t[n + 1] = x /\ DOMAIN s = 1 .. n /\ DOMAIN t = 1 .. n + 1
  BY <1>0, <1>1, <1>2, <1>3, GrownIs
<1>5. PICK N \in Nat : N = Len(v6) /\ N >= 1 /\ N \in DOMAIN v6
  BY DEF Tr!WebInv, Tr!WebType
<1>6. PICK g \in Seq(Tr!Middlewares) : g = v6[N]
  BY <1>5 DEF Tr!WebInv, Tr!WebType
<1>7. PICK m \in Nat : m = Len(v7) /\ DOMAIN v7 = 1 .. m /\ m = Tr!Count(s, "add", 1, n)
  BY <1>1, <1>2 DEF Tr!WebInv, Tr!WebType, Tr!RoutesHold
<1>8. /\ v7' \in Seq(Seq(Tr!Middlewares)) /\ Len(v7') = m + 1 /\ DOMAIN v7' = 1 .. m + 1 /\ v7'[m + 1] = g
      /\ \A i \in 1 .. m : v7'[i] = v7[i]
  <2>1. v7 \in Seq(Seq(Tr!Middlewares)) /\ v7' = Append(v7, g)
    BY <1>5, <1>6, <1>p DEF Tr!WebInv, Tr!WebType
  <2> QED
    BY <1>7, <2>1, AppendProperties
<1>9. Tr!GroupsHold'
  <2>1. \A d \in 1 .. N : d <= N => Tr!Elements(v6[d]) \subseteq Tr!Elements(v6'[d])
    BY <1>p
  <2>2. N = Len(v6')
    BY <1>5, <1>p
  <2> QED
    BY <1>0, <1>5, <1>p, <2>1, <2>2, GroupsKept
<1>10. Tr!Count(t, "add", 1, n + 1) = m + 1
  <2>1. 1 \in 1 .. n + 1
    OBVIOUS
  <2> QED
    BY <1>0, <1>1, <1>2, <1>3, <1>7, <2>1, GrownCounts
<1>11. ASSUME NEW p \in 1 .. n, NEW q \in 1 .. n PROVE (Tr!Stays(t, p, q) <=> Tr!Stays(s, p, q)) /\ Tr!Count(t, "add", 1, q) = Tr!Count(s, "add", 1, q)
  BY <1>0, <1>1, <1>2, <1>3, GrownKeeps
<1>12. ASSUME NEW i \in DOMAIN v7' PROVE \E q \in DOMAIN t : t[q] = <<"add">> /\ Tr!Count(t, "add", 1, q) = i
  <2>1. CASE i = m + 1
    <3>1. n + 1 \in DOMAIN t /\ t[n + 1] = <<"add">>
      BY <1>4 DEF x
    <3> QED
      BY <1>10, <2>1, <3>1
  <2>2. CASE i \in DOMAIN v7
    <3>1. PICK q \in DOMAIN s : s[q] = <<"add">> /\ Tr!Count(s, "add", 1, q) = i
      BY <1>2, <2>2 DEF Tr!WebInv, Tr!RoutesHold
    <3>2. q \in DOMAIN t /\ t[q] = s[q] /\ Tr!Count(t, "add", 1, q) = Tr!Count(s, "add", 1, q)
      BY <1>4, <1>11
    <3> QED
      BY <3>1, <3>2
  <2> QED
    BY <1>7, <1>8, <2>1, <2>2
<1>13. ASSUME NEW p \in 1 .. n, t[p][1] = "use", Tr!Stays(t, p, n + 1) PROVE t[p][2] \in Tr!Elements(g)
  <2>0. /\ Tr!Opened(s, p) \in Int
        /\ Tr!Stays(s, p, n) => Tr!Opened(s, p) >= 0
        /\ Tr!Stays(t, p, n + 1) => Tr!Stays(s, p, n) /\ Tr!Opened(t, p) >= 0
    BY <1>0, <1>1, <1>2, <1>3, GrownOpened
  <2>1. PICK e \in Int : e = Tr!Opened(s, p) /\ Tr!Stays(s, p, n) /\ e >= 0
    BY <1>13, <2>0
  <2>2. \A d \in N - e .. N : s[p][2] \in Tr!Elements(v6[d])
    BY <1>1, <1>2, <1>4, <1>5, <1>13, <2>1 DEF Tr!WebInv, Tr!GroupsHold
  <2>3. N \in N - e .. N
    BY <2>1
  <2> QED
    BY <1>4, <1>6, <2>2, <2>3
<1>14. \A q \in 1 .. n : s[q] = <<"add">> => Tr!Count(s, "add", 1, q) \in 1 .. m
  BY <1>2, <1>4, <1>7 DEF Tr!WebInv, Tr!RoutesHold
<1>18. ASSUME NEW q \in DOMAIN t, t[q] = <<"add">> PROVE Tr!Count(t, "add", 1, q) \in 1 .. m + 1
  <2>1. CASE q = n + 1
    BY <1>10, <2>1
  <2>2. CASE q \in 1 .. n
    <3>1. s[q] = <<"add">> /\ Tr!Count(t, "add", 1, q) = Tr!Count(s, "add", 1, q)
      BY <1>4, <1>11, <1>18, <2>2
    <3> QED
      BY <1>14, <2>2, <3>1
  <2> QED
    BY <1>4, <2>1, <2>2
<1>15. ASSUME NEW p \in DOMAIN t, NEW q \in DOMAIN t, t[q] = <<"add">>, t[p][1] = "use", p < q, Tr!Stays(t, p, q),
             NEW i \in DOMAIN v7', i = Tr!Count(t, "add", 1, q)
      PROVE  t[p][2] \in Tr!Elements(v7'[i])
  <2>1. CASE q = n + 1
    <3>1. p \in 1 .. n /\ i = m + 1
      BY <1>4, <1>10, <1>15, <2>1
    <3> QED
      BY <1>8, <1>13, <1>15, <2>1, <3>1
  <2>2. CASE q \in 1 .. n
    <3>1. p \in 1 .. n
      BY <1>4, <1>15, <2>2
    <3>2. s[q] = <<"add">> /\ s[p] = t[p] /\ Tr!Stays(s, p, q) /\ i = Tr!Count(s, "add", 1, q)
      BY <1>4, <1>11, <1>15, <2>2, <3>1
    <3>3. p \in DOMAIN v8 /\ q \in DOMAIN v8 /\ Tr!InForce(p, q)
      BY <1>2, <1>4, <1>15, <2>2, <3>1, <3>2 DEF Tr!InForce
    <3>4. i \in DOMAIN v7
      BY <1>7, <1>14, <2>2, <3>2
    <3>5. t[p][2] \in Tr!Elements(v7[i])
      BY <1>2, <1>15, <3>2, <3>3, <3>4 DEF Tr!WebInv, Tr!RoutesHold
    <3> QED
      BY <1>7, <1>8, <3>4, <3>5
  <2> QED
    BY <1>4, <2>1, <2>2
<1>16. Tr!RoutesHold'
  BY <1>3, <1>4, <1>8, <1>10, <1>12, <1>15, <1>18 DEF Tr!RoutesHold, Tr!InForce
<1>17. v6' \in Seq(Seq(Tr!Middlewares)) /\ Len(v6') >= 1
  BY <1>p DEF Tr!WebInv, Tr!WebType
<1> QED
  BY <1>0, <1>p, <1>8, <1>9, <1>16, <1>17, WebDeclares

\* A step of the request under way that leaves the routes alone.
LEMMA WebServes ==
  ASSUME Tr!WebInv, UNCHANGED <<v6, v7, v8>>, NEW s \in Tr!Reqs, v9' = s, Tr!Written(s), Tr!Passed(s), Tr!Begun(s), Tr!Ended(s)
  PROVE  Tr!WebInv'
<1>1. Tr!GroupsHold' /\ Tr!RoutesHold'
  BY DEF Tr!WebInv, Tr!GroupsHold, Tr!RoutesHold, Tr!InForce
<1>2. Tr!WebType'
  BY DEF Tr!WebInv, Tr!WebType
<1>3. Tr!Passed(v9)'
  BY DEF Tr!Passed
<1> QED
  BY <1>1, <1>2, <1>3 DEF Tr!WebInv

\* A call on the Context in the handler, whose result is r.
LEMMA WebCalls ==
  ASSUME Tr!WebInv, NEW r \in Tr!Reqs, Tr!Call(r), Same(v9, r), Tr!Written(r), r.statusWritten => r.bodyWritten
  PROVE  Tr!WebInv'
<1> DEFINE c == r.calls + 1  s == [r EXCEPT !.calls = c, !.ran = TRUE]
<1>1. v9' = s /\ UNCHANGED <<v6, v7, v8>> /\ v9.pc = "chain" /\ v9.depth = Len(v7[v9.route])
  BY DEF Tr!Call, Tr!InHandler, Tr!chain
<1>2. c \in Nat /\ c # 0
  BY DEF Tr!Reqs
<1> HIDE DEF c
<1>3. s \in Tr!Reqs /\ s.calls = c /\ s.ran
  BY <1>2 DEF Tr!Reqs
<1>4. /\ s.pc = r.pc /\ s.route = r.route /\ s.depth = r.depth /\ s.method = r.method /\ s.bad = r.bad /\ s.headers = r.headers
      /\ s.status = r.status /\ s.statusWritten = r.statusWritten /\ s.bodyWritten = r.bodyWritten /\ s.bodies = r.bodies
  BY DEF Tr!Reqs
<1> HIDE DEF s
<1>5. Tr!Written(s) /\ Tr!Begun(s) /\ Tr!Ended(s)
  BY <1>1, <1>2, <1>3, <1>4 DEF Tr!Written, Tr!Begun, Tr!Ended, Same
<1>6. Tr!Passed(s)
  BY <1>1, <1>3, <1>4 DEF Tr!WebInv, Tr!Passed, Same, Tr!refused
<1> QED
  BY <1>1, <1>3, <1>5, <1>6, WebServes

\* The handler is over, by a result, or by a panic under Recovery.
LEMMA WebEnds ==
  ASSUME Tr!WebInv, NEW r \in Tr!Reqs, NEW pc \in {"done", "dropped"}, NEW end \in {"ok", "validation", "notFound", "other", "recovered", "none"},
         Tr!InHandler, UNCHANGED <<v6, v7, v8>>, Same(v9, r), Tr!Written(r),
         v9' = [r EXCEPT !.pc = pc, !.ran = TRUE, !.end = end],
         pc = "done" => r.statusWritten,
         pc = "done" /\ end \in {"validation", "notFound", "other", "recovered"} =>
           /\ r.bodies # <<>> \/ (r.calls > 0 /\ r.bodyWritten)
           /\ r.calls = 0 => r.bodies = <<"error">>
           /\ r.calls = 0 /\ end # "recovered" => r.status = Tr!codeOf(end)
  PROVE  Tr!WebInv'
<1> DEFINE s == [r EXCEPT !.pc = pc, !.ran = TRUE, !.end = end]
<1>1. v9' = s /\ v9.pc = "chain" /\ v9.depth = Len(v7[v9.route])
  BY DEF Tr!InHandler, Tr!chain
<1>2. s \in Tr!Reqs /\ s.pc = pc /\ s.ran /\ s.end = end
  BY DEF Tr!Reqs
<1>3. /\ s.route = r.route /\ s.depth = r.depth /\ s.method = r.method /\ s.bad = r.bad /\ s.headers = r.headers /\ s.calls = r.calls
      /\ s.status = r.status /\ s.statusWritten = r.statusWritten /\ s.bodyWritten = r.bodyWritten /\ s.bodies = r.bodies
  BY DEF Tr!Reqs
<1> HIDE DEF s
<1>4. Tr!Written(s) /\ Tr!Begun(s) /\ Tr!Ended(s)
  BY <1>1, <1>2, <1>3 DEF Tr!Written, Tr!Begun, Tr!Ended
<1>5. Tr!Passed(s)
  BY <1>1, <1>2, <1>3 DEF Tr!WebInv, Tr!Passed, Same, Tr!refused
<1> QED
  BY <1>1, <1>2, <1>4, <1>5, WebServes

\* A request comes in, for a route.
LEMMA WebRequest == ASSUME Tr!WebInv, NEW i \in DOMAIN v7, NEW method \in {"POST", "OPTIONS"}, NEW bad \in SUBSET Guards, Tr!Request(i, method, bad)
  PROVE Tr!WebInv'
<1> DEFINE s == [Tr!NoRequest EXCEPT !.pc = "chain", !.route = i, !.method = method, !.bad = bad]
<1>1. i \in Nat
  BY DEF Tr!WebInv, Tr!WebType
<1>2. /\ Tr!NoRequest \in Tr!Reqs /\ Tr!NoRequest.depth = 0 /\ ~Tr!NoRequest.ran /\ Tr!NoRequest.headers = 0 /\ Tr!NoRequest.status = 0 /\ Tr!NoRequest.calls = 0
      /\ ~Tr!NoRequest.statusWritten /\ ~Tr!NoRequest.bodyWritten /\ Tr!NoRequest.bodies = <<>> /\ Tr!NoRequest.pending = 0
  BY DEF Tr!NoRequest, Tr!Reqs
<1>3. PICK r \in Tr!Reqs : r = Tr!NoRequest
  BY <1>2
<1>4. s \in Tr!Reqs /\ s.pc = "chain" /\ s.route = i
  BY <1>1, <1>2 DEF Tr!Reqs
<1>5. /\ s.depth = 0 /\ ~s.ran /\ s.headers = 0 /\ s.status = 0 /\ s.calls = 0
      /\ ~s.statusWritten /\ ~s.bodyWritten /\ s.bodies = <<>> /\ s.pending = 0
  BY <1>1, <1>2 DEF Tr!Reqs
<1>6. v9' = s /\ UNCHANGED <<v6, v7, v8>>
  BY DEF Tr!Request
<1> HIDE DEF s
<1>7. Tr!Written(s) /\ Tr!Begun(s) /\ Tr!Ended(s)
  BY <1>4, <1>5 DEF Tr!Written, Tr!Begun, Tr!Ended
<1>8. Tr!Passed(s)
  <2>1. Len(v7[i]) \in Nat
    BY DEF Tr!WebInv, Tr!WebType
  <2> QED
    BY <1>4, <1>5, <2>1 DEF Tr!Passed
<1> QED
  BY <1>4, <1>6, <1>7, <1>8, WebServes

\* A layer that answers in place of the layers below, with r.
LEMMA WebStops ==
  ASSUME Tr!WebInv, NEW r \in Tr!Reqs, NEW end \in {"refused", "preflight"}, v9.pc = "chain", v9.depth < Len(v7[v9.route]),
         UNCHANGED <<v6, v7, v8>>, Same(v9, r), Tr!Written(r), r.statusWritten, v9' = [r EXCEPT !.pc = "done", !.end = end]
  PROVE  Tr!WebInv'
<1> DEFINE s == [r EXCEPT !.pc = "done", !.end = end]
<1>1. v9' = s
  OBVIOUS
<1>2. s \in Tr!Reqs /\ s.pc = "done" /\ s.end = end
  BY DEF Tr!Reqs
<1>3. /\ s.route = r.route /\ s.depth = r.depth /\ s.method = r.method /\ s.bad = r.bad /\ s.headers = r.headers /\ s.ran = r.ran
      /\ s.status = r.status /\ s.statusWritten = r.statusWritten /\ s.bodyWritten = r.bodyWritten /\ s.bodies = r.bodies
  BY DEF Tr!Reqs
<1> HIDE DEF s
<1>4. Tr!Written(s) /\ Tr!Begun(s) /\ Tr!Ended(s)
  BY <1>2, <1>3 DEF Tr!Written, Tr!Begun, Tr!Ended
<1>5. Tr!Passed(s)
  BY <1>2, <1>3 DEF Tr!WebInv, Tr!Passed, Same, Tr!refused
<1> QED
  BY <1>1, <1>2, <1>4, <1>5, WebServes

\* One layer of the chain: a guard passes the request on or answers it.
LEMMA WebLayer == ASSUME Tr!WebInv, Tr!Layer PROVE Tr!WebInv'
<1>1. v9 \in Tr!Reqs /\ Tr!Written(v9) /\ v9.pc = "chain" /\ v9.route \in DOMAIN v7
  BY DEF Tr!WebInv, Tr!WebType, Tr!Layer, Tr!Passed
<1>2. PICK c \in Seq(Tr!Middlewares) : c = v7[v9.route] /\ Tr!chain = c
  BY <1>1 DEF Tr!WebInv, Tr!WebType, Tr!chain
<1>3. PICK d \in Nat : d = v9.depth /\ d < Len(c) /\ d + 1 \in DOMAIN c
  BY <1>1, <1>2 DEF Tr!Layer, Tr!Reqs
<1>4. PICK m \in Tr!Middlewares : m = c[d + 1]
  BY <1>3
<1>5. UNCHANGED <<v6, v7, v8>>
  BY DEF Tr!Layer
<1>6. v9' = CASE m \in Guards /\ Tr!refused(v9, m) -> [Tr!JSON(v9, Tr!refusal[m], "error") EXCEPT !.pc = "done", !.end = "refused"]
               [] m = "cors" /\ v9.method = "OPTIONS" -> [Tr!NoContent(v9) EXCEPT !.pc = "done", !.end = "preflight"]
               [] OTHER -> [v9 EXCEPT !.depth = @ + 1]
  BY <1>2, <1>3, <1>4 DEF Tr!Layer
<1>7. "cors" \notin Guards
  BY WebAssumption
<1>8. CASE m \in Guards /\ Tr!refused(v9, m)
  <2>1. PICK code \in {401, 403, 429} : code = Tr!refusal[m]
    BY <1>8, WebAssumption DEF Tr!refusal
  <2>2. PICK r : r = Tr!JSON(v9, code, "error")
    OBVIOUS
  <2>3. Same(v9, r) /\ Tr!Written(r) /\ r.statusWritten /\ r \in Tr!Reqs
    <3>1. code \in Nat /\ code # 204
      OBVIOUS
    <3> QED
      BY <1>1, <2>2, <3>1, JSONWritten DEF Same
  <2>4. v9' = [r EXCEPT !.pc = "done", !.end = "refused"]
    BY <1>6, <1>7, <1>8, <2>1, <2>2
  <2> QED
    BY <1>1, <1>2, <1>3, <1>5, <2>3, <2>4, WebStops
<1>9. CASE ~(m \in Guards /\ Tr!refused(v9, m)) /\ m = "cors" /\ v9.method = "OPTIONS"
  <2>1. PICK r : r = Tr!NoContent(v9)
    OBVIOUS
  <2>2. Same(v9, r) /\ Tr!Written(r) /\ r.statusWritten /\ r \in Tr!Reqs
    BY <1>1, <2>1, NothingWritten DEF Same
  <2>3. v9' = [r EXCEPT !.pc = "done", !.end = "preflight"]
    BY <1>6, <1>7, <1>9, <2>1
  <2> QED
    BY <1>1, <1>2, <1>3, <1>5, <2>2, <2>3, WebStops
<1>10. CASE ~(m \in Guards /\ Tr!refused(v9, m)) /\ ~(m = "cors" /\ v9.method = "OPTIONS")
  <2> DEFINE e == d + 1  s == [v9 EXCEPT !.depth = e]
  <2>1. v9' = s
    BY <1>3, <1>6, <1>10
  <2>2. e \in Nat /\ e <= Len(c)
    BY <1>3
  <2> HIDE DEF e
  <2>3. s \in Tr!Reqs /\ s.depth = e
    BY <1>1, <2>2 DEF Tr!Reqs
  <2>4. /\ s.pc = v9.pc /\ s.route = v9.route /\ s.method = v9.method /\ s.bad = v9.bad /\ s.headers = v9.headers /\ s.ran = v9.ran
        /\ s.status = v9.status /\ s.statusWritten = v9.statusWritten /\ s.bodyWritten = v9.bodyWritten /\ s.bodies = v9.bodies
        /\ s.calls = v9.calls /\ s.pending = v9.pending /\ s.end = v9.end
    BY <1>1 DEF Tr!Reqs
  <2> HIDE DEF s
  <2>5. Tr!Written(s) /\ Tr!Begun(s) /\ Tr!Ended(s)
    BY <2>4 DEF Tr!WebInv, Tr!Written, Tr!Begun, Tr!Ended
  <2>6. \A k \in 1 .. d : c[k] \in Guards => ~Tr!refused(v9, c[k])
    BY <1>1, <1>2, <1>3 DEF Tr!WebInv, Tr!Passed
  <2>7. \A k \in 1 .. e : c[k] \in Guards => ~Tr!refused(v9, c[k])
    BY <1>3, <1>4, <1>10, <2>6 DEF e
  <2>8. \A k \in 1 .. e : c[k] \in Guards => ~Tr!refused(s, c[k])
    BY <2>4, <2>7 DEF Tr!refused
  <2>9. ~v9.ran
    BY <1>2, <1>3 DEF Tr!WebInv, Tr!Passed
  <2>10. Tr!Passed(s)
    BY <1>1, <1>2, <2>2, <2>3, <2>4, <2>8, <2>9 DEF Tr!Passed
  <2> QED
    BY <1>5, <2>1, <2>3, <2>5, <2>10, WebServes
<1> QED
  BY <1>8, <1>9, <1>10

\* A panic in the handler, with r written so far.
LEMMA WebUnwinds ==
  ASSUME Tr!WebInv, Tr!InHandler, UNCHANGED <<v6, v7, v8>>, NEW r \in Tr!Reqs, Same(v9, r), Tr!Written(r), v9' = Tr!Unwound(r),
         r.bodyWritten => r.calls > 0
  PROVE  Tr!WebInv'
<1>1. CASE "recovery" \in Tr!Elements(Tr!chain)
  <2>1. PICK s : s = Tr!Recovery(r)
    OBVIOUS
  <2>2. /\ Same(r, s) /\ Tr!Written(s) /\ s.statusWritten /\ (r.bodyWritten => s = r) /\ (~r.bodyWritten => s.bodies = <<"error">>)
    BY <2>1, RespondWritten DEF Tr!Recovery
  <2>3. s \in Tr!Reqs /\ Same(v9, s) /\ s.calls = r.calls
    BY <2>2 DEF Same
  <2>4. v9' = [s EXCEPT !.pc = "done", !.ran = TRUE, !.end = "recovered"]
    BY <1>1, <2>1 DEF Tr!Unwound
  <2>5. /\ s.bodies # <<>> \/ (s.calls > 0 /\ s.bodyWritten)
        /\ s.calls = 0 => s.bodies = <<"error">>
    <3>1. s.calls = 0 => ~r.bodyWritten
      BY <2>3 DEF Tr!Reqs
    <3>2. <<"error">> # <<>>
      OBVIOUS
    <3> QED
      BY <2>2, <2>3, <3>1, <3>2
  <2> QED
    BY <2>2, <2>3, <2>4, <2>5, WebEnds
<1>2. CASE "recovery" \notin Tr!Elements(Tr!chain)
  <2>1. v9' = [r EXCEPT !.pc = "dropped", !.ran = TRUE]
    BY <1>2 DEF Tr!Unwound
  <2> DEFINE s == [r EXCEPT !.pc = "dropped", !.ran = TRUE]
  <2>2. v9' = s /\ v9.pc = "chain" /\ v9.depth = Len(v7[v9.route])
    BY <2>1 DEF Tr!InHandler, Tr!chain
  <2>3. s \in Tr!Reqs /\ s.pc = "dropped" /\ s.ran
    BY DEF Tr!Reqs
  <2>4. /\ s.route = r.route /\ s.depth = r.depth /\ s.method = r.method /\ s.bad = r.bad /\ s.headers = r.headers
        /\ s.status = r.status /\ s.statusWritten = r.statusWritten /\ s.bodyWritten = r.bodyWritten /\ s.bodies = r.bodies
    BY DEF Tr!Reqs
  <2> HIDE DEF s
  <2>5. Tr!Written(s) /\ Tr!Begun(s) /\ Tr!Ended(s)
    BY <2>3, <2>4 DEF Tr!Written, Tr!Begun, Tr!Ended
  <2>6. Tr!Passed(s)
    BY <2>2, <2>3, <2>4 DEF Tr!WebInv, Tr!Passed, Same, Tr!refused
  <2> QED
    BY <2>2, <2>3, <2>5, <2>6, WebServes
<1> QED
  BY <1>1, <1>2

\* Where the handler runs.
LEMMA WebHandles ==
  ASSUME Tr!WebInv, Tr!InHandler
  PROVE  /\ v9 \in Tr!Reqs /\ Tr!Written(v9) /\ Same(v9, v9)
         /\ v9.statusWritten => v9.bodyWritten
         /\ v9.bodyWritten => v9.calls > 0
         /\ v9.calls = 0 => ~v9.statusWritten /\ ~v9.bodyWritten /\ v9.pending = 0
<1>1. v9 \in Tr!Reqs /\ Tr!Written(v9) /\ Tr!Begun(v9) /\ v9.pc = "chain"
  BY DEF Tr!WebInv, Tr!WebType, Tr!InHandler
<1>2. v9.calls \in Nat
  BY <1>1 DEF Tr!Reqs
<1> QED
  BY <1>1, <1>2 DEF Same, Tr!Begun, Tr!Written

\* The calls of a handler that write.
LEMMA WebWrites == ASSUME Tr!WebInv, Tr!Status \/ Tr!WriteJSON \/ Tr!WriteNothing \/ Tr!WriteRedirect \/ Tr!WriteSSE PROVE Tr!WebInv'
<1>1. Tr!InHandler
  BY DEF Tr!Status, Tr!WriteJSON, Tr!WriteNothing, Tr!WriteRedirect, Tr!WriteSSE, Tr!Call
<1>2. /\ v9 \in Tr!Reqs /\ Tr!Written(v9) /\ Same(v9, v9)
      /\ v9.statusWritten => v9.bodyWritten
  BY <1>1, WebHandles
<1>3. CASE Tr!Status
  <2>1. CASE v9.statusWritten
    <3>1. Tr!Call(v9)
      BY <1>3, <2>1 DEF Tr!Status
    <3> QED
      BY <1>2, <3>1, WebCalls
  <2>2. CASE ~v9.statusWritten
    <3> DEFINE r == [v9 EXCEPT !.pending = 201]
    <3>1. Tr!Call(r)
      BY <1>3, <2>2 DEF Tr!Status
    <3>2. r \in Tr!Reqs
      BY <1>2 DEF Tr!Reqs
    <3>3. Same(v9, r)
      BY <1>2, <3>2 DEF Same, Tr!Reqs
    <3>4. /\ r.status = v9.status /\ r.statusWritten = v9.statusWritten /\ r.bodyWritten = v9.bodyWritten /\ r.bodies = v9.bodies
          /\ r.headers = v9.headers
      BY <1>2 DEF Tr!Reqs
    <3> HIDE DEF r
    <3>5. Tr!Written(r)
      BY <1>2, <3>4 DEF Tr!Written
    <3> QED
      BY <1>2, <3>1, <3>2, <3>3, <3>4, <3>5, WebCalls
  <2> QED
    BY <2>1, <2>2
<1>4. CASE Tr!WriteJSON
  <2>1. PICK ok \in Nat : ok = 200 /\ ok # 204
    OBVIOUS
  <2>2. PICK r : r = Tr!JSON(v9, ok, "value")
    OBVIOUS
  <2>3. Same(v9, r) /\ Tr!Written(r) /\ r.bodyWritten
    BY <1>2, <2>1, <2>2, JSONWritten
  <2>4. Tr!Call(r) /\ r \in Tr!Reqs
    BY <1>4, <2>1, <2>2, <2>3 DEF Tr!WriteJSON, Same
  <2> QED
    BY <2>3, <2>4, WebCalls
<1>5. CASE Tr!WriteNothing
  <2>1. PICK r : r = Tr!NoContent(v9)
    OBVIOUS
  <2>2. Same(v9, r) /\ Tr!Written(r) /\ r.bodyWritten
    BY <1>2, <2>1, NothingWritten
  <2>3. Tr!Call(r) /\ r \in Tr!Reqs
    BY <1>5, <2>1, <2>2 DEF Tr!WriteNothing, Same
  <2> QED
    BY <2>2, <2>3, WebCalls
<1>6. CASE Tr!WriteRedirect
  <2>1. PICK r : r = Tr!Redirect(v9)
    OBVIOUS
  <2>2. Same(v9, r) /\ Tr!Written(r) /\ r.bodyWritten
    BY <1>2, <2>1, RedirectWritten
  <2>3. Tr!Call(r) /\ r \in Tr!Reqs
    BY <1>6, <2>1, <2>2 DEF Tr!WriteRedirect, Same
  <2> QED
    BY <2>2, <2>3, WebCalls
<1>7. CASE Tr!WriteSSE
  <2>1. PICK r : r = Tr!SSE(v9)
    OBVIOUS
  <2>2. Same(v9, r) /\ Tr!Written(r) /\ (r = v9 \/ r.bodyWritten)
    BY <1>2, <2>1, StreamWritten
  <2>3. Tr!Call(r) /\ r \in Tr!Reqs
    BY <1>7, <2>1, <2>2 DEF Tr!WriteSSE, Same
  <2>4. r.statusWritten => r.bodyWritten
    BY <1>2, <2>2
  <2> QED
    BY <2>2, <2>3, <2>4, WebCalls
<1> QED
  BY <1>3, <1>4, <1>5, <1>6, <1>7

\* The handler returns, and respond answers.
LEMMA WebResponds ==
  ASSUME Tr!WebInv, NEW value \in BOOLEAN, NEW err \in {"nil", "validation", "notFound", "other"}, Tr!withRespond(value, err)
  PROVE  Tr!WebInv'
<1>1. Tr!InHandler /\ UNCHANGED <<v6, v7, v8>>
  BY DEF Tr!withRespond
<1>2. /\ v9 \in Tr!Reqs /\ Tr!Written(v9) /\ Same(v9, v9)
      /\ v9.bodyWritten => v9.calls > 0
      /\ v9.calls = 0 => ~v9.statusWritten /\ ~v9.bodyWritten /\ v9.pending = 0
  BY <1>1, WebHandles
<1>3. PICK s : s = Tr!respond(v9, value, err)
  OBVIOUS
<1>4. /\ Same(v9, s) /\ Tr!Written(s) /\ s.statusWritten
      /\ v9.bodyWritten => s = v9
      /\ ~v9.bodyWritten /\ err # "nil" => s.bodies = <<"error">> /\ (~v9.statusWritten /\ v9.pending = 0 => s.status = Tr!codeOf(err))
  BY <1>2, <1>3, RespondWritten
<1>5. s \in Tr!Reqs /\ s.calls = v9.calls
  BY <1>4 DEF Same
<1>6. PICK end \in {"ok", "validation", "notFound", "other"} : end = (IF err # "nil" THEN err ELSE "ok")
  OBVIOUS
<1>7. v9' = [s EXCEPT !.pc = "done", !.ran = TRUE, !.end = end]
  BY <1>3, <1>6 DEF Tr!withRespond
<1>8. ASSUME end \in {"validation", "notFound", "other", "recovered"}
      PROVE  /\ s.bodies # <<>> \/ (s.calls > 0 /\ s.bodyWritten)
             /\ s.calls = 0 => s.bodies = <<"error">>
             /\ s.calls = 0 /\ end # "recovered" => s.status = Tr!codeOf(end)
  <2>1. err # "nil" /\ end = err
    BY <1>6, <1>8
  <2>2. <<"error">> # <<>>
    OBVIOUS
  <2> QED
    BY <1>2, <1>4, <1>5, <2>1, <2>2
<1> QED
  BY <1>1, <1>4, <1>5, <1>7, <1>8, WebEnds

\* A panic in the handler, or while its value is encoded.
LEMMA WebPanics == ASSUME Tr!WebInv, Tr!Panic \/ Tr!EncodePanics PROVE Tr!WebInv'
<1>1. Tr!InHandler /\ UNCHANGED <<v6, v7, v8>>
  BY DEF Tr!Panic, Tr!EncodePanics
<1>2. /\ v9 \in Tr!Reqs /\ Tr!Written(v9) /\ Same(v9, v9)
      /\ v9.statusWritten => v9.bodyWritten
      /\ v9.bodyWritten => v9.calls > 0
  BY <1>1, WebHandles
<1>3. CASE Tr!Panic
  <2>1. v9' = Tr!Unwound(v9)
    BY <1>3 DEF Tr!Panic
  <2> QED
    BY <1>1, <1>2, <2>1, WebUnwinds
<1>4. CASE Tr!EncodePanics
  <2>1. PICK ok \in Nat : ok = 200 /\ ok # 204
    OBVIOUS
  <2>2. PICK r : r = Tr!writeHeader(v9, ok)
    OBVIOUS
  <2>3. ~v9.bodyWritten /\ ~v9.statusWritten /\ v9' = Tr!Unwound(r)
    BY <1>2, <1>4, <2>1, <2>2 DEF Tr!EncodePanics
  <2>4. /\ Same(v9, r) /\ r.bodies = v9.bodies /\ r.bodyWritten = v9.bodyWritten /\ r.statusWritten
        /\ r.headers = v9.headers + 1 /\ r.status = IF v9.pending # 0 THEN v9.pending ELSE ok
    BY <1>2, <2>2, <2>3, HeaderWritten
  <2>5. r \in Tr!Reqs /\ v9.pending # 204
    BY <1>2, <2>4 DEF Same, Tr!Reqs
  <2>6. Tr!Written(r)
    BY <1>2, <2>1, <2>3, <2>4, <2>5 DEF Tr!Written
  <2> QED
    BY <1>1, <2>3, <2>4, <2>5, <2>6, WebUnwinds
<1> QED
  BY <1>3, <1>4

\* Every step of router, middleware and Context preserves the invariant.
LEMMA WebStep == Tr!WebInv /\ [Tr!WebNext]_Tr!webVars => Tr!WebInv'
<1> SUFFICES ASSUME Tr!WebInv, [Tr!WebNext]_Tr!webVars PROVE Tr!WebInv'
  OBVIOUS
<1>1. CASE \E m \in Tr!Middlewares : Tr!Use(m)
  BY <1>1, WebUse
<1>2. CASE Tr!Group
  BY <1>2, WebGroup
<1>3. CASE Tr!EndGroup
  BY <1>3, WebEndGroup
<1>4. CASE Tr!add
  BY <1>4, WebAdd
<1>5. CASE \E i \in DOMAIN v7, method \in {"POST", "OPTIONS"}, bad \in SUBSET Guards : Tr!Request(i, method, bad)
  BY <1>5, WebRequest
<1>6. CASE Tr!Layer
  BY <1>6, WebLayer
<1>7. CASE Tr!Status \/ Tr!WriteJSON \/ Tr!WriteNothing \/ Tr!WriteRedirect \/ Tr!WriteSSE
  BY <1>7, WebWrites
<1>8. CASE \E value \in BOOLEAN, err \in {"nil", "validation", "notFound", "other"} : Tr!withRespond(value, err)
  BY <1>8, WebResponds
<1>9. CASE Tr!Panic \/ Tr!EncodePanics
  BY <1>9, WebPanics
<1>10. CASE UNCHANGED Tr!webVars
  <2>1. v9' = v9 /\ UNCHANGED <<v6, v7, v8>>
    BY <1>10 DEF Tr!webVars
  <2> QED
    BY <2>1, WebServes DEF Tr!WebInv, Tr!WebType
<1> QED
  BY <1>1, <1>2, <1>3, <1>4, <1>5, <1>6, <1>7, <1>8, <1>9, <1>10 DEF Tr!WebNext

\* The chain of interceptors: Recovery before what can panic, Auth before the handler.
LEMMA GrpcChain ==
  /\ Tr!interceptors \in Seq({"recovery", "auth", "logging", "extra"}) /\ Len(Tr!interceptors) \in Nat
  /\ Tr!withRecovery => \A k \in 0 .. Len(Tr!interceptors) : (k = Len(Tr!interceptors) \/ Tr!interceptors[k + 1] # "recovery") => \E i \in 1 .. k : Tr!interceptors[i] = "recovery"
  /\ HasAuth => \A k \in 0 .. Len(Tr!interceptors) : (k = Len(Tr!interceptors) \/ Tr!interceptors[k + 1] \in {"logging", "extra"}) => \E i \in 1 .. k : Tr!interceptors[i] = "auth"
<1> DEFINE S == {"recovery", "auth", "logging", "extra"}
<1>0. "recovery" \in S /\ "auth" \in S /\ "logging" \in S /\ "extra" \in S
  OBVIOUS
<1> HIDE DEF S
<1> DEFINE a == IF Tr!withRecovery THEN <<"recovery">> ELSE <<>>
           b == IF HasAuth THEN <<"auth">> ELSE <<>>
           l == IF Tr!withLogging THEN <<"logging">> ELSE <<>>
           x == [i \in 1 .. Extra |-> "extra"]
           n == Len(Tr!interceptors)  r == Len(a)
<1>1. a \in Seq(S) /\ b \in Seq(S) /\ l \in Seq(S)
  BY <1>0, ShortSeqs
<1>2. r \in 0 .. 1 /\ (Tr!withRecovery => r = 1 /\ a[1] = "recovery") /\ (~Tr!withRecovery => r = 0)
  OBVIOUS
<1>3. HasAuth => Len(b) = 1 /\ b[1] = "auth"
  OBVIOUS
<1>4. x \in Seq(S)
  BY <1>0, GrpcAssumption, FunctionIsSeq
<1>5. Tr!interceptors = a \o b \o l \o x
  BY DEF Tr!interceptors
<1> HIDE DEF a, b, l, x
<1>6. PICK c \in Seq(S) : c = a \o b
  BY <1>1, ConcatProperties
<1>7. PICK d \in Seq(S) : d = c \o l
  BY <1>1, ConcatProperties
<1>8. Tr!interceptors = d \o x
  BY <1>5, <1>6, <1>7
<1>9. Tr!interceptors \in Seq(S) /\ n \in Nat
  BY <1>4, <1>8, ConcatProperties, LenProperties
<1>10. ASSUME NEW k \in 1 .. Len(c) PROVE k \in 1 .. n /\ Tr!interceptors[k] = c[k]
  <2>1. k \in 1 .. Len(d) /\ d[k] = c[k]
    BY <1>1, <1>7, ConcatFirst
  <2> QED
    BY <1>4, <1>8, <2>1, ConcatFirst
<1>11. Tr!withRecovery => 1 \in 1 .. n /\ Tr!interceptors[1] = "recovery"
  <2> SUFFICES ASSUME Tr!withRecovery PROVE 1 \in 1 .. n /\ Tr!interceptors[1] = "recovery"
    OBVIOUS
  <2>0. r = 1 /\ a[1] = "recovery"
    BY <1>2, Zenon
  <2>1. 1 \in 1 .. Len(a) /\ a[1] = "recovery"
    BY <2>0
  <2>2. 1 \in 1 .. Len(c) /\ c[1] = a[1]
    BY <1>1, <1>6, <2>1, ConcatFirst
  <2> QED
    BY <1>10, <2>1, <2>2
<1>12. HasAuth => r + 1 \in 1 .. n /\ Tr!interceptors[r + 1] = "auth"
  <2> SUFFICES ASSUME HasAuth PROVE r + 1 \in 1 .. n /\ Tr!interceptors[r + 1] = "auth"
    OBVIOUS
  <2>0. Len(b) = 1 /\ b[1] = "auth"
    BY <1>3, Zenon
  <2>1. 1 \in 1 .. Len(b) /\ b[1] = "auth"
    BY <2>0
  <2>2. r + 1 \in 1 .. Len(c) /\ c[r + 1] = b[1]
    BY <1>1, <1>6, <2>1, ConcatSecond
  <2> QED
    BY <1>10, <2>1, <2>2
<1>13. r = 1 => Tr!interceptors[1] = "recovery"
  BY <1>2, <1>11
<1> HIDE DEF n, r
<1>14. ASSUME Tr!withRecovery, NEW k \in 0 .. n, k = n \/ Tr!interceptors[k + 1] # "recovery" PROVE \E i \in 1 .. k : Tr!interceptors[i] = "recovery"
  BY <1>9, <1>11, <1>14
<1>15. ASSUME HasAuth, NEW k \in 0 .. n, k = n \/ Tr!interceptors[k + 1] \in {"logging", "extra"} PROVE \E i \in 1 .. k : Tr!interceptors[i] = "auth"
  <2>1. k # r
    BY <1>2, <1>9, <1>12, <1>15
  <2>2. k >= r + 1
    BY <1>2, <1>9, <1>12, <1>13, <1>15, <2>1
  <2> QED
    BY <1>2, <1>9, <1>12, <1>15, <2>2
<1> QED
  BY <1>9, <1>14, <1>15 DEF n, S

\* The invariant of the grpc adapter holds initially.
LEMMA GrpcStart == Tr!GrpcInit => Tr!GrpcInv
<1> SUFFICES ASSUME Tr!GrpcInit PROVE Tr!GrpcInv
  OBVIOUS
<1>1. Tr!NoRpc \in Tr!CallType /\ Tr!NoRpc.depth = 0 /\ Tr!NoRpc.stage = "none" /\ Tr!NoRpc.answer = "none"
  BY DEF Tr!NoRpc, Tr!CallType
<1>2. Tr!GrpcType
  BY <1>1 DEF Tr!GrpcInit, Tr!GrpcType
<1>3. \A c \in Calls : Tr!OnItsWay(c)
  BY <1>1, GrpcChain DEF Tr!GrpcInit, Tr!OnItsWay
<1>4. Tr!InStep
  BY <1>1 DEF Tr!GrpcInit, Tr!InStep, Tr!Running
<1> QED
  BY <1>2, <1>3, <1>4 DEF Tr!GrpcInv

\* One call goes on: the others, Run and the server stay as they are.
LEMMA GrpcCall ==
  ASSUME Tr!GrpcInv, NEW c \in Calls, NEW k \in Tr!CallType, v13' = [v13 EXCEPT ![c] = k], UNCHANGED <<v10, v11, v12>>,
         k.depth <= Len(Tr!interceptors), k.answer = "crash" => ~Tr!withRecovery,
         k.stage = "in" => v11 = "serving" \/ v13[c].stage = "in",
         k.stage = "in" => \A i \in 1 .. k.depth : Tr!interceptors[i] = "auth" => k.token = "good" /\ k.user = "claims"
  PROVE  Tr!GrpcInv'
<1>1. v13' \in [Calls -> Tr!CallType] /\ v13'[c] = k /\ \A d \in Calls : d # c => v13'[d] = v13[d]
  BY DEF Tr!GrpcInv, Tr!GrpcType
<1>2. Tr!GrpcType'
  BY <1>1 DEF Tr!GrpcInv, Tr!GrpcType
<1>3. ASSUME NEW d \in Calls PROVE Tr!OnItsWay(d)'
  <2>1. CASE d = c
    BY <1>1, <2>1 DEF Tr!OnItsWay
  <2>2. CASE d # c
    BY <1>1, <2>2 DEF Tr!GrpcInv, Tr!OnItsWay
  <2> QED
    BY <2>1, <2>2
<1>4. v11 \in {"new", "stopped"} => Tr!Running' = {}
  BY <1>1 DEF Tr!GrpcInv, Tr!InStep, Tr!Running
<1>5. Tr!InStep'
  BY <1>4 DEF Tr!GrpcInv, Tr!InStep
<1> QED
  BY <1>2, <1>3, <1>5 DEF Tr!GrpcInv

\* Calls are cut off: none runs any more.
LEMMA GrpcCut ==
  ASSUME Tr!GrpcInv, NEW cut \in BOOLEAN, ~cut => Tr!Running = {}, v11' = "stopped", UNCHANGED v12,
         v10' \in {"idle", "serving", "draining", "returned"},
         v13' = [c \in Calls |-> IF cut /\ c \in Tr!Running THEN [v13[c] EXCEPT !.stage = "out", !.answer = "cancelled"] ELSE v13[c]]
  PROVE  Tr!GrpcInv'
<1>1. ASSUME NEW c \in Calls
      PROVE  /\ v13'[c] \in Tr!CallType /\ v13'[c].stage # "in" /\ v13'[c].depth = v13[c].depth
             /\ v13'[c].answer = "crash" => v13[c].answer = "crash"
  <2>1. v13[c] \in Tr!CallType
    BY DEF Tr!GrpcInv, Tr!GrpcType
  <2>2. CASE cut /\ c \in Tr!Running
    <3> DEFINE k == [v13[c] EXCEPT !.stage = "out", !.answer = "cancelled"]
    <3>1. k \in Tr!CallType /\ k.stage = "out" /\ k.answer = "cancelled" /\ k.depth = v13[c].depth
      BY <2>1 DEF Tr!CallType
    <3>2. v13'[c] = k
      BY <2>2
    <3> HIDE DEF k
    <3> QED
      BY <3>1, <3>2
  <2>3. CASE ~(cut /\ c \in Tr!Running)
    <3>1. PICK k \in Tr!CallType : k = v13[c]
      BY <2>1
    <3>2. v13'[c] = k
      BY <2>3, <3>1
    <3>3. k.stage # "in"
      BY <2>3, <3>1 DEF Tr!Running
    <3> QED
      BY <3>1, <3>2, <3>3
  <2> QED
    BY <2>2, <2>3
<1>2. v13' \in [Calls -> Tr!CallType]
  BY <1>1
<1>3. Tr!GrpcType'
  BY <1>2 DEF Tr!GrpcInv, Tr!GrpcType
<1>4. \A c \in Calls : Tr!OnItsWay(c)'
  BY <1>1 DEF Tr!GrpcInv, Tr!OnItsWay
<1>5. Tr!InStep'
  BY <1>1 DEF Tr!GrpcInv, Tr!InStep, Tr!Running
<1> QED
  BY <1>3, <1>4, <1>5 DEF Tr!GrpcInv

\* Every step of the grpc adapter preserves the invariant.
LEMMA GrpcStep == Tr!GrpcInv /\ [Tr!GrpcNext]_Tr!grVars => Tr!GrpcInv'
<1> SUFFICES ASSUME Tr!GrpcInv, [Tr!GrpcNext]_Tr!grVars PROVE Tr!GrpcInv'
  OBVIOUS
<1>1. ASSUME UNCHANGED v13, v10' \in {"idle", "serving", "draining", "returned"}, v11' \in {"new", "serving", "draining", "stopped"},
             v12' \in BOOLEAN, Tr!InStep'
      PROVE  Tr!GrpcInv'
  BY <1>1 DEF Tr!GrpcInv, Tr!GrpcType, Tr!OnItsWay
<1>2. CASE Tr!Run
  BY <1>1, <1>2 DEF Tr!Run, Tr!GrpcInv, Tr!GrpcType, Tr!InStep, Tr!Running
<1>3. CASE Tr!Shutdown
  BY <1>1, <1>3 DEF Tr!Shutdown, Tr!GrpcInv, Tr!GrpcType, Tr!InStep, Tr!Running
<1>4. CASE Tr!Drain
  BY <1>1, <1>4 DEF Tr!Drain, Tr!GracefulStop, Tr!GrpcInv, Tr!GrpcType, Tr!InStep, Tr!Running
<1>5. CASE Tr!Returns
  <2>1. v12 => Tr!Running = {} /\ v11 = "stopped"
    BY DEF Tr!GrpcInv, Tr!InStep
  <2>2. PICK cut \in BOOLEAN : cut <=> ~v12
    OBVIOUS
  <2>3. v13' = [c \in Calls |-> IF cut /\ c \in Tr!Running THEN [v13[c] EXCEPT !.stage = "out", !.answer = "cancelled"] ELSE v13[c]]
    BY <1>5, <2>2 DEF Tr!Returns
  <2> QED
    BY <1>5, <2>1, <2>2, <2>3, GrpcCut DEF Tr!Returns
<1>6. CASE Tr!Stop
  <2>1. v13' = [c \in Calls |-> IF TRUE /\ c \in Tr!Running THEN [v13[c] EXCEPT !.stage = "out", !.answer = "cancelled"] ELSE v13[c]]
    BY <1>6 DEF Tr!Stop
  <2>2. v10' \in {"idle", "serving", "draining", "returned"}
    BY <1>6 DEF Tr!Stop, Tr!GrpcInv, Tr!GrpcType
  <2> QED
    BY <1>6, <2>1, <2>2, GrpcCut DEF Tr!Stop
<1>7. ASSUME NEW c \in Calls, Tr!Enter(c) PROVE Tr!GrpcInv'
  <2>1. PICK k0 \in Tr!CallType : k0 = v13[c]
    BY DEF Tr!GrpcInv, Tr!GrpcType
  <2>2. k0.depth \in Nat /\ k0.stage = "in" /\ k0.depth < Len(Tr!interceptors) /\ Tr!Here(c) = Tr!interceptors[k0.depth + 1]
    BY <1>7, <2>1, GrpcChain DEF Tr!Enter, Tr!Here, Tr!CallType
  <2>7. k0.answer = "crash" => ~Tr!withRecovery
    BY <2>1 DEF Tr!GrpcInv, Tr!OnItsWay
  <2>3. \A i \in 1 .. k0.depth : Tr!interceptors[i] = "auth" => k0.token = "good" /\ k0.user = "claims"
    BY <2>2, <2>1 DEF Tr!GrpcInv, Tr!OnItsWay
  <2>4. CASE Tr!Here(c) = "auth" /\ ~Tr!authenticate(c)
    <3> DEFINE k == [k0 EXCEPT !.stage = "out", !.answer = "Unauthenticated"]
    <3>1. k \in Tr!CallType /\ k.stage = "out" /\ k.answer = "Unauthenticated" /\ k.depth = k0.depth
      BY DEF Tr!CallType
    <3>2. v13' = [v13 EXCEPT ![c] = k] /\ UNCHANGED <<v10, v11, v12>>
      BY <1>7, <2>1, <2>4 DEF Tr!Enter
    <3> HIDE DEF k
    <3>3. k.depth <= Len(Tr!interceptors)
      BY <2>2, <3>1, GrpcChain
    <3> QED
      BY <3>1, <3>2, <3>3, GrpcCall
  <2>5. CASE Tr!Here(c) = "auth" => Tr!authenticate(c)
    <3>1. PICK u \in {"none", "claims"} : /\ Tr!passed(c) = [k0 EXCEPT !.depth = k0.depth + 1, !.user = u]
                                          /\ u = IF Tr!Here(c) = "auth" THEN "claims" ELSE k0.user
      BY <2>1 DEF Tr!passed, Tr!CallType
    <3> DEFINE d == k0.depth + 1  k == [k0 EXCEPT !.depth = d, !.user = u]
    <3>0. d \in Nat
      BY <2>2
    <3> HIDE DEF d
    <3>2. k \in Tr!CallType /\ k.depth = d /\ k.token = k0.token /\ k.user = u /\ k.answer = k0.answer
      BY <3>0 DEF Tr!CallType
    <3>3. v13' = [v13 EXCEPT ![c] = k] /\ UNCHANGED <<v10, v11, v12>>
      BY <1>7, <2>5, <3>1 DEF Tr!Enter, d
    <3> HIDE DEF k
    <3>4. Tr!Here(c) = "auth" => k.token = "good" /\ k.user = "claims"
      BY <2>1, <2>5, <3>1, <3>2 DEF Tr!authenticate
    <3>5. \A i \in 1 .. k.depth : Tr!interceptors[i] = "auth" => k.token = "good" /\ k.user = "claims"
      BY <2>2, <2>3, <3>1, <3>2, <3>4 DEF d
    <3>6. k.depth <= Len(Tr!interceptors)
      BY <2>2, <3>2, GrpcChain DEF d
    <3> QED
      BY <2>1, <2>2, <2>7, <3>2, <3>3, <3>5, <3>6, GrpcCall
  <2> QED
    BY <2>4, <2>5
<1>8. ASSUME NEW c \in Calls, Tr!Handle(c) PROVE Tr!GrpcInv'
  <2>1. PICK k0 \in Tr!CallType : k0 = v13[c]
    BY DEF Tr!GrpcInv, Tr!GrpcType
  <2>2. PICK a \in {"OK", "error"} : v13' = [v13 EXCEPT ![c] = [k0 EXCEPT !.stage = "out", !.answer = a]]
    BY <1>8, <2>1 DEF Tr!Handle
  <2> DEFINE k == [k0 EXCEPT !.stage = "out", !.answer = a]
  <2>3. k \in Tr!CallType /\ k.stage = "out" /\ k.answer = a /\ k.depth = k0.depth
    BY DEF Tr!CallType
  <2>4. v13' = [v13 EXCEPT ![c] = k] /\ UNCHANGED <<v10, v11, v12>>
    BY <1>8, <2>2 DEF Tr!Handle
  <2> HIDE DEF k
  <2>5. k.depth <= Len(Tr!interceptors)
    BY <2>1, <2>3 DEF Tr!GrpcInv, Tr!OnItsWay
  <2> QED
    BY <2>3, <2>4, <2>5, GrpcCall
<1>9. ASSUME NEW c \in Calls, Tr!HandlerPanic(c) PROVE Tr!GrpcInv'
  <2>1. PICK k0 \in Tr!CallType : k0 = v13[c]
    BY DEF Tr!GrpcInv, Tr!GrpcType
  <2>2. PICK a \in {"Internal", "crash"} : /\ v13' = [v13 EXCEPT ![c] = [k0 EXCEPT !.stage = "out", !.answer = a]]
                                           /\ a = "crash" => ~(\E i \in 1 .. k0.depth : Tr!interceptors[i] = "recovery")
    BY <1>9, <2>1 DEF Tr!HandlerPanic
  <2> DEFINE k == [k0 EXCEPT !.stage = "out", !.answer = a]
  <2>3. k \in Tr!CallType /\ k.stage = "out" /\ k.answer = a /\ k.depth = k0.depth
    BY DEF Tr!CallType
  <2>4. v13' = [v13 EXCEPT ![c] = k] /\ UNCHANGED <<v10, v11, v12>>
    BY <1>9, <2>2 DEF Tr!HandlerPanic
  <2> HIDE DEF k
  <2>5. k0.depth <= Len(Tr!interceptors) /\ k0.depth \in Nat
    BY <2>1 DEF Tr!GrpcInv, Tr!OnItsWay, Tr!CallType
  <2>6. ASSUME Tr!withRecovery PROVE \E i \in 1 .. k0.depth : Tr!interceptors[i] = "recovery"
    <3>1. k0.depth = Len(Tr!interceptors) \/ Tr!interceptors[k0.depth + 1] # "recovery"
      BY <1>9, <2>1, <2>5, GrpcChain DEF Tr!HandlerPanic, Tr!Here
    <3> QED
      BY <2>5, <2>6, <3>1, GrpcChain
  <2> QED
    BY <2>2, <2>3, <2>4, <2>5, <2>6, GrpcCall
<1>10. ASSUME NEW c \in Calls, NEW t \in {"none", "bad", "good"}, Tr!Arrive(c, t) PROVE Tr!GrpcInv'
  <2> DEFINE k == [Tr!NoRpc EXCEPT !.stage = "in", !.token = t]
  <2>1. k \in Tr!CallType /\ k.depth = 0 /\ k.answer = "none"
    BY DEF Tr!NoRpc, Tr!CallType
  <2>2. v13' = [v13 EXCEPT ![c] = k] /\ UNCHANGED <<v10, v11, v12>> /\ v11 = "serving"
    BY <1>10 DEF Tr!Arrive
  <2> HIDE DEF k
  <2>3. k.depth <= Len(Tr!interceptors) /\ \A i \in 1 .. k.depth : FALSE
    BY <2>1, GrpcChain
  <2> QED
    BY <2>1, <2>2, <2>3, GrpcCall
<1>11. CASE UNCHANGED Tr!grVars
  BY <1>11 DEF Tr!grVars, Tr!GrpcInv, Tr!GrpcType, Tr!OnItsWay, Tr!InStep, Tr!Running
<1> QED
  BY <1>2, <1>3, <1>4, <1>5, <1>6, <1>7, <1>8, <1>9, <1>10, <1>11 DEF Tr!GrpcNext

\* The invariant of the grpc adapter implies the properties.
LEMMA GrpcSafe == Tr!GrpcInv => Tr!PanicsAnswered /\ Tr!HandlerHasClaims /\ Tr!NothingLeftRunning
<1> SUFFICES ASSUME Tr!GrpcInv PROVE Tr!PanicsAnswered /\ Tr!HandlerHasClaims /\ Tr!NothingLeftRunning
  OBVIOUS
<1>1. Tr!PanicsAnswered
  BY GrpcAssumption DEF Tr!GrpcInv, Tr!OnItsWay, Tr!PanicsAnswered, Tr!withRecovery
<1>2. Tr!HandlerHasClaims
  <2> SUFFICES ASSUME NEW c \in Calls, HasAuth, v13[c].stage = "in", Tr!Here(c) \in {"logging", "extra", "handler"}
               PROVE  v13[c].token = "good" /\ v13[c].user = "claims"
    BY DEF Tr!HandlerHasClaims
  <2>1. PICK k \in 0 .. Len(Tr!interceptors) : k = v13[c].depth
    BY GrpcChain DEF Tr!GrpcInv, Tr!GrpcType, Tr!CallType, Tr!OnItsWay
  <2>2. k = Len(Tr!interceptors) \/ Tr!interceptors[k + 1] \in {"logging", "extra"}
    BY <2>1, GrpcChain DEF Tr!Here
  <2>3. PICK i \in 1 .. k : Tr!interceptors[i] = "auth"
    BY <2>2, GrpcChain
  <2> QED
    BY <2>1, <2>3 DEF Tr!GrpcInv, Tr!OnItsWay
<1>3. Tr!NothingLeftRunning
  BY DEF Tr!GrpcInv, Tr!InStep, Tr!NothingLeftRunning
<1> QED
  BY <1>1, <1>2, <1>3

-----------------------------------------------------------------------------
(***************************************************************************)
(* Storage, the instance St: its variables are v1 dir, v2 inode, v3 op, v4 *)
(* rows, v5 seq, v6 copy, v7 outdated, v8 gone, v9 stale, v10 chunk, v11   *)
(* always.                                                                 *)
(***************************************************************************)

\* The invariant of the local disk holds initially.
LEMMA DiskStart == St!DiskInit => St!DiskInv
BY DiskAssumption DEF St!DiskInit, St!DiskInv, St!DiskType, St!AtWork, St!WholeFiles, St!NoTempLeft, St!Idle, St!DirEntries, St!tmpName

\* Every step of the local disk preserves the invariant.
LEMMA DiskStep == St!DiskInv /\ [St!DiskNext]_St!fsVars => St!DiskInv'
<1> SUFFICES ASSUME St!DiskInv, [St!DiskNext]_St!fsVars PROVE St!DiskInv'
  OBVIOUS
<1> USE DiskAssumption DEF St!DiskInv, St!DiskType, St!AtWork, St!WholeFiles, St!NoTempLeft, St!Idle, St!DirEntries, St!tmpName
<1>1. ASSUME NEW w \in Writers, NEW p \in Paths, St!PutStream(w, p) PROVE St!DiskInv'
  BY <1>1 DEF St!PutStream, St!InUse, St!Copying
<1>2. ASSUME NEW w \in Writers, NEW s \in Paths, NEW d \in Paths, St!CopyFile(w, s, d) PROVE St!DiskInv'
  BY <1>2 DEF St!CopyFile, St!InUse, St!Copying
<1>3. ASSUME NEW w \in Writers, St!Chunk(w) PROVE St!DiskInv'
  BY <1>3 DEF St!Chunk
<1>4. ASSUME NEW w \in Writers, St!Rename(w) PROVE St!DiskInv'
  BY <1>4 DEF St!Rename, St!target, St!atEnd
<1>5. ASSUME NEW w \in Writers, St!Fails(w) PROVE St!DiskInv'
  BY <1>5 DEF St!Fails, St!removeTmp
<1>6. ASSUME NEW p \in Paths, St!DeleteFile(p) PROVE St!DiskInv'
  BY <1>6 DEF St!DeleteFile
<1>7. ASSUME NEW s \in Paths, NEW d \in Paths, St!Move(s, d) PROVE St!DiskInv'
  BY <1>7 DEF St!Move
<1>8. CASE UNCHANGED St!fsVars
  BY <1>8 DEF St!fsVars
<1> QED
  BY <1>1, <1>2, <1>3, <1>4, <1>5, <1>6, <1>7, <1>8 DEF St!DiskNext

\* The invariant of models and queries holds initially.
LEMMA OrmStart == St!OrmInit => St!OrmInv
<1> SUFFICES ASSUME St!OrmInit PROVE St!OrmInv
  OBVIOUS
<1>0. MaxRows \in Nat
  BY OrmAssumption
<1>1. St!NoCopy \in [pk : Int, created : BOOLEAN, deleted : BOOLEAN] /\ St!NoCopy.pk = -1
  BY DEF St!NoCopy, St!Copy
<1>2. DOMAIN v4 = {} /\ v5 = 0 /\ v8 = {} /\ v11 = {} /\ v4 \in [DOMAIN v4 -> St!Row]
  BY DEF St!OrmInit
<1>3. v6 \in [Callers -> [pk : Int, created : BOOLEAN, deleted : BOOLEAN]] /\ \A p \in Callers : v6[p].pk = -1
  BY <1>1 DEF St!OrmInit
<1>4. /\ v10 \in [pc : {"new", "on", "done"}, last : Nat, seen : [1 .. MaxRows -> Nat]]
      /\ v10.pc = "new" /\ v10.last = 0 /\ \A k \in 1 .. MaxRows : v10.seen[k] = 0
  BY <1>0 DEF St!OrmInit
<1>5. St!OrmType
  BY <1>0, <1>2, <1>3 DEF St!OrmType
<1>6. St!ChunkInv
  BY <1>2, <1>4 DEF St!ChunkInv
<1> QED
  BY <1>2, <1>5, <1>6 DEF St!OrmInv, St!CreatedAtKept, St!CopiesKnown, St!DeletedStays

\* A step that writes rows while a Chunk is under way.
LEMMA OrmRowsChange ==
  ASSUME St!OrmInv, v5' \in 0 .. MaxRows, v5 <= v5', v11' = v11 \cap St!Live(v4'), v10' = v10
  PROVE  St!ChunkInv'
<1>1. v5 \in Nat /\ v10.last \in Nat /\ v11' \in SUBSET v11
  BY DEF St!OrmInv, St!OrmType, St!ChunkInv
<1>2. v10.last <= v5'
  BY <1>1 DEF St!OrmInv, St!ChunkInv
<1>3. v11' \in SUBSET St!Live(v4')
  OBVIOUS
<1> QED
  BY <1>1, <1>2, <1>3 DEF St!OrmInv, St!ChunkInv

\* Chunk begins: the rows that are there from now on are those that are live.
LEMMA ChunkStarts == St!OrmInv /\ St!ChunkStart => St!ChunkInv'
<1> SUFFICES ASSUME St!OrmInv, St!ChunkStart PROVE St!ChunkInv'
  OBVIOUS
<1> DEFINE c == [v10 EXCEPT !.pc = "on"]
<1>1. /\ v10 \in [pc : {"new", "on", "done"}, last : Nat, seen : [1 .. MaxRows -> Nat]]
      /\ v10.pc = "new" /\ v10.last = 0
  BY DEF St!OrmInv, St!ChunkInv, St!ChunkStart
<1>2. /\ c \in [pc : {"new", "on", "done"}, last : Nat, seen : [1 .. MaxRows -> Nat]]
      /\ c.pc = "on" /\ c.last = 0 /\ c.seen = v10.seen
  BY <1>1
<1>3. v10' = c /\ v11' = St!Live(v4) /\ v4' = v4 /\ v5' = v5
  BY DEF St!ChunkStart
<1> HIDE DEF c
<1>4. \A k \in v11' : k \in Nat /\ ~(k <= 0)
  BY <1>3 DEF St!Live, St!OrmInv, St!OrmType
<1>5. 0 <= v5
  BY DEF St!OrmInv, St!OrmType
<1>6. \A k \in 1 .. MaxRows : v10.seen[k] = 0
  BY <1>1 DEF St!OrmInv, St!ChunkInv
<1> QED
  BY <1>2, <1>3, <1>4, <1>5, <1>6 DEF St!ChunkInv

\* A batch of Chunk: the first Size rows after the last one visited.
LEMMA BatchIsFirst ==
  ASSUME St!OrmInv
  PROVE  /\ St!batch \in SUBSET St!remaining /\ St!remaining \in SUBSET (1 .. v5) /\ St!remaining \in SUBSET St!Live(v4)
         /\ \A k \in St!batch, j \in St!remaining : j <= k => j \in St!batch
         /\ Cardinality(St!batch) < Size => St!batch = St!remaining
         /\ St!batch # {} => St!final \in St!batch /\ \A j \in St!batch : j <= St!final
<1>0. v5 \in Nat /\ DOMAIN v4 \in SUBSET (1 .. v5) /\ Size \in Nat
  BY OrmAssumption DEF St!OrmInv, St!OrmType
<1>1. St!batch \in SUBSET St!remaining /\ St!remaining \in SUBSET (1 .. v5) /\ St!remaining \in SUBSET St!Live(v4)
  BY StCounts, <1>0 DEF St!batch, St!remaining, St!Live
<1>2. IsFiniteSet(St!remaining) /\ IsFiniteSet(St!batch)
  <2>1. IsFiniteSet(1 .. v5)
    BY StCounts, <1>0, FS_Interval
  <2>2. IsFiniteSet(St!remaining)
    BY StCounts, <1>1, <2>1, FS_Subset
  <2> QED
    BY StCounts, <1>1, <2>2, FS_Subset
<1> DEFINE Before(k) == {j \in St!remaining : j < k}
<1>3. \A k \in St!remaining : IsFiniteSet(Before(k)) /\ Cardinality(Before(k)) \in Nat
  BY StCounts, <1>2, FS_Subset, FS_CardinalityType
<1>4. \A k \in St!remaining : k \in St!batch <=> Cardinality(Before(k)) < Size
  BY StCounts DEF St!batch
<1>5. ASSUME NEW k \in St!batch, NEW j \in St!remaining, j <= k PROVE j \in St!batch
  <2>1. k \in Nat /\ j \in Nat /\ k \in St!remaining
    BY <1>0, <1>1
  <2>2. Before(j) \in SUBSET Before(k)
    <3> SUFFICES ASSUME NEW i \in St!remaining, i < j PROVE i < k
      OBVIOUS
    <3>1. i \in Nat
      BY <1>0, <1>1
    <3> QED
      BY <1>5, <2>1, <3>1
  <2>3. Cardinality(Before(j)) <= Cardinality(Before(k))
    BY StCounts, <1>3, <2>1, <2>2, FS_Subset
  <2> HIDE DEF Before
  <2> QED
    BY <1>0, <1>3, <1>4, <2>1, <2>3
<1>6. ASSUME Cardinality(St!batch) < Size, St!batch # St!remaining PROVE FALSE
  <2> DEFINE R == St!remaining \ St!batch
  <2>1. R \in SUBSET Nat /\ R # {}
    <3>1. St!remaining \in SUBSET Nat
      BY <1>0, <1>1
    <3>2. R # {}
      BY <1>1, <1>6
    <3> QED
      BY <3>1, <3>2
  <2>2. PICK k \in R : \A y \in R : k <= y
    BY <2>1, LeastNat
  <2>3. Before(k) \in SUBSET St!batch
    <3> SUFFICES ASSUME NEW i \in St!remaining, i < k PROVE i \in St!batch
      OBVIOUS
    <3>1. i \in Nat /\ k \in Nat
      BY <1>0, <1>1, <2>1, <2>2
    <3>2. i \notin R
      BY <2>2, <3>1
    <3> QED
      BY <3>2
  <2>4. Cardinality(Before(k)) <= Cardinality(St!batch) /\ Cardinality(St!batch) \in Nat
    BY StCounts, <1>2, <2>3, FS_Subset, FS_CardinalityType
  <2> HIDE DEF Before
  <2> QED
    BY <1>0, <1>3, <1>4, <1>6, <2>2, <2>4
<1>7. ASSUME St!batch # {} PROVE St!final \in St!batch /\ \A j \in St!batch : j <= St!final
  <2>1. St!batch \in SUBSET (0 .. v5)
    BY <1>0, <1>1
  <2>2. \E k \in St!batch : \A j \in St!batch : j <= k
    BY <1>0, <1>7, <2>1, GreatestNat
  <2> QED
    BY <2>2 DEF St!final
<1> QED
  BY <1>1, <1>5, <1>6, <1>7

\* Chunk takes a batch: the rows passed by have been visited or were not there all the time.
LEMMA ChunkBatches == St!OrmInv /\ St!ChunkBatch => St!ChunkInv'
<1> SUFFICES ASSUME St!OrmInv, St!ChunkBatch PROVE St!ChunkInv'
  OBVIOUS
<1> DEFINE T == [pc : {"new", "on", "done"}, last : Nat, seen : [1 .. MaxRows -> Nat]]
<1>0. /\ v10 \in T /\ v10.pc = "on" /\ v5 \in Nat /\ v5 <= MaxRows /\ MaxRows \in Nat /\ v10.last <= v5
      /\ v11 \in SUBSET St!Live(v4) /\ (\A k \in v11 : k <= v10.last => v10.seen[k] = 1)
      /\ \A k \in 1 .. MaxRows : v10.seen[k] = 0 \/ (v10.seen[k] = 1 /\ k <= v10.last)
  BY StCounts, OrmAssumption DEF St!OrmInv, St!OrmType, St!ChunkInv, St!ChunkBatch
<1>1. PICK pc \in {"on", "done"} : pc = IF Cardinality(St!batch) < Size THEN "done" ELSE "on"
  OBVIOUS
<1>2. v10.last \in Nat /\ v10.seen \in [1 .. MaxRows -> Nat]
  BY <1>0
<1>3. PICK last \in Nat : /\ last = (IF St!batch = {} THEN v10.last ELSE St!final) /\ v10.last <= last /\ last <= v5
                          /\ (\A k \in St!batch : k <= last)
                          /\ (\A k \in St!remaining : k <= last => k \in St!batch)
  <2>1. CASE St!batch = {}
    <3>1. \A k \in St!remaining : k \in Nat /\ ~(k <= v10.last)
      BY <1>0, <1>2, BatchIsFirst DEF St!remaining
    <3> QED
      BY <1>0, <1>2, <2>1, <3>1
  <2>2. CASE St!batch # {}
    <3>1. St!final \in St!batch /\ (\A j \in St!batch : j <= St!final) /\ (\A j \in St!remaining : j <= St!final => j \in St!batch)
      BY <2>2, BatchIsFirst
    <3>2. St!final \in Nat /\ St!final <= v5 /\ v10.last <= St!final
      <4>1. St!final \in St!remaining /\ St!final \in 1 .. v5
        BY <3>1, BatchIsFirst
      <4>2. St!final > v10.last
        BY <4>1 DEF St!remaining
      <4> QED
        BY <1>0, <1>2, <4>1, <4>2
    <3> QED
      BY <2>2, <3>1, <3>2
  <2> QED
    BY <2>1, <2>2
<1> DEFINE sn == [k \in 1 .. MaxRows |-> IF k \in St!batch THEN v10.seen[k] + 1 ELSE v10.seen[k]]
           c == [pc |-> pc, last |-> last, seen |-> sn]
<1>4. sn \in [1 .. MaxRows -> Nat] /\ \A k \in 1 .. MaxRows : sn[k] = IF k \in St!batch THEN v10.seen[k] + 1 ELSE v10.seen[k]
  <2>1. PICK old \in [1 .. MaxRows -> Nat] : old = v10.seen
    BY <1>2
  <2>2. sn = [k \in 1 .. MaxRows |-> IF k \in St!batch THEN old[k] + 1 ELSE old[k]]
    BY <2>1
  <2> HIDE DEF sn
  <2>3. sn \in [1 .. MaxRows -> Nat] /\ \A k \in 1 .. MaxRows : sn[k] = IF k \in St!batch THEN old[k] + 1 ELSE old[k]
    BY <2>2
  <2> QED
    BY <2>1, <2>3
<1> HIDE DEF sn
<1>5. c \in T /\ c.pc = pc /\ c.last = last /\ c.seen = sn
  BY <1>4
<1>6. v10' = c /\ UNCHANGED <<v4, v5, v11>>
  BY StCounts, <1>1, <1>3 DEF St!ChunkBatch, sn
<1> HIDE DEF c
<1>7. \A k \in St!batch : k \in 1 .. MaxRows /\ v10.seen[k] = 0 /\ ~(k <= v10.last)
  <2> SUFFICES ASSUME NEW k \in St!batch PROVE k \in 1 .. MaxRows /\ v10.seen[k] = 0 /\ ~(k <= v10.last)
    OBVIOUS
  <2>1. k \in St!remaining /\ k \in 1 .. v5
    BY BatchIsFirst
  <2>2. k > v10.last /\ k \in 1 .. MaxRows
    BY <1>0, <2>1 DEF St!remaining
  <2> QED
    BY <1>0, <1>2, <2>2
<1>8. \A k \in 1 .. MaxRows : sn[k] = 0 \/ (sn[k] = 1 /\ k <= last)
  <2> SUFFICES ASSUME NEW k \in 1 .. MaxRows PROVE sn[k] = 0 \/ (sn[k] = 1 /\ k <= last)
    OBVIOUS
  <2>1. CASE k \in St!batch
    BY <1>3, <1>4, <1>7, <2>1
  <2>2. CASE k \notin St!batch
    <3>1. sn[k] = v10.seen[k] /\ (v10.seen[k] = 0 \/ (v10.seen[k] = 1 /\ k <= v10.last))
      BY <1>0, <1>4, <2>2
    <3>2. k \in Int /\ (k <= v10.last => k <= last)
      BY <1>2, <1>3
    <3> QED
      BY <3>1, <3>2
  <2> QED
    BY <2>1, <2>2
<1>9. ASSUME NEW k \in v11, k <= last PROVE sn[k] = 1
  <2>0. k \in St!Live(v4) /\ k \in 1 .. v5 /\ k \in 1 .. MaxRows /\ k \in Nat
    BY <1>0 DEF St!Live, St!OrmInv, St!OrmType
  <2>1. CASE k <= v10.last
    <3>1. v10.seen[k] = 1 /\ k \notin St!batch
      BY <1>0, <1>7, <2>1
    <3> QED
      BY <1>4, <2>0, <3>1
  <2>2. CASE ~(k <= v10.last)
    <3>1. k \in St!remaining
      BY <1>2, <2>0, <2>2 DEF St!remaining
    <3>2. k \in St!batch /\ v10.seen[k] = 0
      BY <1>3, <1>7, <1>9, <3>1
    <3> QED
      BY <1>4, <2>0, <3>2
  <2> QED
    BY <2>1, <2>2
<1>10. ASSUME pc = "done", NEW k \in v11 PROVE k <= last
  <2>0. St!batch = St!remaining
    BY <1>1, <1>10, BatchIsFirst
  <2>1. k \in St!Live(v4) /\ k \in Nat
    BY <1>0 DEF St!Live, St!OrmInv, St!OrmType
  <2>2. CASE k <= v10.last
    BY <1>2, <1>3, <2>1, <2>2
  <2>3. CASE ~(k <= v10.last)
    BY <1>2, <1>3, <2>0, <2>1, <2>3 DEF St!remaining
  <2> QED
    BY <2>2, <2>3
<1> QED
  BY <1>0, <1>3, <1>5, <1>6, <1>8, <1>9, <1>10 DEF St!ChunkInv

\* Every step of models and queries preserves the invariant.
LEMMA OrmSteps == St!OrmInv /\ [St!OrmNext]_St!ormVars => St!OrmInv'
<1> SUFFICES ASSUME St!OrmInv, [St!OrmNext]_St!ormVars PROVE St!OrmInv'
  OBVIOUS
<1> DEFINE CopyT == [pk : Int, created : BOOLEAN, deleted : BOOLEAN]
<1>0. /\ v5 \in Nat /\ v5 <= MaxRows /\ MaxRows \in Nat /\ DOMAIN v4 \in SUBSET (1 .. v5) /\ v4 \in [DOMAIN v4 -> St!Row]
      /\ v6 \in [Callers -> CopyT] /\ (\A p \in Callers : v6[p].pk <= v5) /\ v8 \in SUBSET (1 .. v5)
  BY OrmAssumption DEF St!OrmInv, St!OrmType
<1>c. ASSUME v5' = v5, v10' = v10, v11' = v11, v4' = v4 PROVE St!ChunkInv'
  BY <1>c DEF St!OrmInv, St!ChunkInv
\* A caller takes a copy c.
<1>h. ASSUME NEW p \in Callers, NEW c \in CopyT, St!Hold(p, c), UNCHANGED <<v4, v5, v8, v9, v10, v11>>,
             c.pk <= v5, c.pk \in v8 \cap DOMAIN v4 /\ ~c.deleted => c.pk \in v9
      PROVE  St!OrmInv'
  <2>1. v6' \in [Callers -> CopyT] /\ \A q \in Callers : v6'[q] = IF q = p THEN c ELSE v6[q]
    BY <1>0, <1>h DEF St!Hold
  <2>2. v7' = v7 \ {p}
    BY <1>h DEF St!Hold
  <2> HIDE DEF CopyT
  <2>3. St!CopiesKnown'
    BY <1>h, <2>1, <2>2 DEF St!OrmInv, St!CopiesKnown
  <2>4. St!OrmType'
    BY <1>0, <1>h, <2>1 DEF St!OrmType, CopyT
  <2> QED
    BY <1>c, <1>h, <2>3, <2>4 DEF St!OrmInv, St!CreatedAtKept, St!DeletedStays
<1>1. ASSUME NEW p \in Callers, NEW k \in DOMAIN v4, St!Find(p, k) PROVE St!OrmInv'
  <2> DEFINE c == St!Copy(k, v4[k].created, v4[k].deleted)
  <2>1. v4[k] \in St!Row /\ k \in Int /\ k <= v5
    BY <1>0
  <2>2. c \in CopyT /\ c.pk = k /\ c.deleted = v4[k].deleted
    BY <2>1 DEF St!Copy, St!Row
  <2>3. St!Hold(p, c) /\ UNCHANGED <<v4, v5, v8, v9, v10, v11>>
    BY <1>1 DEF St!Find
  <2> HIDE DEF c, CopyT
  <2>4. c.pk \in v8 \cap DOMAIN v4 /\ ~c.deleted => c.pk \in v9
    BY <2>2 DEF St!OrmInv, St!DeletedStays
  <2> QED
    BY <1>h, <2>1, <2>2, <2>3, <2>4
<1>2. ASSUME NEW p \in Callers, NEW k \in DOMAIN v4, St!ByHand(p, k) PROVE St!OrmInv'
  <2> DEFINE c == St!Copy(k, FALSE, FALSE)
  <2>1. k \in Int /\ k <= v5 /\ ~v4[k].deleted
    BY <1>0, <1>2 DEF St!ByHand, St!Live
  <2>2. c \in CopyT /\ c.pk = k
    BY <2>1 DEF St!Copy
  <2>3. St!Hold(p, c) /\ UNCHANGED <<v4, v5, v8, v9, v10, v11>>
    BY <1>2 DEF St!ByHand
  <2> HIDE DEF c, CopyT
  <2>4. c.pk \in v8 \cap DOMAIN v4 => c.pk \in v9
    BY <2>1, <2>2 DEF St!OrmInv, St!DeletedStays
  <2> QED
    BY <1>h, <2>1, <2>2, <2>3, <2>4
<1>3. ASSUME NEW p \in Callers, St!NewModel(p) PROVE St!OrmInv'
  <2> DEFINE c == St!Copy(0, FALSE, FALSE)
  <2>2. c \in CopyT /\ c.pk = 0
    BY DEF St!Copy
  <2>3. St!Hold(p, c) /\ UNCHANGED <<v4, v5, v8, v9, v10, v11>>
    BY <1>3 DEF St!NewModel
  <2> HIDE DEF c, CopyT
  <2>4. c.pk <= v5 /\ c.pk \notin v8
    BY <1>0, <2>2
  <2> QED
    BY <1>h, <2>2, <2>3, <2>4
<1>4. ASSUME NEW p \in Callers, St!SaveNew(p) PROVE St!OrmInv'
  <2> DEFINE n == v5 + 1  c == St!Copy(n, TRUE, v6[p].deleted)  r == [created |-> TRUE, deleted |-> v6[p].deleted]
  <2>1. v5' = n /\ n \in 0 .. MaxRows /\ n \in Nat /\ n \notin DOMAIN v4 /\ n \notin v8 /\ v5 <= v5'
    BY <1>0, <1>4 DEF St!SaveNew
  <2>2. v6[p] \in CopyT
    BY <1>0
  <2>3. c \in CopyT /\ c.pk = n
    BY <2>1, <2>2 DEF St!Copy
  <2>4. r \in St!Row /\ r.created
    BY <2>2 DEF St!Row
  <2>5. /\ v4' = [k \in DOMAIN v4 \cup {n} |-> IF k = n THEN r ELSE v4[k]] /\ v6' = [v6 EXCEPT ![p] = c]
        /\ v11' = v11 \cap St!Live(v4') /\ UNCHANGED <<v7, v8, v9, v10>>
    BY <1>4 DEF St!SaveNew, St!Track
  <2> HIDE DEF c, r
  <2>6. /\ DOMAIN v4' = DOMAIN v4 \cup {n} /\ v4' \in [DOMAIN v4 \cup {n} -> St!Row]
        /\ \A k \in DOMAIN v4' : v4'[k] = IF k = n THEN r ELSE v4[k]
    BY <1>0, <2>4, <2>5
  <2>7. v6' \in [Callers -> CopyT] /\ \A q \in Callers : v6'[q] = IF q = p THEN c ELSE v6[q]
    BY <1>0, <2>3, <2>5
  <2> HIDE DEF CopyT
  <2>8. St!OrmType'
    <3>1. DOMAIN v4' \in SUBSET (1 .. n) /\ v8' \in SUBSET (1 .. n)
      BY <1>0, <2>1, <2>5, <2>6
    <3>2. \A q \in Callers : v6'[q].pk <= n
      <4> SUFFICES ASSUME NEW q \in Callers PROVE v6'[q].pk <= n
        OBVIOUS
      <4>1. v6[q] \in CopyT /\ v6[q].pk <= v5
        BY <1>0
      <4>2. v6[q].pk \in Int
        BY <4>1 DEF CopyT
      <4> QED
        BY <1>0, <2>1, <2>3, <2>7, <4>1, <4>2
    <3> QED
      BY <2>1, <2>6, <2>7, <3>1, <3>2 DEF St!OrmType, CopyT
  <2>9. St!CreatedAtKept' /\ St!DeletedStays' /\ St!CopiesKnown'
    BY <2>1, <2>3, <2>4, <2>5, <2>6, <2>7 DEF St!OrmInv, St!CreatedAtKept, St!DeletedStays, St!CopiesKnown
  <2>10. St!ChunkInv'
    BY <2>1, <2>5, OrmRowsChange
  <2> QED
    BY <2>8, <2>9, <2>10 DEF St!OrmInv
<1>5. ASSUME NEW p \in Callers, St!SaveUpdate(p) PROVE St!OrmInv'
  <2>1. PICK k \in Int : k = v6[p].pk
    BY <1>0
  <2> DEFINE r == St!collectUpdateValues(p, v4[k])
  <2>2. /\ v4' = [j \in DOMAIN v4 |-> IF j = k THEN r ELSE v4[j]]
        /\ v9' = (IF p \in v7 THEN v9 \cup {k} ELSE v9)
        /\ v11' = v11 \cap St!Live(v4') /\ UNCHANGED <<v5, v6, v7, v8, v10>>
    BY <1>5, <2>1 DEF St!SaveUpdate, St!Track
  <2>3. v6[p] \in CopyT
    BY <1>0
  <2>4. k \in DOMAIN v4 => r \in St!Row /\ r.created = v4[k].created /\ r.deleted = v6[p].deleted
    BY <1>0, <2>3 DEF St!Row, St!collectUpdateValues
  <2> HIDE DEF r, CopyT
  <2>5. /\ DOMAIN v4' = DOMAIN v4 /\ v4' \in [DOMAIN v4 -> St!Row]
        /\ \A j \in DOMAIN v4 : v4'[j] = IF j = k THEN r ELSE v4[j]
    BY <1>0, <2>2, <2>4
  <2>6. St!OrmType'
    BY <2>2, <2>5 DEF St!OrmInv, St!OrmType
  <2>7. St!CreatedAtKept'
    BY <2>4, <2>5 DEF St!OrmInv, St!CreatedAtKept
  <2>8. St!CopiesKnown'
    BY <2>2, <2>5 DEF St!OrmInv, St!CopiesKnown
  <2>9. St!DeletedStays'
    BY <2>1, <2>2, <2>4, <2>5 DEF St!OrmInv, St!DeletedStays, St!CopiesKnown
  <2>10. St!ChunkInv'
    BY <1>0, <2>2, OrmRowsChange
  <2> QED
    BY <2>6, <2>7, <2>8, <2>9, <2>10 DEF St!OrmInv
\* Delete and Restore stamp a row and the caller's copy of it.
<1>s. ASSUME NEW p \in Callers, NEW d \in BOOLEAN, St!Stamp(p, d), v5' = v5, v10' = v10, v8' \in SUBSET (1 .. v5)
      PROVE  /\ St!OrmType' /\ St!CreatedAtKept' /\ St!ChunkInv' /\ DOMAIN v4' = DOMAIN v4
             /\ \A j \in DOMAIN v4 : v4'[j].deleted = IF j = v6[p].pk THEN d ELSE v4[j].deleted
             /\ \A q \in Callers : v6'[q].pk = v6[q].pk /\ v6'[q].deleted = IF q = p THEN d ELSE v6[q].deleted
  <2>1. PICK k \in Int : k = v6[p].pk
    BY <1>0
  <2>2. v6[p] \in CopyT
    BY <1>0
  <2> DEFINE c == [v6[p] EXCEPT !.deleted = d]  r(j) == [v4[j] EXCEPT !.deleted = d]
  <2>3. c \in CopyT /\ c.pk = v6[p].pk /\ c.deleted = d
    BY <2>2
  <2>4. ASSUME NEW j \in DOMAIN v4 PROVE r(j) \in St!Row /\ r(j).created = v4[j].created /\ r(j).deleted = d
    <3>1. v4[j] \in St!Row
      BY <1>0
    <3> QED
      BY <3>1 DEF St!Row
  <2>5. /\ v4' = [j \in DOMAIN v4 |-> IF j = k THEN r(j) ELSE v4[j]] /\ v6' = [v6 EXCEPT ![p] = c]
        /\ v11' = v11 \cap St!Live(v4')
    BY <1>s, <2>1 DEF St!Stamp, St!Track, St!setDeletedAt
  <2> HIDE DEF c, r
  <2>6. /\ DOMAIN v4' = DOMAIN v4 /\ v4' \in [DOMAIN v4 -> St!Row]
        /\ \A j \in DOMAIN v4 : v4'[j] = IF j = k THEN r(j) ELSE v4[j]
    BY <1>0, <2>4, <2>5
  <2>7. v6' \in [Callers -> CopyT] /\ \A q \in Callers : v6'[q] = IF q = p THEN c ELSE v6[q]
    BY <1>0, <2>3, <2>5
  <2> HIDE DEF CopyT
  <2>8. St!OrmType'
    BY <1>0, <1>s, <2>3, <2>6, <2>7 DEF St!OrmInv, St!OrmType, CopyT
  <2>9. St!CreatedAtKept'
    BY <2>4, <2>6 DEF St!OrmInv, St!CreatedAtKept
  <2>10. St!ChunkInv'
    BY <1>0, <1>s, <2>5, OrmRowsChange
  <2> QED
    BY <2>1, <2>3, <2>4, <2>6, <2>7, <2>8, <2>9, <2>10
<1>6. ASSUME NEW p \in Callers, St!Delete(p) PROVE St!OrmInv'
  <2>1. PICK k \in Int : k = v6[p].pk
    BY <1>0
  <2>2. /\ St!Stamp(p, TRUE) /\ v5' = v5 /\ v10' = v10 /\ v9' = v9 \ {k} /\ v8' = v8 \cup ({k} \cap DOMAIN v4)
        /\ v7' = (v7 \cup {q \in Callers \ {p} : v6[q].pk = k /\ ~v6[q].deleted}) \ {p}
    BY <1>6, <2>1 DEF St!Delete
  <2>3. v8' \in SUBSET (1 .. v5)
    BY <1>0, <2>2
  <2>4. /\ St!OrmType' /\ St!CreatedAtKept' /\ St!ChunkInv' /\ DOMAIN v4' = DOMAIN v4
        /\ \A j \in DOMAIN v4 : v4'[j].deleted = IF j = k THEN TRUE ELSE v4[j].deleted
        /\ \A q \in Callers : v6'[q].pk = v6[q].pk /\ v6'[q].deleted = IF q = p THEN TRUE ELSE v6[q].deleted
    <3>1. v5' = v5 /\ v10' = v10 /\ TRUE \in BOOLEAN
      BY <2>2
    <3>2. /\ St!OrmType' /\ St!CreatedAtKept' /\ St!ChunkInv' /\ DOMAIN v4' = DOMAIN v4
          /\ \A j \in DOMAIN v4 : v4'[j].deleted = IF j = v6[p].pk THEN TRUE ELSE v4[j].deleted
          /\ \A q \in Callers : v6'[q].pk = v6[q].pk /\ v6'[q].deleted = IF q = p THEN TRUE ELSE v6[q].deleted
      BY <1>s, <2>2, <2>3, <3>1, Zenon
    <3> QED
      BY <2>1, <3>2
  <2>5. St!DeletedStays'
    BY <2>2, <2>4 DEF St!OrmInv, St!DeletedStays
  <2>6. St!CopiesKnown'
    BY <2>1, <2>2, <2>4 DEF St!OrmInv, St!CopiesKnown
  <2> QED
    BY <2>4, <2>5, <2>6 DEF St!OrmInv
<1>7. ASSUME NEW p \in Callers, St!Restore(p) PROVE St!OrmInv'
  <2>1. PICK k \in Int : k = v6[p].pk
    BY <1>0
  <2>2. St!Stamp(p, FALSE) /\ v8' = v8 \ {k} /\ UNCHANGED <<v5, v7, v9, v10>>
    BY <1>7, <2>1 DEF St!Restore
  <2>3. v8' \in SUBSET (1 .. v5)
    BY <1>0, <2>2
  <2>4. /\ St!OrmType' /\ St!CreatedAtKept' /\ St!ChunkInv' /\ DOMAIN v4' = DOMAIN v4
        /\ \A j \in DOMAIN v4 : v4'[j].deleted = IF j = k THEN FALSE ELSE v4[j].deleted
        /\ \A q \in Callers : v6'[q].pk = v6[q].pk /\ v6'[q].deleted = IF q = p THEN FALSE ELSE v6[q].deleted
    <3>1. v5' = v5 /\ v10' = v10 /\ FALSE \in BOOLEAN
      BY <2>2
    <3>2. /\ St!OrmType' /\ St!CreatedAtKept' /\ St!ChunkInv' /\ DOMAIN v4' = DOMAIN v4
          /\ \A j \in DOMAIN v4 : v4'[j].deleted = IF j = v6[p].pk THEN FALSE ELSE v4[j].deleted
          /\ \A q \in Callers : v6'[q].pk = v6[q].pk /\ v6'[q].deleted = IF q = p THEN FALSE ELSE v6[q].deleted
      BY <1>s, <2>2, <2>3, <3>1, Zenon
    <3> QED
      BY <2>1, <3>2
  <2>5. St!DeletedStays'
    BY <2>2, <2>4 DEF St!OrmInv, St!DeletedStays
  <2>6. St!CopiesKnown'
    BY <2>1, <2>2, <2>4 DEF St!OrmInv, St!CopiesKnown
  <2> QED
    BY <2>4, <2>5, <2>6 DEF St!OrmInv
<1>8. ASSUME NEW p \in Callers, St!ForceDelete(p) PROVE St!OrmInv'
  <2>1. /\ v4' = [j \in DOMAIN v4 \ {v6[p].pk} |-> v4[j]] /\ v11' = v11 \cap St!Live(v4')
        /\ UNCHANGED <<v5, v6, v7, v8, v9, v10>>
    BY <1>8 DEF St!ForceDelete, St!Track
  <2>2. /\ DOMAIN v4' \in SUBSET DOMAIN v4 /\ v4' \in [DOMAIN v4' -> St!Row]
        /\ \A j \in DOMAIN v4' : v4'[j] = v4[j]
    BY <1>0, <2>1
  <2>3. St!OrmType'
    BY <1>0, <2>1, <2>2 DEF St!OrmType
  <2>4. St!CreatedAtKept' /\ St!DeletedStays' /\ St!CopiesKnown'
    BY <2>1, <2>2 DEF St!OrmInv, St!CreatedAtKept, St!DeletedStays, St!CopiesKnown
  <2>5. St!ChunkInv'
    BY <1>0, <2>1, OrmRowsChange
  <2> QED
    BY <2>3, <2>4, <2>5 DEF St!OrmInv
<1>9. ASSUME St!ChunkStart \/ St!ChunkBatch PROVE St!OrmInv'
  <2>1. UNCHANGED <<v4, v5, v6, v7, v8, v9>>
    BY StCounts, <1>9 DEF St!ChunkStart, St!ChunkBatch
  <2>2. St!ChunkInv'
    BY <1>9, ChunkStarts, ChunkBatches
  <2>3. St!OrmType' /\ St!CreatedAtKept' /\ St!CopiesKnown' /\ St!DeletedStays'
    BY <2>1 DEF St!OrmInv, St!OrmType, St!CreatedAtKept, St!CopiesKnown, St!DeletedStays
  <2> QED
    BY <2>2, <2>3 DEF St!OrmInv
<1>10. CASE UNCHANGED St!ormVars
  BY <1>10 DEF St!ormVars, St!OrmInv, St!OrmType, St!CreatedAtKept, St!CopiesKnown, St!DeletedStays, St!ChunkInv
<1> QED
  BY <1>1, <1>2, <1>3, <1>4, <1>5, <1>6, <1>7, <1>8, <1>9, <1>10 DEF St!OrmNext

\* The invariant of models and queries implies the properties.
LEMMA OrmSafe == St!OrmInv => St!ChunkOnce /\ St!CreatedAtKept /\ St!DeletedStays
BY OrmAssumption DEF St!OrmInv, St!ChunkInv, St!ChunkOnce

-----------------------------------------------------------------------------
(***************************************************************************)
(* The parts together.                                                     *)
(***************************************************************************)

\* A step stays in its part and is a step of that part, or changes nothing of it.
LEMMA PartsApart ==
  ASSUME [OuterNext]_vars
  PROVE  /\ part' = part
         /\ part = "migrator" => [Mig!Next]_Mig!migVars
         /\ part = "session" => [Ses!Next]_Ses!sesVars
         /\ part = "onetime" => [Aut!AccountNext]_Aut!accountVars
         /\ part = "access" => [Aut!AccessNext]_Aut!accessVars
         /\ part = "throttle" => [Aut!ThrottleNext]_Aut!throttleVars
         /\ part = "authz" => [Az!Next]_Az!azVars
         /\ part = "httpclient" => [Tr!ClientNext]_Tr!hcVars
         /\ part = "web" => [Tr!WebNext]_Tr!webVars
         /\ part = "grpc" => [Tr!GrpcNext]_Tr!grVars
         /\ part = "disk" => [St!DiskNext]_St!fsVars
         /\ part = "orm" => [St!OrmNext]_St!ormVars
<1>1. CASE UNCHANGED vars
  <2>1. part' = part /\ v1' = v1 /\ v2' = v2 /\ v3' = v3 /\ v4' = v4 /\ v5' = v5 /\ v6' = v6 /\ v7' = v7 /\ v8' = v8 /\ v9' = v9 /\ v10' = v10 /\ v11' = v11 /\ v12' = v12 /\ v13' = v13 /\ v14' = v14 /\ v15' = v15
    BY <1>1 DEF vars, Rest1, Rest2, Rest3, Rest4, Rest5, Rest6, Rest7, Rest8, Rest9, Rest10, Rest11, Rest12, Rest13, Rest14
  <2> QED
    BY <2>1 DEF Mig!migVars, Ses!sesVars, Aut!accountVars, Aut!accessVars, Aut!throttleVars, Az!azVars, Tr!hcVars, Tr!webVars, Tr!grVars, St!fsVars, St!ormVars
<1>2. CASE OuterNext
  BY <1>2 DEF OuterNext
<1> QED
  BY <1>1, <1>2

MigrationsInv ==
    /\ part = "migrator" => Mig!MigInv

\* The invariant of the migrators holds initially.
LEMMA MigrationsStart == OuterInit => MigrationsInv
<1> SUFFICES ASSUME OuterInit PROVE MigrationsInv
  OBVIOUS
<1>1. part = "migrator" => Mig!MigInv
  BY MigStart DEF OuterInit
<1> QED
  BY <1>1 DEF MigrationsInv

\* Every step of the migrators preserves the invariant.
LEMMA MigrationsStep == MigrationsInv /\ [OuterNext]_vars => MigrationsInv'
<1> SUFFICES ASSUME MigrationsInv, [OuterNext]_vars PROVE MigrationsInv'
  OBVIOUS
<1>1. part' = "migrator" => Mig!MigInv'
  BY PartsApart, MigStep DEF MigrationsInv
<1> QED
  BY <1>1 DEF MigrationsInv

\* Migrator, for any number of migrators and migrations, with crashes and cancelled contexts: one
\* migrator at a time changes the schema, tables and records agree, batches grow in order, a lock
\* is left behind only after a fault, and a Reset leaves no more than others applied meanwhile; a
\* Fresh is the exception.
THEOREM MigrationsHold == OuterSpec => []Migrations
<1>1. MigrationsInv => Migrations
  BY MigSafe DEF MigrationsInv, Migrations
<1> QED
  BY <1>1, MigrationsStart, MigrationsStep, PTL DEF OuterSpec

AccessControlInv ==
    /\ part = "session" => Ses!Inv
    /\ part = "onetime" => Aut!AccountInv
    /\ part = "access" => Aut!AccessInv
    /\ part = "throttle" => Aut!ThrottleInv
    /\ part = "authz" => Az!Inv

\* The invariant of sessions, tokens, throttle and policies holds initially.
LEMMA AccessControlStart == OuterInit => AccessControlInv
<1> SUFFICES ASSUME OuterInit PROVE AccessControlInv
  OBVIOUS
<1>1. part = "session" => Ses!Inv
  BY SessionStart DEF OuterInit
<1>2. part = "onetime" => Aut!AccountInv
  BY AccountStart DEF OuterInit, Aut!Init
<1>3. part = "access" => Aut!AccessInv
  BY AccessStart DEF OuterInit, Aut!Init
<1>4. part = "throttle" => Aut!ThrottleInv
  BY ThrottleStart DEF OuterInit, Aut!Init
<1>5. part = "authz" => Az!Inv
  BY AuthzStart DEF OuterInit
<1> QED
  BY <1>1, <1>2, <1>3, <1>4, <1>5 DEF AccessControlInv

\* Every step of sessions, tokens, throttle and policies preserves the invariant.
LEMMA AccessControlStep == AccessControlInv /\ [OuterNext]_vars => AccessControlInv'
<1> SUFFICES ASSUME AccessControlInv, [OuterNext]_vars PROVE AccessControlInv'
  OBVIOUS
<1>1. part' = "session" => Ses!Inv'
  BY PartsApart, SessionStep DEF AccessControlInv
<1>2. part' = "onetime" => Aut!AccountInv'
  BY PartsApart, AccountStep DEF AccessControlInv
<1>3. part' = "access" => Aut!AccessInv'
  BY PartsApart, AccessStep DEF AccessControlInv
<1>4. part' = "throttle" => Aut!ThrottleInv'
  BY PartsApart, ThrottleStep DEF AccessControlInv
<1>5. part' = "authz" => Az!Inv'
  BY PartsApart, AuthzStep DEF AccessControlInv
<1> QED
  BY <1>1, <1>2, <1>3, <1>4, <1>5 DEF AccessControlInv

\* Sessions, tokens and policies, for any number of requests, tokens and callers: no id survives a
\* login, a logout sticks but for requests under way, tokens are used once and stay revoked but for
\* calls that overlapped, guesses are bounded, and a decision follows one moment's gates and
\* policies.
THEOREM AccessControlHolds == OuterSpec => []AccessControl
<1>1. AccessControlInv => AccessControl
  BY AccountSafe, ThrottleSafe, AuthzSafe DEF AccessControlInv, AccessControl, Ses!Inv, Aut!AccessInv
<1> QED
  BY <1>1, AccessControlStart, AccessControlStep, PTL DEF OuterSpec

ExchangesInv ==
    /\ part = "httpclient" => Tr!ClientInv
    /\ part = "grpc" => Tr!GrpcInv
    /\ part = "web" => Tr!WebInv

\* The invariant of clients and servers holds initially.
LEMMA ExchangesStart == OuterInit => ExchangesInv
<1> SUFFICES ASSUME OuterInit PROVE ExchangesInv
  OBVIOUS
<1>1. part = "httpclient" => Tr!ClientInv
  BY ClientStart DEF OuterInit, Tr!Init
<1>2. part = "grpc" => Tr!GrpcInv
  BY GrpcStart DEF OuterInit, Tr!Init
<1>3. part = "web" => Tr!WebInv
  BY WebStart DEF OuterInit, Tr!Init
<1> QED
  BY <1>1, <1>2, <1>3 DEF ExchangesInv

\* Every step of clients and servers preserves the invariant.
LEMMA ExchangesStep == ExchangesInv /\ [OuterNext]_vars => ExchangesInv'
<1> SUFFICES ASSUME ExchangesInv, [OuterNext]_vars PROVE ExchangesInv'
  OBVIOUS
<1>1. part' = "httpclient" => Tr!ClientInv'
  BY PartsApart, ClientStep DEF ExchangesInv
<1>2. part' = "grpc" => Tr!GrpcInv'
  BY PartsApart, GrpcStep DEF ExchangesInv
<1>3. part' = "web" => Tr!WebInv'
  BY PartsApart, WebStep DEF ExchangesInv
<1> QED
  BY <1>1, <1>2, <1>3 DEF ExchangesInv

\* Http client, web framework and grpc adapter, for any number of clients, retries, declarations,
\* middleware, calls and interceptors: clones share nothing, bodies are sent whole and closed,
\* guards hold on every route, a request gets one answer and its error, panics are answered and
\* nothing runs after a graceful stop.
THEOREM ExchangesHold == OuterSpec => []Exchanges
<1>1. ExchangesInv => Exchanges
  BY ClientSafe, GrpcSafe, WebSafe DEF ExchangesInv, Exchanges
<1> QED
  BY <1>1, ExchangesStart, ExchangesStep, PTL DEF OuterSpec

StorageInv ==
    /\ part = "disk" => St!DiskInv
    /\ part = "orm" => St!OrmInv

\* The invariant of files and models holds initially.
LEMMA StorageStart == OuterInit => StorageInv
<1> SUFFICES ASSUME OuterInit PROVE StorageInv
  OBVIOUS
<1>1. part = "disk" => St!DiskInv
  BY DiskStart DEF OuterInit, St!Init
<1>2. part = "orm" => St!OrmInv
  BY OrmStart DEF OuterInit, St!Init
<1> QED
  BY <1>1, <1>2 DEF StorageInv

\* Every step of files and models preserves the invariant.
LEMMA StorageStep == StorageInv /\ [OuterNext]_vars => StorageInv'
<1> SUFFICES ASSUME StorageInv, [OuterNext]_vars PROVE StorageInv'
  OBVIOUS
<1>1. part' = "disk" => St!DiskInv'
  BY PartsApart, DiskStep DEF StorageInv
<1>2. part' = "orm" => St!OrmInv'
  BY PartsApart, OrmSteps DEF StorageInv
<1> QED
  BY <1>1, <1>2 DEF StorageInv

\* Local disk and models, for any number of writers, files, rows and batch size: readers see whole
\* files and no temporary file is left, a Chunk visits every row that is there throughout exactly
\* once, created_at is kept, and deleted rows stay deleted but for stale saves.
THEOREM StorageHolds == OuterSpec => []Storage
<1>1. StorageInv => Storage
  BY OrmSafe DEF StorageInv, Storage, St!DiskInv
<1> QED
  BY <1>1, StorageStart, StorageStep, PTL DEF OuterSpec
=============================================================================
