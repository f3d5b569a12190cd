-------------------------- MODULE PerceptionProofs --------------------------
(***************************************************************************)
(* What holds of perception for any number of handlers on one engine, any  *)
(* harvests, any sizes of the buffer and of its batches, and either store. *)
(*                                                                         *)
(* The inductive invariant relates the queue, the batches in hand and the  *)
(* store to what was submitted, the losses to what was reported, and the   *)
(* alerts a handler has passed to the pairs that are claimed.              *)
(***************************************************************************)
EXTENDS Perception, FiniteSetTheorems, SequenceTheorems, TLAPS

-----------------------------------------------------------------------------
(* What the system's algorithms compute, for every graph, window and history *)

\* Induction over the numbers, stated of a set: the least number outside it
\* ends the least of the intervals 1..n.
LEMMA EveryNumber ==
  ASSUME NEW S \in SUBSET Nat, 0 \in S, \A n \in S : n + 1 \in S
  PROVE  S = Nat
<1>1. SUFFICES ASSUME NEW n \in Nat \ S PROVE FALSE
  OBVIOUS
<1> DEFINE T == {1..k : k \in Nat \ S}
<1>2. T \subseteq FiniteSubsetsOf(Nat) /\ T # {}
  <2>1. \A k \in Nat : IsFiniteSet(1..k) /\ 1..k \in SUBSET Nat
    BY FS_Interval
  <2> QED BY <1>1, <2>1 DEF FiniteSubsetsOf
<1>3. PICK x \in T : \A y \in T : <<y, x>> \notin StrictSubsetOrdering(Nat)
  <2> HIDE DEF T
  <2> QED BY <1>2, FS_StrictSubsetOrderingWellFounded, WFMin
<1>4. PICK m \in Nat \ S : x = 1..m
  BY <1>3
<1>5. m # 0 /\ m - 1 \in Nat \ S
  BY <1>4
<1>6. 1..(m - 1) \in T /\ <<1..(m - 1), 1..m>> \in StrictSubsetOrdering(Nat)
  <2>1. 1..(m - 1) \in T
    BY <1>5
  <2>2. m \in 1..m /\ m \notin 1..(m - 1) /\ 1..(m - 1) \subseteq 1..m
    BY <1>5
  <2>3. 1..m \in SUBSET Nat /\ 1..(m - 1) \in SUBSET Nat
    BY <1>5
  <2> QED BY <2>1, <2>2, <2>3 DEF StrictSubsetOrdering
<1> QED
  BY <1>3, <1>4, <1>6

-----------------------------------------------------------------------------
(* Blast radius *)

\* One level of the walk in memory, and one of the query's.
WalkStep(g, w) ==
  LET new == (UNION {Dependents(g, k) : k \in w.frontier}) \ w.seen
  IN [seen |-> w.seen \cup new, frontier |-> new]
RowStep(g, row) == UNION {Dependents(g, k) : k \in row}

IsWalk(w, g, origin, n) ==
  w = [d \in 0..n |-> IF d = 0 THEN [seen |-> {}, frontier |-> {origin}] ELSE WalkStep(g, w[d - 1])]
AreRows(r, g, origin, n) ==
  r = [d \in 0..n |-> IF d = 0 THEN {origin} ELSE RowStep(g, r[d - 1])]

LEMMA WalkExists ==
  ASSUME NEW g, NEW origin, NEW depth \in Nat
  PROVE  \E w : IsWalk(w, g, origin, depth)
<1> DEFINE S == {n \in Nat : \E w : IsWalk(w, g, origin, n)}
<1>1. 0 \in S
  <2> DEFINE w == [d \in 0..0 |-> [seen |-> {}, frontier |-> {origin}]]
  <2>1. IsWalk(w, g, origin, 0)
    BY DEF IsWalk
  <2> QED BY <2>1
<1>2. ASSUME NEW n \in S PROVE n + 1 \in S
  <2>1. PICK w : IsWalk(w, g, origin, n)
    BY <1>2
  <2> DEFINE v == [d \in 0..n + 1 |-> IF d <= n THEN w[d] ELSE WalkStep(g, w[n])]
             u == [d \in 0..n + 1 |-> IF d = 0 THEN [seen |-> {}, frontier |-> {origin}] ELSE WalkStep(g, v[d - 1])]
  <2>2. ASSUME NEW d \in 0..n + 1 PROVE v[d] = u[d]
    <3>1. CASE d = 0
      BY <2>1, <3>1 DEF IsWalk
    <3>2. CASE d \in 1..n
      <4>1. v[d] = w[d] /\ v[d - 1] = w[d - 1]
        BY <3>2
      <4>2. \A e \in 0..n : w[e] = IF e = 0 THEN [seen |-> {}, frontier |-> {origin}] ELSE WalkStep(g, w[e - 1])
        BY <2>1 DEF IsWalk
      <4>3. w[d] = WalkStep(g, w[d - 1])
        BY <3>2, <4>2
      <4> QED BY <3>2, <4>1, <4>3
    <3>3. CASE d = n + 1
      BY <3>3
    <3> QED BY <3>1, <3>2, <3>3
  <2>3. v = u
    BY <2>2
  <2>4. IsWalk(v, g, origin, n + 1)
    BY <2>3 DEF IsWalk
  <2> QED BY <2>4
<1> HIDE DEF S
<1>3. S = Nat
  <2>1. S \in SUBSET Nat BY DEF S
  <2> QED BY <1>1, <1>2, <2>1, EveryNumber
<1> QED BY <1>3 DEF S
LEMMA RowsExist ==
  ASSUME NEW g, NEW origin, NEW depth \in Nat
  PROVE  \E r : AreRows(r, g, origin, depth)
<1> DEFINE S == {n \in Nat : \E r : AreRows(r, g, origin, n)}
<1>1. 0 \in S
  <2> DEFINE r == [d \in 0..0 |-> {origin}]
  <2>1. AreRows(r, g, origin, 0)
    BY DEF AreRows
  <2> QED BY <2>1
<1>2. ASSUME NEW n \in S PROVE n + 1 \in S
  <2>1. PICK r : AreRows(r, g, origin, n)
    BY <1>2
  <2> DEFINE v == [d \in 0..n + 1 |-> IF d <= n THEN r[d] ELSE RowStep(g, r[n])]
             u == [d \in 0..n + 1 |-> IF d = 0 THEN {origin} ELSE RowStep(g, v[d - 1])]
  <2>2. ASSUME NEW d \in 0..n + 1 PROVE v[d] = u[d]
    <3>1. CASE d = 0
      BY <2>1, <3>1 DEF AreRows
    <3>2. CASE d \in 1..n
      <4>1. v[d] = r[d] /\ v[d - 1] = r[d - 1]
        BY <3>2
      <4>2. \A e \in 0..n : r[e] = IF e = 0 THEN {origin} ELSE RowStep(g, r[e - 1])
        BY <2>1 DEF AreRows
      <4>3. r[d] = RowStep(g, r[d - 1])
        BY <3>2, <4>2
      <4> QED BY <3>2, <4>1, <4>3
    <3>3. CASE d = n + 1
      BY <3>3
    <3> QED BY <3>1, <3>2, <3>3
  <2>3. v = u
    BY <2>2
  <2>4. AreRows(v, g, origin, n + 1)
    BY <2>3 DEF AreRows
  <2> QED BY <2>4
<1> HIDE DEF S
<1>3. S = Nat
  <2>1. S \in SUBSET Nat BY DEF S
  <2> QED BY <1>1, <1>2, <2>1, EveryNumber
<1> QED BY <1>3 DEF S

\* Depth by depth: what the walk has seen is the rows up to there, and its
\* frontier is what of the last row is in none before it.
LEMMA WalkFollowsRows ==
  ASSUME NEW g, NEW origin, NEW depth \in Nat
  PROVE  \A w, r : IsWalk(w, g, origin, depth) /\ AreRows(r, g, origin, depth) =>
           w[depth].seen = UNION {r[i] : i \in 1..depth} /\ r[0] = {origin}
<1> SUFFICES ASSUME NEW w, NEW r, IsWalk(w, g, origin, depth), AreRows(r, g, origin, depth)
             PROVE  w[depth].seen = UNION {r[i] : i \in 1..depth} /\ r[0] = {origin}
  OBVIOUS
<1> DEFINE R(n) == UNION {r[i] : i \in 1..n}
           S == {n \in Nat : n <= depth => w[n].seen = R(n) /\ w[n].frontier = r[n] \ R(n - 1)}
<1>1. \A d \in 0..depth :
        /\ w[d] = IF d = 0 THEN [seen |-> {}, frontier |-> {origin}] ELSE WalkStep(g, w[d - 1])
        /\ r[d] = IF d = 0 THEN {origin} ELSE RowStep(g, r[d - 1])
  BY DEF IsWalk, AreRows
<1>2. \A n \in Nat : R(n + 1) = R(n) \cup r[n + 1]
  <2>1. \A n \in Nat : 1..(n + 1) = 1..n \cup {n + 1}
    OBVIOUS
  <2> QED BY <2>1
<1>3. R(0) = {} /\ R(-1) = {}
  <2>1. 1..0 = {} /\ 1..(-1) = {}
    OBVIOUS
  <2> QED BY <2>1
<1>4. \A A, B : RowStep(g, A \cup B) = RowStep(g, A) \cup RowStep(g, B)
  BY DEF RowStep
<1>5. 0 \in S
  BY <1>1, <1>3
<1>6. ASSUME NEW n \in S PROVE n + 1 \in S
  <2>1. SUFFICES ASSUME n + 1 <= depth
                 PROVE  w[n + 1].seen = R(n + 1) /\ w[n + 1].frontier = r[n + 1] \ R(n)
    <3>1. n \in Nat /\ n + 1 - 1 = n
      OBVIOUS
    <3> QED BY <3>1
  <2>2. n \in Nat /\ w[n].seen = R(n) /\ w[n].frontier = r[n] \ R(n - 1)
    BY <1>6, <2>1
  <2>3. w[n + 1] = WalkStep(g, w[n]) /\ r[n + 1] = RowStep(g, r[n])
    BY <1>1, <2>1, <2>2
  <2>4. RowStep(g, R(n - 1)) \subseteq R(n)
    <3>1. CASE n = 0
      BY <1>3, <3>1 DEF RowStep
    <3>2. CASE n # 0
      <4>1. \A i \in 1..(n - 1) : r[i + 1] = RowStep(g, r[i]) /\ i + 1 \in 1..n
        BY <1>1, <2>1, <2>2, <3>2
      <4>2. ASSUME NEW i \in 1..(n - 1) PROVE RowStep(g, r[i]) \subseteq R(n)
        <5>1. r[i + 1] \subseteq R(n)
          BY <4>1
        <5> QED BY <4>1, <5>1
      <4> QED BY <4>2 DEF RowStep
    <3> QED BY <3>1, <3>2
  <2>5. RowStep(g, r[n]) \cup R(n) = RowStep(g, r[n] \ R(n - 1)) \cup R(n)
    <3>1. r[n] = (r[n] \ R(n - 1)) \cup (r[n] \cap R(n - 1))
      OBVIOUS
    <3>2. RowStep(g, r[n] \cap R(n - 1)) \subseteq RowStep(g, R(n - 1))
      BY DEF RowStep
    <3>3. RowStep(g, r[n]) = RowStep(g, r[n] \ R(n - 1)) \cup RowStep(g, r[n] \cap R(n - 1))
      BY <1>4, <3>1
    <3> HIDE DEF R
    <3> QED BY <2>4, <3>2, <3>3
  <2>6. /\ w[n + 1].seen = R(n) \cup RowStep(g, r[n] \ R(n - 1))
        /\ w[n + 1].frontier = RowStep(g, r[n] \ R(n - 1)) \ R(n)
    <3> HIDE DEF R
    <3> QED BY <2>2, <2>3 DEF WalkStep, RowStep
  <2> HIDE DEF R
  <2> QED BY <1>2, <2>2, <2>3, <2>5, <2>6
<1> HIDE DEF R, S
<1>7. S = Nat
  <2>1. S \in SUBSET Nat BY DEF S
  <2> QED BY <1>5, <1>6, <2>1, EveryNumber
<1>8. w[depth].seen = R(depth)
  BY <1>7 DEF S
<1> QED BY <1>1, <1>8 DEF R

\* On every graph, from every key and to every depth, the recursive query of
\* Postgres reaches what the walk in memory reaches besides the origin.
THEOREM ImpactAgrees ==
  ASSUME NEW g, NEW origin, NEW depth \in Nat
  PROVE  BlastRadius(g, origin, depth) \ {origin} = SqlBlastRadius(g, origin, depth)
<1>1. PICK w : w = (CHOOSE x : IsWalk(x, g, origin, depth))
  OBVIOUS
<1>2. PICK r : r = (CHOOSE x : AreRows(x, g, origin, depth))
  OBVIOUS
<1>3. IsWalk(w, g, origin, depth) /\ AreRows(r, g, origin, depth)
  <2>1. IsWalk(w, g, origin, depth)
    BY <1>1, WalkExists
  <2>2. AreRows(r, g, origin, depth)
    BY <1>2, RowsExist
  <2> QED BY <2>1, <2>2
<1>4. BlastRadius(g, origin, depth) = w[depth].seen
  BY <1>1 DEF BlastRadius, IsWalk, WalkStep
<1>5. SqlBlastRadius(g, origin, depth) = (UNION {r[d] : d \in 0..depth}) \ {origin}
  BY <1>2 DEF SqlBlastRadius, AreRows, RowStep
<1>6. w[depth].seen = UNION {r[i] : i \in 1..depth} /\ r[0] = {origin}
  <2>1. \A x, y : IsWalk(x, g, origin, depth) /\ AreRows(y, g, origin, depth) =>
          x[depth].seen = UNION {y[i] : i \in 1..depth} /\ y[0] = {origin}
    BY WalkFollowsRows
  <2> QED BY <1>3, <2>1
<1>7. 0..depth = {0} \cup 1..depth
  OBVIOUS
<1>8. UNION {r[d] : d \in 0..depth} = r[0] \cup UNION {r[i] : i \in 1..depth}
  BY <1>7
<1> QED BY <1>4, <1>5, <1>6, <1>8

-----------------------------------------------------------------------------
(* The median *)

\* The positions that stand no later than i when s is sorted.
UpTo(s, i) == {j \in DOMAIN s : s[j] < s[i] \/ (s[j] = s[i] /\ j <= i)}
At(s, m) == {i \in DOMAIN s : s[i] = m}

LEMMA DomainIsFinite ==
  ASSUME NEW s \in Seq(Int)
  PROVE  IsFiniteSet(DOMAIN s) /\ Cardinality(DOMAIN s) = Len(s)
<1>1. \A k \in Nat : IsFiniteSet(1..k) /\ Cardinality(1..k) = k
  BY FS_Interval
<1>2. DOMAIN s = 1..Len(s) /\ Len(s) \in Nat
  OBVIOUS
<1> QED
  BY <1>1, <1>2

LEMMA UpToIsFinite ==
  ASSUME NEW s \in Seq(Int), NEW i \in DOMAIN s, NEW m
  PROVE  /\ IsFiniteSet(UpTo(s, i)) /\ Cardinality(UpTo(s, i)) \in 1..Len(s)
         /\ IsFiniteSet(At(s, m)) /\ Cardinality(At(s, m)) \in Nat
<1>1. DOMAIN s = 1..Len(s) /\ Len(s) \in Nat
  OBVIOUS
<1>2. IsFiniteSet(DOMAIN s) /\ Cardinality(DOMAIN s) = Len(s)
  BY DomainIsFinite
<1>3. UpTo(s, i) \in SUBSET (DOMAIN s) /\ At(s, m) \in SUBSET (DOMAIN s)
  BY DEF UpTo, At
<1>4. IsFiniteSet(UpTo(s, i)) /\ Cardinality(UpTo(s, i)) <= Len(s) /\ IsFiniteSet(At(s, m))
  BY <1>2, <1>3, FS_Subset
<1>5. i \in UpTo(s, i)
  BY <1>1 DEF UpTo
<1>6. Cardinality(UpTo(s, i)) # 0
  BY <1>4, <1>5, FS_EmptySet
<1> QED
  BY <1>1, <1>4, <1>6, FS_CardinalityType

\* Ranks are a numbering of the positions, in the order of their values.
LEMMA RanksAreANumbering ==
  ASSUME NEW s \in Seq(Int)
  PROVE  /\ \A k \in 1..Len(s) : \E i \in DOMAIN s : Cardinality(UpTo(s, i)) = k
         /\ \A i, j \in DOMAIN s :
              Cardinality(UpTo(s, i)) <= Cardinality(UpTo(s, j)) => i \in UpTo(s, j)
<1> DEFINE rank == [i \in DOMAIN s |-> Cardinality(UpTo(s, i))]
<1>1. DOMAIN s = 1..Len(s) /\ Len(s) \in Nat /\ \A i \in DOMAIN s : s[i] \in Int
  OBVIOUS
<1>2. IsFiniteSet(DOMAIN s) /\ Cardinality(DOMAIN s) = Len(s)
  BY DomainIsFinite
<1>3. rank \in [DOMAIN s -> DOMAIN s]
  BY <1>1, UpToIsFinite
<1>4. ASSUME NEW i \in DOMAIN s, NEW j \in DOMAIN s, i \in UpTo(s, j), i # j
      PROVE  rank[i] < rank[j]
  <2>1. UpTo(s, i) \subseteq UpTo(s, j)
    BY <1>1, <1>4 DEF UpTo
  <2>2. j \in UpTo(s, j) /\ j \notin UpTo(s, i)
    BY <1>1, <1>4 DEF UpTo
  <2>3. /\ IsFiniteSet(UpTo(s, j)) /\ Cardinality(UpTo(s, j)) \in Nat
        /\ Cardinality(UpTo(s, i)) \in Nat
    BY UpToIsFinite
  <2>4. UpTo(s, i) \in SUBSET UpTo(s, j) /\ UpTo(s, i) # UpTo(s, j)
    BY <2>1, <2>2
  <2>5. Cardinality(UpTo(s, i)) <= Cardinality(UpTo(s, j))
        /\ Cardinality(UpTo(s, i)) # Cardinality(UpTo(s, j))
    BY <2>3, <2>4, FS_Subset
  <2> QED BY <2>3, <2>5
<1>5. \A i, j \in DOMAIN s : i \in UpTo(s, j) \/ j \in UpTo(s, i)
  BY <1>1 DEF UpTo
<1>6. \A i, j \in DOMAIN s : rank[i] <= rank[j] => i \in UpTo(s, j)
  <2>1. \A i \in DOMAIN s : rank[i] \in Int /\ i \in UpTo(s, i)
    BY <1>1, <1>3 DEF UpTo
  <2> HIDE DEF rank
  <2> QED BY <1>4, <1>5, <2>1
<1>7. rank \in Injection(DOMAIN s, DOMAIN s)
  <2>1. ASSUME NEW i \in DOMAIN s, NEW j \in DOMAIN s, rank[i] = rank[j] PROVE i = j
    <3>1. rank[i] \in Int /\ rank[j] \in Int
      BY <1>1, <1>3
    <3> HIDE DEF rank
    <3> QED BY <1>4, <1>5, <2>1, <3>1
  <2> QED BY <1>3, <2>1 DEF Injection, IsInjective
<1>8. rank \in Surjection(DOMAIN s, DOMAIN s)
  <2> HIDE DEF rank
  <2> QED BY <1>2, <1>7, FS_Injection
<1>9. \A k \in 1..Len(s) : \E i \in DOMAIN s : Cardinality(UpTo(s, i)) = k
  BY <1>1, <1>8 DEF Surjection
<1> QED
  BY <1>6, <1>9

\* So the k-th smallest element is one of the elements.
LEMMA KthIsOfRankK ==
  ASSUME NEW s \in Seq(Int), NEW k \in 1..Len(s)
  PROVE  \E i \in DOMAIN s : Cardinality(UpTo(s, i)) = k /\ KthSmallest(s, k) = s[i]
<1>1. \E i \in DOMAIN s : Cardinality(UpTo(s, i)) = k
  BY RanksAreANumbering
<1>2. KthSmallest(s, k) = s[CHOOSE i \in DOMAIN s : Cardinality(UpTo(s, i)) = k]
  BY DEF KthSmallest, UpTo
<1> QED
  BY <1>1, <1>2

\* A value that most positions hold is the k-th smallest for every k about
\* the middle.
LEMMA MajorityIsInTheMiddle ==
  ASSUME NEW s \in Seq(Int), NEW m \in Int, 2 * Cardinality(At(s, m)) > Len(s),
         NEW k \in 1..Len(s), Len(s) <= 2 * k, 2 * k <= Len(s) + 2
  PROVE  KthSmallest(s, k) = m
<1>1. PICK i \in DOMAIN s : Cardinality(UpTo(s, i)) = k /\ KthSmallest(s, k) = s[i]
  BY KthIsOfRankK
<1>2. DOMAIN s = 1..Len(s) /\ Len(s) \in Nat /\ \A j \in DOMAIN s : s[j] \in Int
  OBVIOUS
<1>3. /\ IsFiniteSet(UpTo(s, i)) /\ IsFiniteSet(At(s, m)) /\ Cardinality(At(s, m)) \in Nat
  BY UpToIsFinite
<1>4. ~(s[i] < m)
  <2>1. SUFFICES ASSUME s[i] < m PROVE FALSE
    OBVIOUS
  <2>2. UpTo(s, i) \cap At(s, m) = {}
    BY <1>2, <2>1 DEF UpTo, At
  <2>3. Cardinality(UpTo(s, i) \cap At(s, m)) = 0
    BY <2>2, FS_EmptySet
  <2>4. Cardinality(UpTo(s, i) \cup At(s, m)) = k + Cardinality(At(s, m))
    <3>1. Cardinality(UpTo(s, i) \cup At(s, m)) =
            Cardinality(UpTo(s, i)) + Cardinality(At(s, m)) - Cardinality(UpTo(s, i) \cap At(s, m))
      BY <1>3, FS_Union
    <3> QED BY <1>1, <1>3, <2>3, <3>1
  <2>5. UpTo(s, i) \cup At(s, m) \in SUBSET (DOMAIN s)
    BY DEF UpTo, At
  <2>6. IsFiniteSet(DOMAIN s) /\ Cardinality(DOMAIN s) = Len(s)
    BY DomainIsFinite
  <2>7. k + Cardinality(At(s, m)) <= Len(s)
    BY <2>4, <2>5, <2>6, FS_Subset
  <2> QED BY <1>2, <1>3, <2>7
<1>5. ~(s[i] > m)
  <2>1. SUFFICES ASSUME s[i] > m PROVE FALSE
    OBVIOUS
  <2>2. At(s, m) \cup {i} \in SUBSET UpTo(s, i) /\ i \notin At(s, m)
    BY <1>2, <2>1 DEF UpTo, At
  <2>3. Cardinality(At(s, m) \cup {i}) = Cardinality(At(s, m)) + 1
    BY <1>3, <2>2, FS_AddElement
  <2>4. Cardinality(At(s, m)) + 1 <= k
    BY <1>1, <1>3, <2>2, <2>3, FS_Subset
  <2> QED BY <1>2, <1>3, <2>4
<1> QED
  BY <1>1, <1>2, <1>4, <1>5

LEMMA MajorityIsTheMedian ==
  ASSUME NEW s \in Seq(Int), NEW m \in Int, 2 * Cardinality(At(s, m)) > Len(s)
  PROVE  TwiceMedian(s) = 2 * m
<1>1. Len(s) \in Nat \ {0}
  <2>1. CASE DOMAIN s = {}
    <3>1. At(s, m) = {}
      BY <2>1 DEF At
    <3> QED BY <3>1, FS_EmptySet
  <2>2. CASE DOMAIN s # {}
    BY <2>2
  <2> QED BY <2>1, <2>2
<1>2. \A n \in Nat \ {0} : /\ (n + 1) \div 2 \in 1..n /\ n <= 2 * ((n + 1) \div 2)
                           /\ 2 * ((n + 1) \div 2) <= n + 2
  OBVIOUS
<1>3. \A n \in Nat \ {0} : n # 1 => /\ n \div 2 + 1 \in 1..n /\ n <= 2 * (n \div 2 + 1)
                                    /\ 2 * (n \div 2 + 1) <= n + 2
  OBVIOUS
<1>4. 1 \div 2 + 1 = 1
  OBVIOUS
<1>5. KthSmallest(s, (Len(s) + 1) \div 2) = m
  BY <1>1, <1>2, MajorityIsInTheMiddle
<1>6. KthSmallest(s, Len(s) \div 2 + 1) = m
  BY <1>1, <1>3, <1>4, MajorityIsInTheMiddle
<1> QED
  BY <1>5, <1>6 DEF TwiceMedian

\* A window that holds one value most of the time is flat about it: whatever
\* the thresholds and the length, the value itself is normal and every other
\* is flagged.
THEOREM MajorityIsTheNormal ==
  ASSUME NEW s \in Seq(Int), NEW m \in Int, NEW v \in Int,
         2 * Cardinality(At(s, m)) > Len(s), Len(s) >= MinSamples
  PROVE  IsAnomalous(Evaluated(s, v)) <=> v # m
<1> DEFINE far == [i \in DOMAIN s |-> Distance(2 * s[i], 2 * m)]
<1>1. DOMAIN s = 1..Len(s) /\ Len(s) \in Nat /\ \A j \in DOMAIN s : s[j] \in Int
  OBVIOUS
<1>2. TwiceMedian(s) = 2 * m
  BY MajorityIsTheMedian
<1>3. far \in Seq(Int) /\ Len(far) = Len(s) /\ At(far, 0) = At(s, m)
  <2>1. \A j \in DOMAIN s : far[j] \in Int /\ (far[j] = 0 <=> s[j] = m)
    BY <1>1 DEF Distance
  <2>2. far = [j \in 1..Len(s) |-> far[j]]
    BY <1>1
  <2>3. DOMAIN far = DOMAIN s
    OBVIOUS
  <2> HIDE DEF far
  <2> QED BY <1>1, <2>1, <2>2, <2>3 DEF At
<1>4. TwiceMedian(far) = 0
  <2> HIDE DEF far
  <2>1. TwiceMedian(far) = 2 * 0
    BY <1>3, MajorityIsTheMedian
  <2> QED BY <2>1
<1>5. FourMad(s) = 0
  BY <1>2, <1>4 DEF FourMad
<1>6. ~(Len(s) < MinSamples)
  BY <1>1, BaselineAssumption
<1> QED
  BY <1>2, <1>5, <1>6 DEF Evaluated, IsAnomalous

-----------------------------------------------------------------------------
(* Union-find *)

\* A loop that applies its j-th step to what the steps before have left has a
\* run, and stays in the set its steps keep to.
IsRun(f, X, a, step, n) ==
  /\ f \in [0..n -> X]
  /\ f[0] = a
  /\ \A j \in 1..n : f[j] = step[j][f[j - 1]]

LEMMA RunExists ==
  ASSUME NEW n \in Nat, NEW X, NEW a \in X, NEW step \in [1..n -> [X -> X]]
  PROVE  \E f : IsRun(f, X, a, step, n)
<1> DEFINE S == {m \in Nat : m <= n => \E f : IsRun(f, X, a, step, m)}
<1>1. 0 \in S
  <2>1. IsRun([j \in 0..0 |-> a], X, a, step, 0)
    BY DEF IsRun
  <2> QED BY <2>1
<1>2. ASSUME NEW m \in S PROVE m + 1 \in S
  <2>1. SUFFICES ASSUME m + 1 <= n PROVE \E f : IsRun(f, X, a, step, m + 1)
    OBVIOUS
  <2>2. PICK f : IsRun(f, X, a, step, m)
    BY <2>1
  <2> DEFINE u == [j \in 0..m + 1 |-> IF j <= m THEN f[j] ELSE step[m + 1][f[m]]]
  <2>3. u \in [0..m + 1 -> X]
    BY <2>1, <2>2 DEF IsRun
  <2>4. ASSUME NEW j \in 1..m + 1 PROVE u[j] = step[j][u[j - 1]]
    <3>1. CASE j <= m
      BY <2>2, <3>1 DEF IsRun
    <3>2. CASE j = m + 1
      BY <3>2
    <3> QED BY <3>1, <3>2
  <2>5. u[0] = a
    BY <2>2 DEF IsRun
  <2>6. IsRun(u, X, a, step, m + 1)
    BY <2>3, <2>4, <2>5 DEF IsRun
  <2> QED BY <2>6
<1> HIDE DEF S
<1>3. S = Nat
  <2>1. S \in SUBSET Nat BY DEF S
  <2> QED BY <1>1, <1>2, <2>1, EveryNumber
<1> QED BY <1>3 DEF S

\* What the representatives say of the pairs joined so far: both of a pair
\* have one, and no two have one without a chain of such pairs, for they are
\* on one side of every set that no pair leaves.
Closed(S, pairs) == \A p \in pairs : p[1] \in S <=> p[2] \in S
Parted(root, pairs, n) ==
  /\ root \in [1..n -> 1..n]
  /\ \A p \in pairs : root[p[1]] = root[p[2]]
  /\ \A S \in SUBSET (1..n) : Closed(S, pairs) =>
       \A a, b \in 1..n : root[a] = root[b] => (a \in S <=> b \in S)

LEMMA UniteJoins ==
  ASSUME NEW n \in Nat, NEW root, NEW pairs \in SUBSET ((1..n) \X (1..n)), Parted(root, pairs, n),
         NEW i \in 1..n, NEW j \in 1..n
  PROVE  Parted(Unite(root, i, j), pairs \cup {<<i, j>>}, n)
<1> DEFINE D == 1..n
           next == Unite(root, i, j)
           more == pairs \cup {<<i, j>>}
<1>1. root \in [D -> D]
  BY DEF Parted
<1>2. next \in [D -> D] /\ \A k \in D : next[k] = IF root[k] = root[j] THEN root[i] ELSE root[k]
  BY <1>1 DEF Unite
<1>3. \A p \in pairs : p[1] \in D /\ p[2] \in D
  OBVIOUS
<1>4. \A p \in more : next[p[1]] = next[p[2]]
  <2>1. \A p \in pairs : next[p[1]] = next[p[2]]
    BY <1>2, <1>3 DEF Parted
  <2>2. next[i] = next[j]
    BY <1>2
  <2> QED BY <2>1, <2>2
<1>5. ASSUME NEW S \in SUBSET D, Closed(S, more), NEW a \in D, NEW b \in D, next[a] = next[b]
      PROVE  a \in S <=> b \in S
  <2>1. Closed(S, pairs) /\ (i \in S <=> j \in S)
    <3>1. <<i, j>> \in more /\ \A p \in pairs : p \in more
      OBVIOUS
    <3>2. <<i, j>>[1] = i /\ <<i, j>>[2] = j
      OBVIOUS
    <3> HIDE DEF more
    <3> QED BY <1>5, <3>1, <3>2 DEF Closed
  <2>2. \A x, y \in D : root[x] = root[y] => (x \in S <=> y \in S)
    BY <2>1 DEF Parted
  <2> QED BY <1>2, <1>5, <2>1, <2>2
<1> QED
  BY <1>2, <1>4, <1>5 DEF Parted

LEMMA RowJoins ==
  ASSUME NEW n \in Nat, NEW related \in SUBSET ((1..n) \X (1..n)), NEW i \in 1..n,
         NEW root, NEW pairs \in SUBSET ((1..n) \X (1..n)), Parted(root, pairs, n)
  PROVE  Parted(UniteRow(root, related, i, n), pairs \cup {p \in related : p[1] = i}, n)
<1> DEFINE X == [1..n -> 1..n]
           Next1(r, j) == IF <<i, j>> \in related THEN Unite(r, i, j) ELSE r
           step == [j \in 1..n |-> [r \in X |-> Next1(r, j)]]
           IsLoop(f) == f = [j \in 0..n |-> IF j = 0 THEN root
                               ELSE IF <<i, j>> \in related THEN Unite(f[j - 1], i, j) ELSE f[j - 1]]
           Upto(m) == pairs \cup {p \in related : p[1] = i /\ p[2] <= m}
<1>1. root \in X
  BY DEF Parted
<1>2. step \in [1..n -> [X -> X]]
  <2>1. \A j \in 1..n, r \in X : Next1(r, j) \in X
    BY DEF Unite
  <2> QED BY <2>1
<1>3. PICK g : IsRun(g, X, root, step, n)
  <2> HIDE DEF X, step
  <2> QED BY <1>1, <1>2, RunExists
<1>4. IsLoop(g)
  <2>1. \A j \in 1..n : j - 1 \in 0..n /\ \A r \in X : step[j][r] = Next1(r, j)
    OBVIOUS
  <2>2. /\ g = [j \in 0..n |-> g[j]] /\ g[0] = root
        /\ \A j \in 1..n : g[j] = step[j][g[j - 1]] /\ g[j - 1] \in X
    <3> HIDE DEF X, step
    <3> QED BY <1>3, <2>1 DEF IsRun
  <2>3. \A j \in 1..n : g[j] = Next1(g[j - 1], j)
    <3> HIDE DEF X, step, Next1
    <3> QED BY <2>1, <2>2
  <2>4. \A j \in 0..n : j # 0 => j \in 1..n
    OBVIOUS
  <2> HIDE DEF step, X
  <2> QED BY <2>2, <2>3, <2>4
<1>5. PICK f : f = (CHOOSE x : IsLoop(x))
  OBVIOUS
<1>6. IsLoop(f)
  <2> HIDE DEF IsLoop
  <2> QED BY <1>4, <1>5
<1>7. UniteRow(root, related, i, n) = f[n]
  BY <1>5 DEF UniteRow
<1>8. f[0] = root /\ \A j \in 1..n : f[j] = Next1(f[j - 1], j)
  <2>1. \A j \in 0..n : f[j] = IF j = 0 THEN root
                               ELSE IF <<i, j>> \in related THEN Unite(f[j - 1], i, j) ELSE f[j - 1]
    BY <1>6
  <2>2. 0 \in 0..n /\ \A j \in 1..n : j \in 0..n /\ j # 0
    OBVIOUS
  <2> QED BY <2>1, <2>2
<1> DEFINE S == {m \in Nat : m <= n => Parted(f[m], Upto(m), n)}
<1>9. 0 \in S
  <2>1. Upto(0) = pairs
    OBVIOUS
  <2> QED BY <1>8, <2>1
<1>10. ASSUME NEW m \in S PROVE m + 1 \in S
  <2>1. SUFFICES ASSUME m + 1 <= n PROVE Parted(f[m + 1], Upto(m + 1), n)
    <3> HIDE DEF Upto
    <3> QED OBVIOUS
  <2>2. m \in Nat /\ Parted(f[m], Upto(m), n) /\ m + 1 \in 1..n
    BY <2>1
  <2>3. f[m + 1] = Next1(f[m], m + 1)
    BY <1>8, <2>2
  <2>4. Upto(m + 1) = IF <<i, m + 1>> \in related THEN Upto(m) \cup {<<i, m + 1>>} ELSE Upto(m)
    <3>1. \A p \in related : p = <<p[1], p[2]>> /\ p[2] \in Nat
      OBVIOUS
    <3>2. \A k \in Nat : k <= m + 1 <=> k <= m \/ k = m + 1
      BY <2>2
    <3>3. ASSUME NEW p \in related PROVE p \in Upto(m + 1) <=> p \in Upto(m) \/ p = <<i, m + 1>>
      BY <2>2, <3>1, <3>2
    <3> QED BY <2>2, <3>3
  <2>5. Upto(m) \in SUBSET ((1..n) \X (1..n))
    OBVIOUS
  <2>6. Parted(Unite(f[m], i, m + 1), Upto(m) \cup {<<i, m + 1>>}, n)
    <3> HIDE DEF Upto
    <3> QED BY <2>2, <2>5, UniteJoins
  <2> HIDE DEF Upto
  <2> QED BY <2>2, <2>3, <2>4, <2>6
<1>11. S = Nat
  <2> HIDE DEF S
  <2>1. S \in SUBSET Nat BY DEF S
  <2> QED BY <1>9, <1>10, <2>1, EveryNumber
<1>12. Upto(n) = pairs \cup {p \in related : p[1] = i}
  OBVIOUS
<1>13. Parted(f[n], Upto(n), n)
  <2>1. n \in S BY <1>11
  <2> HIDE DEF Upto
  <2> QED BY <2>1
<1> QED BY <1>7, <1>12, <1>13

LEMMA RowIsTyped ==
  ASSUME NEW n \in Nat, NEW related \in SUBSET ((1..n) \X (1..n)), NEW i \in 1..n,
         NEW root \in [1..n -> 1..n]
  PROVE  UniteRow(root, related, i, n) \in [1..n -> 1..n]
<1> DEFINE same == {p \in (1..n) \X (1..n) : root[p[1]] = root[p[2]]}
<1>1. Parted(root, same, n)
  <2>1. ASSUME NEW S \in SUBSET (1..n), Closed(S, same), NEW a \in 1..n, NEW b \in 1..n, root[a] = root[b]
        PROVE  a \in S <=> b \in S
    <3>1. <<a, b>> \in same
      BY <2>1
    <3> HIDE DEF same
    <3> QED BY <2>1, <3>1 DEF Closed
  <2>2. \A p \in same : root[p[1]] = root[p[2]]
    OBVIOUS
  <2> HIDE DEF same
  <2> QED BY <2>1, <2>2 DEF Parted
<1>2. same \in SUBSET ((1..n) \X (1..n))
  OBVIOUS
<1> HIDE DEF same
<1>3. Parted(UniteRow(root, related, i, n), same \cup {p \in related : p[1] = i}, n)
  BY <1>1, <1>2, RowJoins
<1> QED BY <1>3 DEF Parted

\* The representatives of the double loop divide the positions into the
\* finest parts that keep related positions together.
LEMMA RootsPartition ==
  ASSUME NEW n \in Nat, NEW related \in SUBSET ((1..n) \X (1..n))
  PROVE  Parted(Roots(related, n), related, n)
<1> DEFINE X == [1..n -> 1..n]
           first == [k \in 1..n |-> k]
           IsLoop(f) == f = [i \in 0..n |-> IF i = 0 THEN first ELSE UniteRow(f[i - 1], related, i, n)]
           Upto(m) == {p \in related : p[1] <= m}
           step == [i \in 1..n |-> [r \in X |-> UniteRow(r, related, i, n)]]
<1>1. first \in X
  OBVIOUS
<1>2. step \in [1..n -> [X -> X]]
  <2>1. \A i \in 1..n, r \in X : UniteRow(r, related, i, n) \in X
    BY RowIsTyped
  <2> HIDE DEF X
  <2> QED BY <2>1
<1>3. PICK g : IsRun(g, X, first, step, n)
  <2> HIDE DEF X, step, first
  <2> QED BY <1>1, <1>2, RunExists
<1>4. IsLoop(g)
  <2>1. \A i \in 1..n : i - 1 \in 0..n /\ \A r \in X : step[i][r] = UniteRow(r, related, i, n)
    OBVIOUS
  <2>2. /\ g = [i \in 0..n |-> g[i]] /\ g[0] = first
        /\ \A i \in 1..n : g[i] = step[i][g[i - 1]] /\ g[i - 1] \in X
    <3> HIDE DEF X, step, first
    <3> QED BY <1>3, <2>1 DEF IsRun
  <2>3. \A i \in 1..n : g[i] = UniteRow(g[i - 1], related, i, n)
    <3> HIDE DEF X, step
    <3> QED BY <2>1, <2>2
  <2>4. \A i \in 0..n : i # 0 => i \in 1..n
    OBVIOUS
  <2> HIDE DEF step, X, first
  <2> QED BY <2>2, <2>3, <2>4
<1>5. PICK f : f = (CHOOSE x : IsLoop(x))
  OBVIOUS
<1>6. IsLoop(f)
  <2> HIDE DEF IsLoop
  <2> QED BY <1>4, <1>5
<1>7. Roots(related, n) = f[n]
  BY <1>5 DEF Roots
<1>8. f[0] = first /\ \A i \in 1..n : f[i] = UniteRow(f[i - 1], related, i, n)
  <2>1. \A i \in 0..n : f[i] = IF i = 0 THEN first ELSE UniteRow(f[i - 1], related, i, n)
    BY <1>6
  <2>2. 0 \in 0..n /\ \A i \in 1..n : i \in 0..n /\ i # 0
    OBVIOUS
  <2> HIDE DEF first
  <2> QED BY <2>1, <2>2
<1> DEFINE S == {m \in Nat : m <= n => Parted(f[m], Upto(m), n)}
<1>9. 0 \in S
  <2>1. Upto(0) = {}
    <3>1. \A p \in related : p[1] \in 1..n
      OBVIOUS
    <3> QED BY <3>1
  <2>2. Parted(first, {}, n)
    <3>1. \A a, b \in 1..n : first[a] = first[b] => a = b
      OBVIOUS
    <3> HIDE DEF first
    <3> QED BY <1>1, <3>1 DEF Parted
  <2> HIDE DEF first, Upto
  <2> QED BY <1>8, <2>1, <2>2
<1>10. ASSUME NEW m \in S PROVE m + 1 \in S
  <2>1. SUFFICES ASSUME m + 1 <= n PROVE Parted(f[m + 1], Upto(m + 1), n)
    <3> HIDE DEF Upto
    <3> QED OBVIOUS
  <2>2. m \in Nat /\ Parted(f[m], Upto(m), n) /\ m + 1 \in 1..n
    BY <2>1
  <2>3. f[m + 1] = UniteRow(f[m], related, m + 1, n)
    BY <1>8, <2>2
  <2>4. Upto(m + 1) = Upto(m) \cup {p \in related : p[1] = m + 1}
    <3>1. \A p \in related : p[1] \in Nat
      OBVIOUS
    <3>2. \A k \in Nat : k <= m + 1 <=> k <= m \/ k = m + 1
      BY <2>2
    <3> QED BY <2>2, <3>1, <3>2
  <2>5. Upto(m) \in SUBSET ((1..n) \X (1..n))
    OBVIOUS
  <2>6. Parted(UniteRow(f[m], related, m + 1, n), Upto(m) \cup {p \in related : p[1] = m + 1}, n)
    <3> HIDE DEF Upto
    <3> QED BY <2>2, <2>5, RowJoins
  <2> HIDE DEF Upto
  <2> QED BY <2>3, <2>4, <2>6
<1>11. S = Nat
  <2> HIDE DEF S
  <2>1. S \in SUBSET Nat BY DEF S
  <2> QED BY <1>9, <1>10, <2>1, EveryNumber
<1>12. Upto(n) = related
  <2>1. \A p \in related : p[1] \in 1..n
    OBVIOUS
  <2> QED BY <2>1
<1>13. Parted(f[n], Upto(n), n)
  <2>1. n \in S BY <1>11
  <2> HIDE DEF Upto
  <2> QED BY <2>1
<1> HIDE DEF Upto
<1> QED BY <1>7, <1>12, <1>13

-----------------------------------------------------------------------------
(* Correlation *)

\* Sorting by time leaves the findings the same and their times in order.
LEMMA ByTimeSorts ==
  ASSUME NEW fs, NEW n \in Nat, DOMAIN fs = 1..n, \A i \in 1..n : fs[i].at \in Int
  PROVE  /\ DOMAIN ByTime(fs) = 1..n
         /\ {ByTime(fs)[r] : r \in 1..n} = {fs[i] : i \in 1..n}
         /\ \A r \in 1..n : ByTime(fs)[r].at \in Int
         /\ \A r, q \in 1..n : r <= q => ByTime(fs)[r].at <= ByTime(fs)[q].at
<1> DEFINE s == [i \in 1..n |-> fs[i].at]
           Of(r) == CHOOSE i \in 1..n : Cardinality(UpTo(s, i)) = r
<1>1. s \in Seq(Int) /\ Len(s) = n /\ DOMAIN s = 1..n /\ \A i \in 1..n : s[i] = fs[i].at
  OBVIOUS
<1>2. ByTime(fs) = [r \in 1..n |-> fs[Of(r)]]
  <2> DEFINE rank(i) == Cardinality({j \in DOMAIN fs :
                          fs[j].at < fs[i].at \/ (fs[j].at = fs[i].at /\ j <= i)})
  <2>1. ByTime(fs) = [r \in DOMAIN fs |-> fs[CHOOSE i \in DOMAIN fs : rank(i) = r]]
    BY DEF ByTime
  <2>2. \A i \in 1..n : rank(i) = Cardinality(UpTo(s, i))
    <3>1. \A i \in 1..n : UpTo(s, i) = {j \in DOMAIN fs : fs[j].at < fs[i].at \/ (fs[j].at = fs[i].at /\ j <= i)}
      <4> HIDE DEF s
      <4> QED BY <1>1 DEF UpTo
    <3> HIDE DEF s
    <3> QED BY <3>1
  <2> HIDE DEF rank, s
  <2> DEFINE Chosen(r) == CHOOSE i \in DOMAIN fs : rank(i) = r
  <2>3. \A r \in 1..n : Chosen(r) = Of(r)
    BY <2>2
  <2> HIDE DEF Of, Chosen
  <2> QED BY <2>1, <2>3 DEF Chosen
<1> HIDE DEF s
<1>3. /\ \A r \in 1..n : \E i \in 1..n : Cardinality(UpTo(s, i)) = r
      /\ \A i, j \in 1..n : Cardinality(UpTo(s, i)) <= Cardinality(UpTo(s, j)) => i \in UpTo(s, j)
  BY <1>1, RanksAreANumbering
<1>4. \A r \in 1..n : Of(r) \in 1..n /\ Cardinality(UpTo(s, Of(r))) = r
  <2> DEFINE Ranked(i, r) == Cardinality(UpTo(s, i)) = r
  <2>1. \A r \in 1..n : \E i \in 1..n : Ranked(i, r)
    BY <1>3
  <2> HIDE DEF Ranked
  <2>2. \A r \in 1..n : (CHOOSE i \in 1..n : Ranked(i, r)) \in 1..n /\ Ranked(CHOOSE i \in 1..n : Ranked(i, r), r)
    BY <2>1
  <2> QED BY <2>2 DEF Ranked
<1> HIDE DEF Of
<1>5. \A i \in 1..n : \E r \in 1..n : Of(r) = i
  <2>1. TAKE i \in 1..n
  <2>2. Cardinality(UpTo(s, i)) \in 1..n
    BY <1>1, UpToIsFinite
  <2>3. PICK r \in 1..n : r = Cardinality(UpTo(s, i))
    BY <2>2
  <2>4. Of(r) \in UpTo(s, i) /\ i \in UpTo(s, Of(r))
    <3>1. /\ Cardinality(UpTo(s, Of(r))) <= Cardinality(UpTo(s, i))
          /\ Cardinality(UpTo(s, i)) <= Cardinality(UpTo(s, Of(r)))
      BY <1>4, <2>3
    <3> QED BY <1>3, <1>4, <3>1
  <2>5. Of(r) = i
    BY <1>1, <1>4, <2>4 DEF UpTo
  <2> QED BY <2>5
<1>6. \A r, q \in 1..n : r <= q => s[Of(r)] <= s[Of(q)]
  <2>1. \A r, q \in 1..n : r <= q => Of(r) \in UpTo(s, Of(q))
    BY <1>3, <1>4
  <2>2. \A i \in 1..n : s[i] \in Int
    BY <1>1
  <2>3. \A i, j \in 1..n : i \in UpTo(s, j) => s[i] <= s[j]
    BY <2>2 DEF UpTo
  <2> QED BY <1>4, <2>1, <2>3
<1>7. \A r \in 1..n : ByTime(fs)[r] = fs[Of(r)] /\ fs[Of(r)].at = s[Of(r)] /\ s[Of(r)] \in Int
  BY <1>1, <1>2, <1>4
<1>8. {ByTime(fs)[r] : r \in 1..n} = {fs[i] : i \in 1..n}
  <2>1. \A r \in 1..n : \E i \in 1..n : ByTime(fs)[r] = fs[i]
    BY <1>4, <1>7
  <2>2. \A i \in 1..n : \E r \in 1..n : ByTime(fs)[r] = fs[i]
    BY <1>5, <1>7
  <2>3. ASSUME NEW f PROVE (\E r \in 1..n : ByTime(fs)[r] = f) <=> (\E i \in 1..n : fs[i] = f)
    BY <2>1, <2>2
  <2>4. ASSUME NEW f PROVE f \in {ByTime(fs)[r] : r \in 1..n} <=> f \in {fs[i] : i \in 1..n}
    BY <2>3
  <2> QED BY <2>4
<1> QED BY <1>2, <1>6, <1>7, <1>8

\* Two findings that some graph of a set ties together, and two that each
\* direction was missing between.
Tied(f1, f2, seen) == f1.entity = f2.entity \/ Reached(f1, f2, seen) \/ Reached(f2, f1, seen)
Untied(f1, f2, seen) == f1.entity # f2.entity /\ Missed(f1, f2, seen) /\ Missed(f2, f1, seen)

\* What the correlator of a handler has heard so far of the pairs it compares,
\* from the graphs it may have met.
Heard(fs, a, seen) ==
  LET compared == Candidates(fs, CorrelationWindow)
  IN /\ a.pairs \subseteq compared /\ a.related \subseteq compared
     /\ \A p \in a.pairs : fs[p[1]].entity # fs[p[2]].entity
     /\ \A p \in a.related : Tied(fs[p[1]], fs[p[2]], seen)
     /\ \A p \in compared \ (a.pairs \cup a.related) : Untied(fs[p[1]], fs[p[2]], seen)
     /\ a.turned => \A p \in a.pairs : IsNext(p, a.pairs) => Missed(fs[p[1]], fs[p[2]], seen)

\* The double loop breaks off at the window, and still compares every pair of
\* positions whose findings are within it, and only those.
LEMMA ComparedAreWithin ==
  ASSUME NEW fs, NEW n \in Nat, DOMAIN fs = 1..n,
         \A r \in 1..n : fs[r].at \in Int,
         \A r, q \in 1..n : r <= q => fs[r].at <= fs[q].at,
         NEW i \in 1..n, NEW j \in 1..n, i < j
  PROVE  <<i, j>> \in Candidates(fs, CorrelationWindow) <=> Within(fs[i], fs[j])
<1>0. CorrelationWindow \in Int
  BY PerceptionAssumption
<1>1. <<i, j>> \in Candidates(fs, CorrelationWindow)
        <=> \A k \in i + 1..j : fs[k].at - fs[i].at <= CorrelationWindow
  BY DEF Candidates
<1>2. (\A k \in i + 1..j : fs[k].at - fs[i].at <= CorrelationWindow)
        <=> fs[j].at - fs[i].at <= CorrelationWindow
  <2>1. j \in i + 1..j
    OBVIOUS
  <2>2. \A k \in i + 1..j : k \in 1..n /\ k <= j
    OBVIOUS
  <2>3. \A k \in i + 1..j : fs[k].at <= fs[j].at /\ fs[k].at \in Int /\ fs[i].at \in Int /\ fs[j].at \in Int
    BY <2>2
  <2> QED BY <1>0, <2>1, <2>3
<1>3. Distance(fs[i].at, fs[j].at) = fs[j].at - fs[i].at
  <2>1. fs[i].at \in Int /\ fs[j].at \in Int /\ fs[i].at <= fs[j].at
    OBVIOUS
  <2> QED BY <2>1 DEF Distance
<1> QED BY <1>1, <1>2, <1>3 DEF Within

\* Being linked, and being unlinked, is mutual.
LEMMA LinksAreMutual ==
  ASSUME NEW f1, NEW f2, f1.at \in Int, f2.at \in Int, NEW seen
  PROVE  /\ Linked(f1, f2, seen) => Linked(f2, f1, seen)
         /\ Unlinked(f1, f2, seen) => Unlinked(f2, f1, seen)
<1>1. Within(f1, f2) <=> Within(f2, f1)
  <2>1. Distance(f1.at, f2.at) = Distance(f2.at, f1.at)
    BY DEF Distance
  <2> QED BY <2>1 DEF Within
<1> QED BY <1>1 DEF Linked, Unlinked

\* For every list of findings, in whatever order they came, and whatever graphs
\* the answers came from: each finding is in an incident, between different
\* incidents nothing is linked, and no incident falls into two parts with
\* nothing linked between them.
THEOREM IncidentsAreComponents ==
  ASSUME NEW findings, NEW n \in Nat, DOMAIN findings = 1..n,
         \A i \in 1..n : findings[i].at \in Int,
         NEW a, NEW seen, Heard(ByTime(findings), a, seen), a.pairs = {}
  PROVE  LET incidents == Groups(ByTime(findings), a.related)
         IN /\ UNION incidents = {findings[i] : i \in 1..n}
            /\ \A c, d \in incidents : c # d => \A f1 \in c, f2 \in d : Unlinked(f1, f2, seen)
            /\ \A c \in incidents : OfOnePiece(c, seen)
<1> DEFINE fs == ByTime(findings)
           related == a.related
           root == Roots(related, n)
           Class(k) == {fs[i] : i \in {j \in 1..n : root[j] = root[k]}}
           L(f1, f2) == Linked(f1, f2, seen)
           U(f1, f2) == Unlinked(f1, f2, seen)
<1>1. /\ DOMAIN fs = 1..n
      /\ {fs[r] : r \in 1..n} = {findings[i] : i \in 1..n}
      /\ \A r \in 1..n : fs[r].at \in Int
      /\ \A r, q \in 1..n : r <= q => fs[r].at <= fs[q].at
  BY ByTimeSorts
<1>2. Len(fs) = n
  <2>1. fs = [r \in 1..n |-> fs[r]]
    BY <1>1 DEF ByTime
  <2> HIDE DEF fs
  <2> DEFINE S == {fs[r] : r \in 1..n}
  <2>2. fs \in Seq(S)
    BY <2>1
  <2> QED BY <1>1, <2>2
<1>3. Heard(fs, a, seen)
  OBVIOUS
<1> HIDE DEF fs
<1>4. related \subseteq Candidates(fs, CorrelationWindow)
  BY <1>3 DEF Heard
<1>5. related \in SUBSET ((1..n) \X (1..n)) /\ \A p \in related : p[1] < p[2]
  BY <1>1, <1>4 DEF Candidates
<1>6. Groups(fs, a.related) = {Class(k) : k \in 1..n}
  BY <1>1, <1>2 DEF Groups
<1>7. \A i, j \in 1..n : i < j => IF <<i, j>> \in related THEN L(fs[i], fs[j]) ELSE U(fs[i], fs[j])
  <2>1. TAKE i, j \in 1..n
  <2>2. HAVE i < j
  <2>3. <<i, j>> \in Candidates(fs, CorrelationWindow) <=> Within(fs[i], fs[j])
    BY <1>1, <2>2, ComparedAreWithin
  <2>4. CASE <<i, j>> \in related
    <3>1. Tied(fs[i], fs[j], seen)
      <4>1. \A p \in related : Tied(fs[p[1]], fs[p[2]], seen)
        BY <1>3 DEF Heard
      <4> QED BY <2>4, <4>1
    <3> QED BY <1>4, <2>3, <2>4, <3>1 DEF Linked, Tied
  <2>5. CASE <<i, j>> \notin related /\ Within(fs[i], fs[j])
    <3>1. Untied(fs[i], fs[j], seen)
      <4>1. \A p \in Candidates(fs, CorrelationWindow) \ related : Untied(fs[p[1]], fs[p[2]], seen)
        BY <1>3 DEF Heard
      <4> QED BY <2>3, <2>5, <4>1
    <3> QED BY <2>5, <3>1 DEF Unlinked, Untied
  <2>6. CASE <<i, j>> \notin related /\ ~Within(fs[i], fs[j])
    BY <2>6 DEF Unlinked
  <2> HIDE DEF related, L, U
  <2> QED BY <2>4, <2>5, <2>6 DEF L, U
<1> HIDE DEF related
<1>8. Parted(root, related, n)
  BY <1>5, RootsPartition
<1> HIDE DEF root, L, U
<1>9. \A i, j \in 1..n : U(fs[i], fs[j]) \/ root[i] = root[j]
  <2>1. TAKE i, j \in 1..n
  <2>2. \A p \in related : root[p[1]] = root[p[2]]
    BY <1>8 DEF Parted
  <2>3. CASE i < j
    BY <1>7, <2>2, <2>3
  <2>4. CASE j < i
    <3>1. U(fs[j], fs[i]) => U(fs[i], fs[j])
      BY <1>1, LinksAreMutual DEF U
    <3> QED BY <1>7, <2>2, <2>4, <3>1
  <2>5. CASE i = j
    BY <2>5
  <2> QED BY <2>3, <2>4, <2>5
<1>10. UNION {Class(k) : k \in 1..n} = {findings[i] : i \in 1..n}
  <2>1. \A k \in 1..n : Class(k) \subseteq {fs[r] : r \in 1..n} /\ fs[k] \in Class(k)
    OBVIOUS
  <2>2. UNION {Class(k) : k \in 1..n} = {fs[r] : r \in 1..n}
    <3> HIDE DEF Class
    <3> SUFFICES ASSUME NEW f
                 PROVE  f \in UNION {Class(k) : k \in 1..n} <=> f \in {fs[r] : r \in 1..n}
      BY Zenon
    <3>1. f \in UNION {Class(k) : k \in 1..n} <=> \E k \in 1..n : f \in Class(k)
      BY Zenon
    <3>2. f \in {fs[r] : r \in 1..n} <=> \E r \in 1..n : f = fs[r]
      BY Zenon
    <3> QED BY <2>1, <3>1, <3>2, Zenon
  <2> QED BY <1>1, <2>2
<1>11. ASSUME NEW k \in 1..n, NEW l \in 1..n, Class(k) # Class(l), NEW f1 \in Class(k), NEW f2 \in Class(l)
       PROVE  U(f1, f2)
  <2>1. PICK i \in 1..n : f1 = fs[i] /\ root[i] = root[k]
    OBVIOUS
  <2>2. PICK j \in 1..n : f2 = fs[j] /\ root[j] = root[l]
    OBVIOUS
  <2>3. root[k] # root[l]
    BY <1>11
  <2> QED BY <1>9, <2>1, <2>2, <2>3
<1>12. ASSUME NEW k \in 1..n, NEW part \in SUBSET Class(k), part # {}, part # Class(k)
       PROVE  \E f1 \in part, f2 \in Class(k) \ part : L(f1, f2)
  <2> DEFINE S == {i \in 1..n : root[i] = root[k] /\ fs[i] \in part}
  <2>1. PICK x \in 1..n : root[x] = root[k] /\ fs[x] \in part
    BY <1>12
  <2>2. PICK y \in 1..n : root[y] = root[k] /\ fs[y] \notin part
    BY <1>12
  <2>3. x \in S /\ y \notin S /\ S \in SUBSET (1..n)
    BY <2>1, <2>2
  <2>4. ~Closed(S, related)
    <3> HIDE DEF S
    <3> QED BY <1>8, <2>1, <2>2, <2>3 DEF Parted
  <2>5. PICK p \in related : ~(p[1] \in S <=> p[2] \in S)
    BY <2>4 DEF Closed
  <2>6. p[1] \in 1..n /\ p[2] \in 1..n /\ p[1] < p[2] /\ p = <<p[1], p[2]>> /\ root[p[1]] = root[p[2]]
    BY <1>5, <1>8 DEF Parted
  <2>7. PICK i \in 1..n, j \in 1..n : i \in S /\ j \notin S /\ root[i] = root[j] /\ L(fs[i], fs[j])
    <3>1. L(fs[p[1]], fs[p[2]])
      BY <1>7, <2>6
    <3>2. L(fs[p[2]], fs[p[1]])
      BY <1>1, <2>6, <3>1, LinksAreMutual DEF L
    <3> HIDE DEF S
    <3> QED BY <2>5, <2>6, <3>1, <3>2
  <2>8. fs[i] \in part /\ fs[j] \in Class(k) \ part
    BY <2>7
  <2> HIDE DEF S, Class
  <2> QED BY <2>7, <2>8
<1> HIDE DEF Class
<1>13. \A c, d \in {Class(k) : k \in 1..n} : c # d => \A f1 \in c, f2 \in d : U(f1, f2)
  BY <1>11
<1>14. \A c \in {Class(k) : k \in 1..n} : \A part \in (SUBSET c) \ {{}, c} :
         \E f1 \in part, f2 \in c \ part : L(f1, f2)
  BY <1>12
<1>15. \A c \in {Class(k) : k \in 1..n} : OfOnePiece(c, seen)
  BY <1>14 DEF L, OfOnePiece
<1> QED BY <1>6, <1>10, <1>13, <1>15 DEF U, fs

\* The pair that is next is the only one.
LEMMA NextIsOne ==
  ASSUME NEW pairs \in SUBSET (Nat \X Nat), NEW p, NEW q, IsNext(p, pairs), IsNext(q, pairs)
  PROVE  p = q
<1>1. p \in Nat \X Nat /\ q \in Nat \X Nat
  BY DEF IsNext
<1>2. /\ p[1] < q[1] \/ (p[1] = q[1] /\ p[2] <= q[2])
      /\ q[1] < p[1] \/ (q[1] = p[1] /\ q[2] <= p[2])
  BY DEF IsNext
<1>3. p[1] = q[1] /\ p[2] = q[2]
  BY <1>1, <1>2
<1> QED BY <1>1, <1>3

\* What one query adds: the pair is related or is next to be asked the other
\* way round, or it is neither and both ways were missing.
LEMMA OneMoreHeard ==
  ASSUME NEW fs, DOMAIN fs \subseteq Nat, NEW a, NEW seen, Heard(fs, a, seen),
         NEW p, IsNext(p, a.pairs)
  PROVE  /\ Tied(fs[p[1]], fs[p[2]], seen) => Heard(fs, Related(a, p), seen)
         /\ Missed(fs[p[1]], fs[p[2]], seen) => Heard(fs, Turned(a), seen)
         /\ a.turned /\ Missed(fs[p[2]], fs[p[1]], seen) => Heard(fs, Unrelated(a, p), seen)
<1> DEFINE compared == Candidates(fs, CorrelationWindow)
<1>1. compared \subseteq Nat \X Nat
  BY DEF Candidates
<1>2. /\ a.pairs \subseteq compared /\ a.related \subseteq compared /\ p \in a.pairs
      /\ \A q \in a.pairs : fs[q[1]].entity # fs[q[2]].entity
      /\ \A q \in a.related : Tied(fs[q[1]], fs[q[2]], seen)
      /\ \A q \in compared \ (a.pairs \cup a.related) : Untied(fs[q[1]], fs[q[2]], seen)
      /\ a.turned => \A q \in a.pairs : IsNext(q, a.pairs) => Missed(fs[q[1]], fs[q[2]], seen)
  BY DEF Heard, IsNext
<1> HIDE DEF compared
<1>3. ASSUME Tied(fs[p[1]], fs[p[2]], seen) PROVE Heard(fs, Related(a, p), seen)
  <2> DEFINE b == Related(a, p)
  <2>1. b.pairs = a.pairs \ {p} /\ b.related = a.related \cup {p} /\ b.turned = FALSE
    BY DEF Related
  <2> HIDE DEF b
  <2>2. compared \ (b.pairs \cup b.related) = compared \ (a.pairs \cup a.related)
    BY <1>2, <2>1
  <2>3. Heard(fs, b, seen)
    BY <1>2, <1>3, <2>1, <2>2 DEF Heard, compared
  <2> QED BY <2>3 DEF b
<1>4. ASSUME Missed(fs[p[1]], fs[p[2]], seen) PROVE Heard(fs, Turned(a), seen)
  <2> DEFINE b == Turned(a)
  <2>1. b.pairs = a.pairs /\ b.related = a.related /\ b.turned = TRUE
    BY DEF Turned
  <2> HIDE DEF b
  <2>2. \A q \in a.pairs : IsNext(q, a.pairs) => q = p
    BY <1>1, <1>2, NextIsOne
  <2>3. Heard(fs, b, seen)
    BY <1>2, <1>4, <2>1, <2>2 DEF Heard, compared
  <2> QED BY <2>3 DEF b
<1>5. ASSUME a.turned, Missed(fs[p[2]], fs[p[1]], seen) PROVE Heard(fs, Unrelated(a, p), seen)
  <2> DEFINE b == Unrelated(a, p)
  <2>1. b.pairs = a.pairs \ {p} /\ b.related = a.related /\ b.turned = FALSE
    BY DEF Unrelated
  <2> HIDE DEF b
  <2>2. Untied(fs[p[1]], fs[p[2]], seen)
    BY <1>2, <1>5 DEF Untied
  <2>3. \A q \in compared \ (b.pairs \cup b.related) : q = p \/ q \in compared \ (a.pairs \cup a.related)
    BY <2>1
  <2>4. Heard(fs, b, seen)
    BY <1>2, <2>1, <2>2, <2>3 DEF Heard, compared
  <2> QED BY <2>4 DEF b
<1> QED BY <1>3, <1>4, <1>5

\* More graphs to have met take nothing back.
LEMMA HeardGrows ==
  ASSUME NEW fs, NEW a, NEW seen, NEW more, seen \subseteq more, Heard(fs, a, seen)
  PROVE  Heard(fs, a, more)
<1>1. \A f1, f2 : /\ Tied(f1, f2, seen) => Tied(f1, f2, more)
                  /\ Untied(f1, f2, seen) => Untied(f1, f2, more)
                  /\ Missed(f1, f2, seen) => Missed(f1, f2, more)
  BY DEF Tied, Untied, Reached, Missed
<1> QED BY <1>1 DEF Heard

\* Before the first query.
LEMMA NothingHeard ==
  ASSUME NEW fs, NEW seen
  PROVE  Heard(fs, Opening(fs, CorrelationWindow), seen)
BY DEF Heard, Opening, Tied

-----------------------------------------------------------------------------
(* The inductive invariant *)

Event == UNION {UNION {Events(Normalised(h, v).events) : v \in Harvests[h]} : h \in Handlers}
Finding == {FindingOf(e, source) : e \in Event, source \in {"upstream", "baseline"}}
Buffers == [items : Seq(Event), accepted : Nat, dropped : Nat, highWater : 0..Capacity]

IsResult(r) ==
  /\ r = [dropped |-> r.dropped, written |-> r.written, failed |-> r.failed,
          findings |-> r.findings, incidents |-> r.incidents]
  /\ r.dropped \in Nat /\ r.written \in Nat /\ r.failed \in Nat
  /\ r.findings \in Seq(Finding)

TypeInv ==
  /\ backend \in Backends /\ prunes \in Nat /\ crashes \in Nat /\ prunes + crashes <= MaxFaults
  /\ stored \subseteq Event /\ quarantined \in Nat
  /\ buffer \in Buffers /\ Len(buffer.items) <= Capacity
  /\ \A k \in DOMAIN baselines : baselines[k] \in Seq(Int) /\ Len(baselines[k]) \in 1..WindowSize
  /\ pc \in [Handlers -> Ended \cup Steps]
  /\ DOMAIN harvest = Handlers
  /\ \A h \in Handlers :
       \/ harvest[h] = NoHarvest
       \/ \E v \in Harvests[h] : harvest[h] = Normalised(h, v)
  /\ hand \in [Handlers -> Seq(Event)] /\ \A h \in Handlers : Len(hand[h]) <= BatchSize
  /\ todo \in [Handlers -> SUBSET Nat]
  /\ DOMAIN result = Handlers /\ \A h \in Handlers : IsResult(result[h])

\* What a handler has where it is: nothing before it starts, and a batch only
\* while it writes it.
Placed(h) ==
  /\ pc[h] = "new" => harvest[h] = NoHarvest /\ result[h] = NoResult
  /\ hand[h] # <<>> => pc[h] = "writing"

\* What is to come is of its harvest; an alert of it is still to come, or its
\* pair is claimed.
Detecting(h) ==
  /\ todo[h] \subseteq DOMAIN harvest[h].events
  /\ pc[h] = "detect" =>
       \A i \in DOMAIN harvest[h].events :
         ClassOf(h, i) = "alert" => i \in todo[h] \/ Pair(harvest[h].events[i]) \in claims

Positions == \A h \in Handlers : Placed(h) /\ Detecting(h)

Noted ==
  /\ DOMAIN asking = Handlers /\ DOMAIN views = Handlers
  /\ untold \in [dropped : Nat, failed : Nat]

Asked(h) ==
  pc[h] = "correlate" =>
    graph \in views[h] /\ Heard(ByTime(result[h].findings), asking[h], views[h])

IInv ==
  /\ TypeInv
  /\ Noted
  /\ Positions
  /\ EachEventIsInOnePlace
  /\ LossIsCounted
  /\ \A h \in Handlers : Asked(h)

-----------------------------------------------------------------------------
(* Sequences as the sets of what stands in them *)

LEMMA ImageIsFinite ==
  ASSUME NEW f, IsFiniteSet(DOMAIN f)
  PROVE  LET image == {f[x] : x \in DOMAIN f}
         IN /\ IsFiniteSet(image) /\ Cardinality(image) \in Nat
            /\ Cardinality(image) <= Cardinality(DOMAIN f)
            /\ IsInjective(f) => Cardinality(image) = Cardinality(DOMAIN f)
<1> DEFINE image == {f[x] : x \in DOMAIN f}
           g == [x \in DOMAIN f |-> f[x]]
<1>1. g \in Surjection(DOMAIN f, image)
  BY DEF Surjection
<1>2. IsInjective(f) => g \in Injection(DOMAIN f, image)
  BY DEF Injection, IsInjective
<1>3. /\ IsFiniteSet(image) /\ Cardinality(image) <= Cardinality(DOMAIN f)
      /\ Cardinality(image) = Cardinality(DOMAIN f) <=> g \in Injection(DOMAIN f, image)
  <2> HIDE DEF image, g
  <2> QED BY <1>1, FS_Surjection
<1>4. Cardinality(image) \in Nat
  BY <1>3, FS_CardinalityType
<1> QED
  BY <1>2, <1>3, <1>4

LEMMA EventsFacts ==
  ASSUME NEW S, NEW s \in Seq(S)
  PROVE  /\ Events(s) \subseteq S /\ IsFiniteSet(Events(s)) /\ Cardinality(Events(s)) \in Nat
         /\ Cardinality(Events(s)) <= Len(s)
         /\ IsInjective(s) => Cardinality(Events(s)) = Len(s)
<1>1. DOMAIN s = 1..Len(s) /\ Len(s) \in Nat
  OBVIOUS
<1>2. \A k \in Nat : IsFiniteSet(1..k) /\ Cardinality(1..k) = k
  BY FS_Interval
<1>3. IsFiniteSet(DOMAIN s) /\ Cardinality(DOMAIN s) = Len(s)
  BY <1>1, <1>2
<1>4. \A i \in DOMAIN s : s[i] \in S
  OBVIOUS
<1> QED
  BY <1>3, <1>4, ImageIsFinite DEF Events

\* A sequence cut in two.
LEMMA CutFacts ==
  ASSUME NEW S, NEW s \in Seq(S), NEW k \in 0..Len(s)
  PROVE  LET front == SubSeq(s, 1, k)
             back == SubSeq(s, k + 1, Len(s))
         IN /\ front \in Seq(S) /\ Len(front) = k
            /\ back \in Seq(S) /\ Len(back) = Len(s) - k
            /\ Events(s) = Events(front) \cup Events(back)
            /\ IsInjective(s) => /\ IsInjective(front) /\ IsInjective(back)
                                 /\ Events(front) \cap Events(back) = {}
<1> DEFINE front == SubSeq(s, 1, k)
           back == SubSeq(s, k + 1, Len(s))
<1>1. Len(s) \in Nat /\ k \in Nat /\ k <= Len(s) /\ DOMAIN s = 1..Len(s)
  OBVIOUS
<1>2. /\ front \in Seq(S) /\ Len(front) = k /\ DOMAIN front = 1..k
      /\ \A i \in 1..k : front[i] = s[i]
  BY <1>1
<1>3. /\ back \in Seq(S) /\ Len(back) = Len(s) - k /\ DOMAIN back = 1..(Len(s) - k)
      /\ \A i \in 1..(Len(s) - k) : back[i] = s[k + i]
  <2>1. k + 1 \in Int /\ Len(s) \in Int /\ \A i \in k + 1..Len(s) : s[i] \in S
    BY <1>1
  <2>2. /\ back \in Seq(S)
        /\ Len(back) = IF k + 1 <= Len(s) THEN Len(s) - (k + 1) + 1 ELSE 0
        /\ \A i \in 1..(Len(s) - (k + 1) + 1) : back[i] = s[k + 1 + i - 1]
    BY <2>1, SubSeqProperties
  <2> HIDE DEF back
  <2>3. \A i \in 1..(Len(s) - k) : k + 1 + i - 1 = k + i
    BY <1>1
  <2>4. Len(s) - (k + 1) + 1 = Len(s) - k
    BY <1>1
  <2>5. \A i \in 1..(Len(s) - k) : back[i] = s[k + i]
    BY <2>2, <2>3, <2>4
  <2>6. Len(back) = Len(s) - k
    <3>1. CASE k + 1 <= Len(s)
      BY <1>1, <2>2, <3>1
    <3>2. CASE k = Len(s)
      BY <1>1, <2>2, <3>2
    <3>3. \A a, b \in Nat : a <= b => a = b \/ a + 1 <= b
      OBVIOUS
    <3> QED BY <1>1, <3>1, <3>2, <3>3
  <2>7. DOMAIN back = 1..Len(back)
    BY <2>2
  <2> QED BY <2>2, <2>5, <2>6, <2>7
<1> HIDE DEF front, back
<1>4. Events(s) = Events(front) \cup Events(back)
  <2>1. ASSUME NEW i \in DOMAIN s PROVE s[i] \in Events(front) \cup Events(back)
    <3>1. CASE i <= k
      <4>1. i \in 1..k
        BY <1>1, <3>1
      <4> QED BY <4>1, <1>2 DEF Events
    <3>2. CASE ~(i <= k)
      <4>1. i - k \in 1..(Len(s) - k) /\ i = k + (i - k)
        BY <1>1, <3>2
      <4>2. back[i - k] = s[i]
        BY <1>3, <4>1
      <4> QED BY <4>1, <4>2, <1>3 DEF Events
    <3> QED BY <3>1, <3>2
  <2>2. \A i \in DOMAIN front : i \in DOMAIN s /\ front[i] = s[i]
    BY <1>1, <1>2
  <2>3. \A i \in DOMAIN back : k + i \in DOMAIN s /\ back[i] = s[k + i]
    BY <1>1, <1>3
  <2> QED BY <2>1, <2>2, <2>3 DEF Events
<1>5. ASSUME IsInjective(s)
      PROVE  IsInjective(front) /\ IsInjective(back) /\ Events(front) \cap Events(back) = {}
  <2>1. IsInjective(front)
    BY <1>1, <1>2, <1>5 DEF IsInjective
  <2>2. IsInjective(back)
    <3>1. ASSUME NEW i \in DOMAIN back, NEW j \in DOMAIN back, back[i] = back[j] PROVE i = j
      <4>1. k + i \in DOMAIN s /\ k + j \in DOMAIN s /\ s[k + i] = s[k + j]
        BY <1>1, <1>3, <3>1
      <4>2. k + i = k + j
        BY <4>1, <1>5 DEF IsInjective
      <4> QED BY <4>2, <1>1, <1>3
    <3> QED BY <3>1 DEF IsInjective
  <2>3. ASSUME NEW i \in DOMAIN front, NEW j \in DOMAIN back PROVE front[i] # back[j]
    <3>1. i \in DOMAIN s /\ k + j \in DOMAIN s /\ i # k + j
      BY <1>1, <1>2, <1>3
    <3>2. front[i] = s[i] /\ back[j] = s[k + j]
      BY <1>2, <1>3
    <3> QED BY <3>1, <3>2, <1>5 DEF IsInjective
  <2> QED BY <2>1, <2>2, <2>3 DEF Events
<1> QED
  BY <1>2, <1>3, <1>4, <1>5 DEF front, back

LEMMA ConcatFacts ==
  ASSUME NEW S, NEW s \in Seq(S), NEW t \in Seq(S)
  PROVE  /\ s \o t \in Seq(S) /\ Len(s \o t) = Len(s) + Len(t)
         /\ Events(s \o t) = Events(s) \cup Events(t)
         /\ IsInjective(s) /\ IsInjective(t) /\ Events(s) \cap Events(t) = {} => IsInjective(s \o t)
<1> DEFINE c == s \o t
<1>1. Len(s) \in Nat /\ DOMAIN s = 1..Len(s) /\ Len(t) \in Nat /\ DOMAIN t = 1..Len(t)
  OBVIOUS
<1>2. /\ c \in Seq(S) /\ Len(c) = Len(s) + Len(t) /\ DOMAIN c = 1..(Len(s) + Len(t))
      /\ \A i \in 1..Len(s) : c[i] = s[i]
      /\ \A i \in 1..Len(t) : c[Len(s) + i] = t[i]
  BY <1>1
<1> HIDE DEF c
<1>3. \A i \in DOMAIN c : \/ i \in DOMAIN s /\ c[i] = s[i]
                          \/ i - Len(s) \in DOMAIN t /\ c[i] = t[i - Len(s)]
  <2> TAKE i \in DOMAIN c
  <2>1. CASE i <= Len(s)
    <3>1. i \in 1..Len(s)
      BY <1>1, <1>2, <2>1
    <3> QED BY <1>1, <1>2, <3>1
  <2>2. CASE ~(i <= Len(s))
    <3>1. i - Len(s) \in 1..Len(t) /\ Len(s) + (i - Len(s)) = i
      BY <1>1, <1>2, <2>2
    <3>2. c[Len(s) + (i - Len(s))] = t[i - Len(s)]
      BY <1>2, <3>1
    <3> QED BY <1>1, <3>1, <3>2
  <2> QED BY <2>1, <2>2
<1>4. Events(c) = Events(s) \cup Events(t)
  <2>1. \A i \in DOMAIN s : i \in DOMAIN c /\ c[i] = s[i]
    BY <1>1, <1>2
  <2>2. \A i \in DOMAIN t : Len(s) + i \in DOMAIN c /\ c[Len(s) + i] = t[i]
    BY <1>1, <1>2
  <2>3. Events(c) \subseteq Events(s) \cup Events(t)
    BY <1>3 DEF Events
  <2> QED BY <2>1, <2>2, <2>3 DEF Events
<1>5. ASSUME IsInjective(s), IsInjective(t), Events(s) \cap Events(t) = {} PROVE IsInjective(c)
  <2>1. SUFFICES ASSUME NEW i \in DOMAIN c, NEW j \in DOMAIN c, c[i] = c[j] PROVE i = j
    BY DEF IsInjective
  <2>2. \A a \in DOMAIN s, b \in DOMAIN t : s[a] # t[b]
    BY <1>5 DEF Events
  <2>3. i \in Int /\ j \in Int
    BY <1>2
  <2>4. \/ i \in DOMAIN s /\ j \in DOMAIN s /\ s[i] = s[j]
        \/ i - Len(s) \in DOMAIN t /\ j - Len(s) \in DOMAIN t /\ t[i - Len(s)] = t[j - Len(s)]
    BY <1>3, <2>1, <2>2
  <2>5. i = j \/ i - Len(s) = j - Len(s)
    BY <1>5, <2>4 DEF IsInjective
  <2> QED BY <1>1, <2>3, <2>5
<1> QED
  BY <1>2, <1>4, <1>5 DEF c

-----------------------------------------------------------------------------
(* The buffer *)

\* What is kept of a sequence is its end; what is not is as much as it is too
\* long by.
LEMMA NewestFacts ==
  ASSUME NEW S, NEW s \in Seq(S), NEW k \in Nat
  PROVE  /\ Newest(s, k) \in Seq(S) /\ Len(Newest(s, k)) <= k
         /\ IsInjective(s) => IsInjective(Newest(s, k))
         /\ \E gone \in SUBSET S :
              /\ Events(s) = gone \cup Events(Newest(s, k))
              /\ IsFiniteSet(gone)
              /\ Cardinality(gone) <= IF Len(s) <= k THEN 0 ELSE Len(s) - k
<1>1. Len(s) \in Nat
  OBVIOUS
<1>2. CASE Len(s) <= k
  <2>1. Newest(s, k) = s
    BY <1>2 DEF Newest
  <2>2. IsFiniteSet({}) /\ Cardinality({}) = 0
    BY FS_EmptySet
  <2>3. {} \in SUBSET S /\ Events(s) = {} \cup Events(Newest(s, k))
    BY <2>1
  <2> QED BY <1>2, <2>1, <2>2, <2>3
<1>3. CASE ~(Len(s) <= k)
  <2> DEFINE d == Len(s) - k
             front == SubSeq(s, 1, d)
             back == SubSeq(s, d + 1, Len(s))
  <2>1. d \in 0..Len(s) /\ d \in Nat /\ Len(s) - d = k
    BY <1>1, <1>3
  <2>2. Newest(s, k) = back
    BY <1>3 DEF Newest
  <2> HIDE DEF d
  <2>3. /\ front \in Seq(S) /\ Len(front) = d
        /\ back \in Seq(S) /\ Len(back) = Len(s) - d
        /\ Events(s) = Events(front) \cup Events(back)
        /\ IsInjective(s) => IsInjective(back)
    BY <2>1, CutFacts
  <2> HIDE DEF front, back
  <2>4. Events(front) \subseteq S /\ IsFiniteSet(Events(front)) /\ Cardinality(Events(front)) <= d
    BY <2>3, EventsFacts
  <2>5. /\ Events(front) \in SUBSET S
        /\ Events(s) = Events(front) \cup Events(Newest(s, k))
        /\ Cardinality(Events(front)) <= IF Len(s) <= k THEN 0 ELSE Len(s) - k
    BY <1>3, <2>2, <2>3, <2>4 DEF d
  <2> QED BY <1>1, <2>1, <2>2, <2>3, <2>4, <2>5
<1> QED
  BY <1>2, <1>3

LEMMA OfferFacts ==
  ASSUME NEW b \in Buffers, Len(b.items) <= Capacity, NEW new \in Seq(Event)
  PROVE  /\ Offer(b, new) \in Buffers /\ Len(Offer(b, new).items) <= Capacity
         /\ PushedOut(b, new) \in Nat
         /\ Offer(b, new).accepted = b.accepted + Len(new)
         /\ Offer(b, new).dropped = b.dropped + PushedOut(b, new)
         /\ IsInjective(b.items) /\ IsInjective(new) /\ Events(b.items) \cap Events(new) = {} =>
              IsInjective(Offer(b, new).items)
         /\ \E gone \in SUBSET Event :
              /\ Events(b.items) \cup Events(new) = gone \cup Events(Offer(b, new).items)
              /\ IsFiniteSet(gone) /\ Cardinality(gone) <= PushedOut(b, new)
<1> DEFINE all == b.items \o new
           items == Newest(all, Capacity)
<1>1. /\ b.items \in Seq(Event) /\ b.accepted \in Nat /\ b.dropped \in Nat /\ b.highWater \in 0..Capacity
      /\ Len(b.items) \in Nat /\ Len(new) \in Nat /\ Capacity \in Nat
  BY BufferAssumption DEF Buffers
<1>2. /\ all \in Seq(Event) /\ Len(all) = Len(b.items) + Len(new)
      /\ Events(all) = Events(b.items) \cup Events(new)
      /\ IsInjective(b.items) /\ IsInjective(new) /\ Events(b.items) \cap Events(new) = {} =>
           IsInjective(all)
  BY <1>1, ConcatFacts
<1>3. /\ items \in Seq(Event) /\ Len(items) <= Capacity
      /\ IsInjective(all) => IsInjective(items)
      /\ \E gone \in SUBSET Event :
           /\ Events(all) = gone \cup Events(items)
           /\ IsFiniteSet(gone)
           /\ Cardinality(gone) <= IF Len(all) <= Capacity THEN 0 ELSE Len(all) - Capacity
  <2> HIDE DEF all
  <2> QED BY <1>1, <1>2, NewestFacts
<1>4. /\ PushedOut(b, new) \in Nat
      /\ PushedOut(b, new) = IF Len(all) <= Capacity THEN 0 ELSE Len(all) - Capacity
  BY <1>1, <1>2 DEF PushedOut
<1>5. Offer(b, new) = [items |-> items, accepted |-> b.accepted + Len(new),
                       dropped |-> b.dropped + PushedOut(b, new),
                       highWater |-> IF Len(items) > b.highWater THEN Len(items) ELSE b.highWater]
  BY DEF Offer
<1> HIDE DEF all, items
<1>6. Len(items) \in Nat
  BY <1>3
<1>7. (IF Len(items) > b.highWater THEN Len(items) ELSE b.highWater) \in 0..Capacity
  BY <1>1, <1>3, <1>6
<1>8. /\ Offer(b, new).items = items /\ Offer(b, new).accepted = b.accepted + Len(new)
      /\ Offer(b, new).dropped = b.dropped + PushedOut(b, new)
  BY <1>5
<1>9. Offer(b, new) \in Buffers
  BY <1>1, <1>3, <1>4, <1>5, <1>7 DEF Buffers
<1> QED
  BY <1>2, <1>3, <1>4, <1>8, <1>9

LEMMA DrainFacts ==
  ASSUME NEW b \in Buffers, Len(b.items) <= Capacity
  PROVE  /\ Batch(b) \in Seq(Event) /\ Len(Batch(b)) <= BatchSize
         /\ Drained(b) \in Buffers /\ Len(Drained(b).items) <= Capacity
         /\ Drained(b).accepted = b.accepted /\ Drained(b).dropped = b.dropped
         /\ Events(b.items) = Events(Batch(b)) \cup Events(Drained(b).items)
         /\ IsInjective(b.items) => /\ IsInjective(Batch(b)) /\ IsInjective(Drained(b).items)
                                    /\ Events(Batch(b)) \cap Events(Drained(b).items) = {}
<1> DEFINE s == b.items
           k == IF Len(s) <= BatchSize THEN Len(s) ELSE BatchSize
<1>1. s \in Seq(Event) /\ Len(s) \in Nat /\ BatchSize \in Nat
  BY BufferAssumption DEF Buffers
<1>2. k \in 0..Len(s) /\ k \in Nat /\ k <= BatchSize
  BY <1>1
<1>3. Batch(b) = SubSeq(s, 1, k)
  <2>1. CASE Len(s) <= BatchSize
    <3>1. SubSeq(s, 1, Len(s)) = s
      BY <1>1, SubSeqFull
    <3> QED BY <2>1, <3>1 DEF Batch
  <2>2. CASE ~(Len(s) <= BatchSize)
    BY <2>2 DEF Batch
  <2> QED BY <2>1, <2>2
<1> HIDE DEF s, k
<1>4. LET front == SubSeq(s, 1, k)
          back == SubSeq(s, k + 1, Len(s))
      IN /\ front \in Seq(Event) /\ Len(front) = k
         /\ back \in Seq(Event) /\ Len(back) = Len(s) - k
         /\ Events(s) = Events(front) \cup Events(back)
         /\ IsInjective(s) => /\ IsInjective(front) /\ IsInjective(back)
                              /\ Events(front) \cap Events(back) = {}
  BY <1>1, <1>2, CutFacts
<1>5. /\ Drained(b) \in Buffers /\ Drained(b).items = SubSeq(s, k + 1, Len(s))
      /\ Drained(b).accepted = b.accepted /\ Drained(b).dropped = b.dropped
  <2>1. Drained(b) = [b EXCEPT !.items = SubSeq(s, k + 1, Len(s))]
    BY <1>3, <1>4 DEF Drained, s
  <2> HIDE DEF Drained
  <2> QED BY <1>4, <2>1 DEF Buffers
<1>6. Len(s) - k <= Capacity
  BY <1>1, <1>2, BufferAssumption DEF s
<1> QED
  BY <1>2, <1>3, <1>4, <1>5, <1>6 DEF s

-----------------------------------------------------------------------------
(* Counting over the handlers *)

Bars(f) == UNION {{h} \X (1..f[h]) : h \in DOMAIN f}

LEMMA BarsAreFinite ==
  ASSUME NEW f \in [Handlers -> Nat]
  PROVE  IsFiniteSet(Bars(f)) /\ Total(f) \in Nat /\ Total(f) = Cardinality(Bars(f))
<1> DEFINE bar == [h \in Handlers |-> {h} \X (1..f[h])]
           bars == {bar[h] : h \in DOMAIN bar}
<1>1. \A h \in Handlers : IsFiniteSet(bar[h])
  <2> TAKE h \in Handlers
  <2>1. IsFiniteSet({h}) /\ IsFiniteSet(1..f[h])
    <3>1. \A k \in Nat : IsFiniteSet(1..k)
      BY FS_Interval
    <3>2. f[h] \in Nat
      OBVIOUS
    <3> QED BY <3>1, <3>2, FS_Singleton
  <2> QED BY <2>1, FS_Product
<1>2. IsFiniteSet(bars)
  <2>1. DOMAIN bar = Handlers /\ IsFiniteSet(Handlers)
    BY PerceptionAssumption
  <2> HIDE DEF bar
  <2> QED BY <2>1, ImageIsFinite
<1>3. \A T \in bars : IsFiniteSet(T)
  BY <1>1
<1>4. IsFiniteSet(UNION bars)
  <2> HIDE DEF bars
  <2> QED BY <1>2, <1>3, FS_UNION
<1>5. UNION bars = Bars(f) /\ Total(f) = Cardinality(Bars(f))
  BY DEF Bars, Total
<1> QED
  BY <1>4, <1>5, FS_CardinalityType

LEMMA IntervalAbove ==
  ASSUME NEW a \in Nat, NEW m \in Nat
  PROVE  IsFiniteSet(a + 1..a + m) /\ Cardinality(a + 1..a + m) = m
<1>1. PICK lo \in Int, hi \in Int : lo = a + 1 /\ hi = a + m
  OBVIOUS
<1>2. IsFiniteSet(lo..hi) /\ Cardinality(lo..hi) = IF lo > hi THEN 0 ELSE hi - lo + 1
  BY FS_Interval
<1>3. (IF lo > hi THEN 0 ELSE hi - lo + 1) = m
  BY <1>1
<1> QED
  BY <1>1, <1>2, <1>3

LEMMA TotalGrows ==
  ASSUME NEW f \in [Handlers -> Nat], NEW g \in [Handlers -> Nat], NEW h \in Handlers, NEW n \in Nat,
         g[h] = f[h] + n, \A k \in Handlers \ {h} : g[k] = f[k]
  PROVE  Total(g) = Total(f) + n
<1> DEFINE new == {h} \X (f[h] + 1..f[h] + n)
<1>1. f[h] \in Nat /\ DOMAIN f = Handlers /\ DOMAIN g = Handlers
  OBVIOUS
<1>2. IsFiniteSet(new) /\ Cardinality(new) = n
  <2>1. IsFiniteSet({h}) /\ Cardinality({h}) = 1
    BY FS_Singleton
  <2>2. IsFiniteSet(f[h] + 1..f[h] + n) /\ Cardinality(f[h] + 1..f[h] + n) = n
    BY <1>1, IntervalAbove
  <2> DEFINE range == f[h] + 1..f[h] + n
  <2> HIDE DEF range
  <2>3. /\ IsFiniteSet({h} \X range)
        /\ Cardinality({h} \X range) = Cardinality({h}) * Cardinality(range)
    BY <2>1, <2>2, FS_Product DEF range
  <2>4. Cardinality({h} \X range) = 1 * n
    BY <2>1, <2>2, <2>3 DEF range
  <2>5. 1 * n = n
    OBVIOUS
  <2> QED BY <2>3, <2>4, <2>5 DEF range
<1>3. Bars(g) = Bars(f) \cup new
  <2>1. 1..(f[h] + n) = 1..f[h] \cup (f[h] + 1..f[h] + n)
    BY <1>1
  <2>2. {h} \X (1..g[h]) = ({h} \X (1..f[h])) \cup new
    BY <2>1
  <2>3. \A k \in Handlers \ {h} : {k} \X (1..g[k]) = {k} \X (1..f[k])
    OBVIOUS
  <2> HIDE DEF new
  <2>4. \A x : x \in Bars(g) <=> \E k \in Handlers : x \in {k} \X (1..g[k])
    BY <1>1 DEF Bars
  <2>5. \A x : x \in Bars(f) <=> \E k \in Handlers : x \in {k} \X (1..f[k])
    BY <1>1 DEF Bars
  <2>6. ASSUME NEW x \in Bars(g) PROVE x \in Bars(f) \cup new
    BY <2>2, <2>3, <2>4, <2>5
  <2>7. ASSUME NEW x \in Bars(f) \cup new PROVE x \in Bars(g)
    BY <2>2, <2>3, <2>4, <2>5
  <2> QED BY <2>6, <2>7
<1>4. Bars(f) \cap new = {}
  BY <1>1 DEF Bars
<1>5. Cardinality(Bars(g)) = Cardinality(Bars(f)) + n
  <2>1. IsFiniteSet(Bars(f)) /\ Cardinality(Bars(f)) \in Nat
    BY BarsAreFinite
  <2>2. Cardinality(Bars(f) \cap new) = 0
    BY <1>4, FS_EmptySet
  <2> HIDE DEF new
  <2>3. Cardinality(Bars(f) \cup new) =
          Cardinality(Bars(f)) + Cardinality(new) - Cardinality(Bars(f) \cap new)
    BY <1>2, <2>1, FS_Union
  <2>4. Cardinality(Bars(f) \cup new) = Cardinality(Bars(f)) + n
    BY <1>2, <2>1, <2>2, <2>3
  <2> QED BY <1>3, <2>4
<1> QED
  BY <1>5, BarsAreFinite

LEMMA TotalOfNothing ==
  Total([h \in Handlers |-> 0]) = 0
<1>1. Bars([h \in Handlers |-> 0]) = {}
  BY DEF Bars
<1> QED
  BY <1>1, BarsAreFinite, FS_EmptySet

-----------------------------------------------------------------------------
(* What was harvested *)

LEMMA EventFacts ==
  ASSUME NEW e \in Event
  PROVE  /\ e.class \in Classes /\ e.value \in Int /\ e.at \in Int
         /\ e = [id |-> e.id, class |-> e.class, entity |-> e.entity, signal |-> e.signal,
                 value |-> e.value, at |-> e.at, hops |-> e.hops]
<1>1. PICK h \in Handlers : \E v \in Harvests[h] : e \in Events(Normalised(h, v).events)
  BY DEF Event
<1>2. PICK v \in Harvests[h] : e \in Events(Normalised(h, v).events)
  BY <1>1
<1>3. PICK i \in DOMAIN v.events : e = Identified(<<h, i>>, v.events[i])
  BY <1>2 DEF Normalised, Events
<1>4. v.events[i].class \in Classes /\ v.events[i].value \in Int /\ v.events[i].at \in Int
  BY PerceptionAssumption
<1> QED
  BY <1>3, <1>4 DEF Identified

LEMMA HarvestFacts ==
  ASSUME NEW h \in Handlers, NEW v \in Harvests[h]
  PROVE  LET x == Normalised(h, v) IN
            /\ x.events \in Seq(Event) /\ x.quarantined \in Nat /\ x.errors \in Nat
            /\ x.errors = v.errors
            /\ \A i \in DOMAIN x.events : x.events[i].id = <<h, i>>
            /\ IsInjective(x.events)
            /\ \A e \in Events(x.events) : e.id[1] = h
<1> DEFINE x == Normalised(h, v)
           s == v.events
<1>1. /\ v.quarantined \in Nat /\ v.errors \in Nat /\ s \in Seq(Range(s))
      /\ DOMAIN s = 1..Len(s) /\ Len(s) \in Nat
  BY PerceptionAssumption
<1>2. /\ x.events = [i \in DOMAIN s |-> Identified(<<h, i>>, s[i])]
      /\ x.quarantined = v.quarantined /\ x.errors = v.errors
  BY DEF Normalised
<1>3. \A i \in DOMAIN s : x.events[i].id = <<h, i>>
  BY <1>2 DEF Identified
<1>4. DOMAIN x.events = 1..Len(s) /\ \A i \in 1..Len(s) : x.events[i] \in Event
  <2>1. Events(x.events) \subseteq Event
    BY DEF Event
  <2> QED BY <1>1, <1>2, <2>1 DEF Events
<1>5. x.events = [i \in 1..Len(s) |-> x.events[i]]
  BY <1>1, <1>2
<1> HIDE DEF x, s
<1>6. x.events \in Seq(Event)
  BY <1>1, <1>4, <1>5
<1>7. IsInjective(x.events)
  <2>1. \A i, j \in DOMAIN s : <<h, i>> = <<h, j>> => i = j
    OBVIOUS
  <2> QED BY <1>1, <1>3, <1>4, <2>1 DEF IsInjective
<1>8. \A e \in Events(x.events) : e.id[1] = h
  BY <1>1, <1>3, <1>4 DEF Events
<1> QED
  BY <1>1, <1>2, <1>3, <1>4, <1>6, <1>7, <1>8 DEF x, s

LEMMA HarvestsAreTyped ==
  ASSUME TypeInv, NEW h \in Handlers
  PROVE  /\ harvest[h].events \in Seq(Event) /\ harvest[h].quarantined \in Nat
         /\ IsInjective(harvest[h].events)
         /\ \A e \in Events(harvest[h].events) : e.id[1] = h
<1>1. CASE harvest[h] = NoHarvest
  <2>1. harvest[h].events = <<>> /\ harvest[h].quarantined = 0
    BY <1>1 DEF NoHarvest
  <2>2. <<>> \in Seq(Event) /\ IsInjective(<<>>) /\ Events(<<>>) = {}
    BY DEF IsInjective, Events
  <2> QED BY <2>1, <2>2
<1>2. CASE harvest[h] # NoHarvest
  <2>1. PICK v \in Harvests[h] : harvest[h] = Normalised(h, v)
    BY <1>2 DEF TypeInv
  <2> QED BY <2>1, HarvestFacts
<1> QED
  BY <1>1, <1>2

LEMMA SubmittedIsFinite ==
  ASSUME TypeInv
  PROVE  IsFiniteSet(Submitted) /\ Cardinality(Submitted) \in Nat /\ Submitted \subseteq Event
<1> DEFINE f == [h \in Handlers |-> Events(harvest[h].events)]
           image == {f[h] : h \in DOMAIN f}
<1>1. IsFiniteSet(image)
  <2>1. IsFiniteSet(DOMAIN f)
    BY PerceptionAssumption
  <2> HIDE DEF f
  <2> QED BY <2>1, ImageIsFinite
<1>2. \A h \in Handlers : IsFiniteSet(Events(harvest[h].events)) /\ Events(harvest[h].events) \subseteq Event
  BY HarvestsAreTyped, EventsFacts
<1>3. \A T \in image : IsFiniteSet(T)
  BY <1>2
<1>4. UNION image = Submitted
  BY DEF Submitted
<1>5. IsFiniteSet(UNION image)
  <2> HIDE DEF image
  <2> QED BY <1>1, <1>3, FS_UNION
<1>6. Submitted \subseteq Event
  BY <1>2 DEF Submitted
<1> QED
  BY <1>4, <1>5, <1>6, FS_CardinalityType

-----------------------------------------------------------------------------
(* Types *)

LEMMA InitTypes == Init => TypeInv
<1> SUFFICES ASSUME Init PROVE TypeInv
  OBVIOUS
<1>1. <<>> \in Seq(Event) /\ Len(<<>>) = 0 /\ <<>> \in Seq(Finding)
  OBVIOUS
<1>2. EmptyBuffer \in Buffers /\ Len(EmptyBuffer.items) <= Capacity
  BY <1>1, BufferAssumption DEF EmptyBuffer, Buffers
<1>3. IsResult(NoResult)
  BY <1>1 DEF IsResult, NoResult
<1>4. /\ hand \in [Handlers -> Seq(Event)] /\ \A h \in Handlers : Len(hand[h]) <= BatchSize
      /\ todo \in [Handlers -> SUBSET Nat]
      /\ DOMAIN result = Handlers /\ \A h \in Handlers : IsResult(result[h])
      /\ DOMAIN harvest = Handlers /\ \A h \in Handlers : harvest[h] = NoHarvest
      /\ pc \in [Handlers -> Ended \cup Steps]
  BY <1>1, <1>3, BufferAssumption DEF Init, Ended
<1>5. DOMAIN baselines = {}
  BY DEF Init
<1> QED
  BY <1>2, <1>4, <1>5, PerceptionAssumption DEF Init, TypeInv

\* A handler's next place, and an entry of its own.
LEMMA GotoType ==
  ASSUME TypeInv, NEW h \in Handlers, NEW next \in Ended \cup Steps, Goto(h, next)
  PROVE  pc' \in [Handlers -> Ended \cup Steps]
  BY DEF TypeInv, Goto

LEMMA ResultType ==
  ASSUME TypeInv, NEW h \in Handlers, NEW r, IsResult(r), result' = [result EXCEPT ![h] = r]
  PROVE  DOMAIN result' = Handlers /\ \A k \in Handlers : IsResult(result'[k])
  BY DEF TypeInv

\* What an update of one field of a result leaves of the others.
LEMMA FailedField ==
  ASSUME NEW r, IsResult(r), NEW e \in Nat
  PROVE  LET x == [r EXCEPT !.failed = e]
         IN IsResult(x) /\ x.failed = e /\ x.dropped = r.dropped /\ x.findings = r.findings
<1>1. PICK d0 \in Nat, w0 \in Nat, e0 \in Nat, f0 \in Seq(Finding) :
        \E i0 : r = [dropped |-> d0, written |-> w0, failed |-> e0, findings |-> f0, incidents |-> i0]
  BY DEF IsResult
<1>2. PICK i0 : r = [dropped |-> d0, written |-> w0, failed |-> e0, findings |-> f0, incidents |-> i0]
  BY <1>1
<1>3. [r EXCEPT !.failed = e] =
        [dropped |-> d0, written |-> w0, failed |-> e, findings |-> f0, incidents |-> i0]
  BY <1>2
<1> QED
  BY <1>2, <1>3 DEF IsResult

LEMMA DroppedField ==
  ASSUME NEW r, IsResult(r), NEW d \in Nat
  PROVE  LET x == [r EXCEPT !.dropped = d]
         IN IsResult(x) /\ x.failed = r.failed /\ x.dropped = d /\ x.findings = r.findings
<1>1. PICK d0 \in Nat, w0 \in Nat, e0 \in Nat, f0 \in Seq(Finding) :
        \E i0 : r = [dropped |-> d0, written |-> w0, failed |-> e0, findings |-> f0, incidents |-> i0]
  BY DEF IsResult
<1>2. PICK i0 : r = [dropped |-> d0, written |-> w0, failed |-> e0, findings |-> f0, incidents |-> i0]
  BY <1>1
<1>3. [r EXCEPT !.dropped = d] =
        [dropped |-> d, written |-> w0, failed |-> e0, findings |-> f0, incidents |-> i0]
  BY <1>2
<1> QED
  BY <1>2, <1>3 DEF IsResult

LEMMA WrittenField ==
  ASSUME NEW r, IsResult(r), NEW w \in Nat
  PROVE  LET x == [r EXCEPT !.written = w]
         IN IsResult(x) /\ x.failed = r.failed /\ x.dropped = r.dropped /\ x.findings = r.findings
<1>1. PICK d0 \in Nat, w0 \in Nat, e0 \in Nat, f0 \in Seq(Finding) :
        \E i0 : r = [dropped |-> d0, written |-> w0, failed |-> e0, findings |-> f0, incidents |-> i0]
  BY DEF IsResult
<1>2. PICK i0 : r = [dropped |-> d0, written |-> w0, failed |-> e0, findings |-> f0, incidents |-> i0]
  BY <1>1
<1>3. [r EXCEPT !.written = w] =
        [dropped |-> d0, written |-> w, failed |-> e0, findings |-> f0, incidents |-> i0]
  BY <1>2
<1> QED
  BY <1>2, <1>3 DEF IsResult

LEMMA IncidentsField ==
  ASSUME NEW r, IsResult(r), NEW i
  PROVE  LET x == [r EXCEPT !.incidents = i]
         IN IsResult(x) /\ x.failed = r.failed /\ x.dropped = r.dropped /\ x.findings = r.findings
<1>1. PICK d0 \in Nat, w0 \in Nat, e0 \in Nat, f0 \in Seq(Finding) :
        \E i0 : r = [dropped |-> d0, written |-> w0, failed |-> e0, findings |-> f0, incidents |-> i0]
  BY DEF IsResult
<1>2. PICK i0 : r = [dropped |-> d0, written |-> w0, failed |-> e0, findings |-> f0, incidents |-> i0]
  BY <1>1
<1>3. [r EXCEPT !.incidents = i] =
        [dropped |-> d0, written |-> w0, failed |-> e0, findings |-> f0, incidents |-> i]
  BY <1>2
<1> QED
  BY <1>2, <1>3 DEF IsResult

LEMMA FindingsField ==
  ASSUME NEW r, IsResult(r), NEW f \in Seq(Finding)
  PROVE  LET x == [r EXCEPT !.findings = f]
         IN IsResult(x) /\ x.failed = r.failed /\ x.dropped = r.dropped /\ x.findings = f
<1>1. PICK d0 \in Nat, w0 \in Nat, e0 \in Nat, f0 \in Seq(Finding) :
        \E i0 : r = [dropped |-> d0, written |-> w0, failed |-> e0, findings |-> f0, incidents |-> i0]
  BY DEF IsResult
<1>2. PICK i0 : r = [dropped |-> d0, written |-> w0, failed |-> e0, findings |-> f0, incidents |-> i0]
  BY <1>1
<1>3. [r EXCEPT !.findings = f] =
        [dropped |-> d0, written |-> w0, failed |-> e0, findings |-> f, incidents |-> i0]
  BY <1>2
<1> QED
  BY <1>2, <1>3 DEF IsResult

LEMMA SubmitTypes ==
  ASSUME TypeInv, NEW h \in Handlers, NEW v \in Harvests[h], Submit(h, v)
  PROVE  /\ TypeInv'
         /\ result'[h].dropped = PushedOut(buffer, Normalised(h, v).events)
         /\ result'[h].failed = result[h].failed
         /\ result'[h].findings = result[h].findings
<1> DEFINE nv == Normalised(h, v)
           out == PushedOut(buffer, nv.events)
           r == [result[h] EXCEPT !.dropped = out]
<1>1. nv.events \in Seq(Event)
  BY HarvestFacts
<1>2. buffer' = Offer(buffer, nv.events) /\ buffer \in Buffers /\ Len(buffer.items) <= Capacity
  BY DEF Submit, TypeInv
<1>3. buffer' \in Buffers /\ Len(buffer'.items) <= Capacity /\ out \in Nat
  <2> HIDE DEF nv
  <2> QED BY <1>1, <1>2, OfferFacts
<1>4. IsResult(result[h]) /\ h \in DOMAIN result
  BY DEF TypeInv
<1>5. result' = [result EXCEPT ![h] = r]
  BY DEF Submit
<1>6. /\ IsResult(r) /\ r.dropped = out /\ r.failed = result[h].failed
      /\ r.findings = result[h].findings
  <2> HIDE DEF out
  <2> QED BY <1>3, <1>4, DroppedField
<1> HIDE DEF r
<1>7. DOMAIN result' = Handlers /\ \A k \in Handlers : IsResult(result'[k])
  BY <1>5, <1>6, ResultType
<1>8. DOMAIN harvest' = Handlers /\ \A k \in Handlers :
        harvest'[k] = NoHarvest \/ \E x \in Harvests[k] : harvest'[k] = Normalised(k, x)
  BY DEF Submit, TypeInv
<1>9. pc' \in [Handlers -> Ended \cup Steps]
  BY GotoType DEF Submit, Steps
<1>10. TypeInv'
  <2> HIDE DEF nv, out
  <2> QED BY <1>3, <1>7, <1>8, <1>9 DEF TypeInv, Submit, durable, bounds
<1> QED
  BY <1>4, <1>5, <1>6, <1>10

LEMMA DrainTypes ==
  ASSUME TypeInv, NEW h \in Handlers, Drain(h)
  PROVE  TypeInv'
<1>1. buffer \in Buffers /\ Len(buffer.items) <= Capacity
  BY DEF TypeInv
<1>2. /\ Batch(buffer) \in Seq(Event) /\ Len(Batch(buffer)) <= BatchSize
      /\ buffer' \in Buffers /\ Len(buffer'.items) <= Capacity
  BY <1>1, DrainFacts DEF Drain
<1>3. hand' \in [Handlers -> Seq(Event)] /\ \A k \in Handlers : Len(hand'[k]) <= BatchSize
  BY <1>2 DEF Drain, TypeInv
<1>4. pc' \in [Handlers -> Ended \cup Steps]
  BY GotoType DEF Drain, Steps
<1> QED
  BY <1>2, <1>3, <1>4 DEF Drain, TypeInv, durable, bounds

LEMMA HandIsTyped ==
  ASSUME TypeInv, NEW h \in Handlers
  PROVE  /\ HandSet(h) = Events(hand[h]) /\ HandSet(h) \subseteq Event
         /\ IsFiniteSet(HandSet(h)) /\ Cardinality(HandSet(h)) \in Nat
         /\ Cardinality(HandSet(h)) <= BatchSize
<1>1. hand[h] \in Seq(Event) /\ Len(hand[h]) <= BatchSize /\ Len(hand[h]) \in Nat
  BY DEF TypeInv
<1>2. HandSet(h) = Events(hand[h])
  BY DEF HandSet, Events
<1>3. /\ Events(hand[h]) \subseteq Event /\ IsFiniteSet(Events(hand[h]))
      /\ Cardinality(Events(hand[h])) \in Nat /\ Cardinality(Events(hand[h])) <= Len(hand[h])
  BY <1>1, EventsFacts
<1> QED
  BY <1>1, <1>2, <1>3, BufferAssumption

\* The batch is out of the handler's hand, and the rest is as it was.
LEMMA HandEmptied ==
  ASSUME TypeInv, NEW h \in Handlers, hand' = [hand EXCEPT ![h] = <<>>]
  PROVE  hand' \in [Handlers -> Seq(Event)] /\ \A k \in Handlers : Len(hand'[k]) <= BatchSize
<1>1. <<>> \in Seq(Event) /\ Len(<<>>) = 0
  OBVIOUS
<1> QED
  BY <1>1, BufferAssumption DEF TypeInv

LEMMA WriteTypes ==
  ASSUME TypeInv, NEW h \in Handlers, Write(h)
  PROVE  TypeInv' /\ result'[h].failed = result[h].failed /\ result'[h].dropped = result[h].dropped
<1> DEFINE w == result[h].written + Len(hand[h])
           r == [result[h] EXCEPT !.written = w]
<1>1. IsResult(result[h]) /\ h \in DOMAIN result /\ hand[h] \in Seq(Event)
  BY DEF TypeInv
<1>2. w \in Nat
  BY <1>1 DEF IsResult
<1>3. result' = [result EXCEPT ![h] = r]
  BY DEF Write
<1>4. IsResult(r) /\ r.failed = result[h].failed /\ r.dropped = result[h].dropped
  <2> HIDE DEF w
  <2> QED BY <1>1, <1>2, WrittenField
<1> HIDE DEF r
<1>5. DOMAIN result' = Handlers /\ \A k \in Handlers : IsResult(result'[k])
  BY <1>3, <1>4, ResultType
<1>6. stored' \subseteq Event
  BY HandIsTyped DEF Write, TypeInv
<1>7. pc' \in [Handlers -> Ended \cup Steps]
  BY GotoType DEF Write, Steps
<1>8. hand' \in [Handlers -> Seq(Event)] /\ \A k \in Handlers : Len(hand'[k]) <= BatchSize
  BY HandEmptied DEF Write
<1>9. TypeInv'
  BY <1>5, <1>6, <1>7, <1>8 DEF Write, TypeInv, engine, bounds
<1> QED
  BY <1>1, <1>3, <1>4, <1>9

LEMMA WriteFailsTypes ==
  ASSUME TypeInv, NEW h \in Handlers, WriteFails(h)
  PROVE  TypeInv' /\ result'[h].failed = result[h].failed + 1 /\ result'[h].dropped = result[h].dropped
<1> DEFINE e == result[h].failed + 1
           r == [result[h] EXCEPT !.failed = e]
<1>1. IsResult(result[h]) /\ h \in DOMAIN result
  BY DEF TypeInv
<1>2. e \in Nat
  BY <1>1 DEF IsResult
<1>3. result' = [result EXCEPT ![h] = r]
  BY DEF WriteFails
<1>4. IsResult(r) /\ r.failed = e /\ r.dropped = result[h].dropped
  <2> HIDE DEF e
  <2> QED BY <1>1, <1>2, FailedField
<1> HIDE DEF r
<1>5. DOMAIN result' = Handlers /\ \A k \in Handlers : IsResult(result'[k])
  BY <1>3, <1>4, ResultType
<1>6. stored' \subseteq Event
  BY HandIsTyped DEF WriteFails, TypeInv
<1>7. pc' \in [Handlers -> Ended \cup Steps]
  BY GotoType DEF WriteFails, Steps
<1>8. hand' \in [Handlers -> Seq(Event)] /\ \A k \in Handlers : Len(hand'[k]) <= BatchSize
  BY HandEmptied DEF WriteFails
<1>9. TypeInv'
  BY <1>5, <1>6, <1>7, <1>8 DEF WriteFails, TypeInv, engine, bounds
<1> QED
  BY <1>1, <1>3, <1>4, <1>9

\* A step that moves no event and counts no loss.
Aside ==
  /\ UNCHANGED <<buffer, harvest, hand, stored, crashes, untold>>
  /\ \A k \in Handlers :
       result'[k].failed = result[k].failed /\ result'[k].dropped = result[k].dropped

LEMMA QuarantineTypes ==
  ASSUME TypeInv, NEW h \in Handlers, Quarantine(h)
  PROVE  TypeInv' /\ Aside
<1>1. harvest[h].events \in Seq(Event) /\ harvest[h].quarantined \in Nat
  BY HarvestsAreTyped
<1>2. todo' \in [Handlers -> SUBSET Nat]
  <2>1. DOMAIN harvest[h].events \subseteq Nat
    BY <1>1
  <2> QED BY <2>1 DEF Quarantine, TypeInv
<1>3. pc' \in [Handlers -> Ended \cup Steps]
  BY GotoType DEF Quarantine, Steps
<1>4. quarantined' \in Nat
  BY <1>1 DEF Quarantine, TypeInv
<1> QED
  BY <1>2, <1>3, <1>4 DEF Quarantine, TypeInv, Aside, engine, bounds, told

LEMMA DetectedTypes ==
  ASSUME TypeInv, NEW h \in Handlers, NEW i, NEW found \in SUBSET Finding, Detected(h, i, found)
  PROVE  /\ DOMAIN result' = Handlers /\ \A k \in Handlers : IsResult(result'[k])
         /\ todo' \in [Handlers -> SUBSET Nat]
         /\ Aside
         /\ \A k \in Handlers :
              Len(result'[k].findings) > Len(result[k].findings) =>
                /\ k = h
                /\ result'[k].findings[Len(result'[k].findings)] \in found
<1> DEFINE old == result[h].findings
           f == CHOOSE x \in found : TRUE
           fs == IF found = {} THEN old ELSE Append(old, f)
           r == [result[h] EXCEPT !.findings = fs]
<1>1. IsResult(result[h]) /\ DOMAIN result = Handlers /\ old \in Seq(Finding)
  BY DEF TypeInv, IsResult
<1>2. found # {} => f \in found
  OBVIOUS
<1>3. fs \in Seq(Finding)
  <2> HIDE DEF f
  <2> QED BY <1>1, <1>2
<1>4. result' = [result EXCEPT ![h] = r]
  BY DEF Detected
<1>5. /\ IsResult(r) /\ r.failed = result[h].failed /\ r.dropped = result[h].dropped
      /\ r.findings = fs
  <2> HIDE DEF fs
  <2> QED BY <1>1, <1>3, FindingsField
<1> HIDE DEF r
<1>6. DOMAIN result' = Handlers /\ \A k \in Handlers : IsResult(result'[k])
  BY <1>4, <1>5, ResultType
<1>7. todo' \in [Handlers -> SUBSET Nat]
  BY DEF Detected, TypeInv
<1>8. Aside
  BY <1>1, <1>4, <1>5 DEF Aside, Detected, durable, bounds, told
<1>9. ASSUME NEW k \in Handlers, Len(result'[k].findings) > Len(result[k].findings)
      PROVE  k = h /\ result'[k].findings[Len(result'[k].findings)] \in found
  <2>1. \A l \in Handlers : Len(result[l].findings) \in Nat
    BY DEF TypeInv, IsResult
  <2>2. k = h
    <3>1. k # h => result'[k] = result[k]
      BY <1>1, <1>4
    <3> QED BY <1>9, <2>1, <3>1
  <2>3. result'[k].findings = fs
    BY <1>1, <1>4, <1>5, <2>2
  <2>4. found # {}
    BY <1>9, <2>1, <2>2, <2>3
  <2>5. fs = Append(old, f) /\ f \in found
    BY <1>2, <2>4
  <2> HIDE DEF f, fs
  <2>6. Len(fs) = Len(old) + 1 /\ fs[Len(old) + 1] = f
    BY <1>1, <2>5
  <2> QED BY <2>2, <2>3, <2>5, <2>6
<1> QED
  BY <1>6, <1>7, <1>8, <1>9

LEMMA DetectAlertTypes ==
  ASSUME TypeInv, NEW h \in Handlers, Detecting(h), NEW i \in todo[h], DetectAlert(h, i)
  PROVE  /\ TypeInv' /\ Aside
         /\ \A k \in Handlers :
              Len(result'[k].findings) > Len(result[k].findings) =>
                result'[k].findings[Len(result'[k].findings)].source = "upstream"
<1> DEFINE e == harvest[h].events[i]
           found == IF e.value = 0 THEN {} ELSE {FindingOf(e, "upstream")}
<1>1. Detected(h, i, found)
  BY DEF DetectAlert
<1>2. \A x \in found : x.source = "upstream"
  BY DEF FindingOf
<1>3. found \in SUBSET Finding
  <2>1. harvest[h].events \in Seq(Event) /\ i \in DOMAIN harvest[h].events
    BY HarvestsAreTyped DEF Detecting
  <2>2. e \in Event
    BY <2>1
  <2> HIDE DEF e
  <2> QED BY <2>2 DEF Finding
<1> HIDE DEF found
<1>4. /\ DOMAIN result' = Handlers /\ \A k \in Handlers : IsResult(result'[k])
      /\ todo' \in [Handlers -> SUBSET Nat] /\ Aside
      /\ \A k \in Handlers :
           Len(result'[k].findings) > Len(result[k].findings) =>
             result'[k].findings[Len(result'[k].findings)] \in found
  BY <1>1, <1>3, DetectedTypes
<1>5. TypeInv'
  BY <1>4 DEF DetectAlert, Detected, TypeInv, durable, bounds
<1> QED
  BY <1>2, <1>4, <1>5

LEMMA ObservedFacts ==
  ASSUME NEW s \in Seq(Int), Len(s) <= WindowSize, NEW x \in Int
  PROVE  Observed(s, x) \in Seq(Int) /\ Len(Observed(s, x)) \in 1..WindowSize
<1>1. Len(s) \in Nat /\ WindowSize \in Nat \ {0}
  BY BaselineAssumption
<1>2. CASE Len(s) < WindowSize
  <2>1. Observed(s, x) = Append(s, x)
    BY <1>2 DEF Observed
  <2>2. Append(s, x) \in Seq(Int) /\ Len(Append(s, x)) = Len(s) + 1
    OBVIOUS
  <2> QED BY <1>1, <1>2, <2>1, <2>2
<1>3. CASE ~(Len(s) < WindowSize)
  <2>1. Observed(s, x) = Append(Tail(s), x) /\ Len(s) = WindowSize
    BY <1>1, <1>3 DEF Observed
  <2>2. s # <<>>
    BY <1>1, <2>1
  <2>3. Tail(s) \in Seq(Int) /\ Len(Tail(s)) = Len(s) - 1
    BY <2>2, HeadTailProperties
  <2>4. Append(Tail(s), x) \in Seq(Int) /\ Len(Append(Tail(s), x)) = Len(Tail(s)) + 1
    BY <2>3
  <2> QED BY <1>1, <2>1, <2>3, <2>4
<1> QED
  BY <1>2, <1>3

LEMMA DetectMetricTypes ==
  ASSUME TypeInv, NEW h \in Handlers, Detecting(h), NEW i \in todo[h], DetectMetric(h, i)
  PROVE  /\ TypeInv' /\ Aside
         /\ \A k \in Handlers :
              Len(result'[k].findings) > Len(result[k].findings) =>
                LET e == harvest[h].events[i]
                IN /\ k = h /\ Pair(e) \notin claims
                   /\ result'[k].findings[Len(result'[k].findings)] = FindingOf(e, "baseline")
<1> DEFINE e == harvest[h].events[i]
           s == Samples(Pair(e))
           j == Judged(s, e.value)
           found == IF Pair(e) \notin claims /\ IsAnomalous(j.band)
                    THEN {FindingOf(e, "baseline")} ELSE {}
<1>1. e \in Event /\ e.value \in Int
  <2>1. harvest[h].events \in Seq(Event) /\ i \in DOMAIN harvest[h].events
    BY HarvestsAreTyped DEF Detecting
  <2>2. e \in Event
    BY <2>1
  <2> QED BY <2>2, EventFacts
<1>2. Detected(h, i, found) /\ claims' = claims
  BY DEF DetectMetric
<1>3. found \in SUBSET Finding /\ (found # {} => Pair(e) \notin claims)
      /\ \A x \in found : x = FindingOf(e, "baseline")
  <2> HIDE DEF e, j
  <2> QED BY <1>1 DEF Finding
<1>4. /\ DOMAIN result' = Handlers /\ \A k \in Handlers : IsResult(result'[k])
      /\ todo' \in [Handlers -> SUBSET Nat] /\ Aside
      /\ \A k \in Handlers :
           Len(result'[k].findings) > Len(result[k].findings) =>
             k = h /\ result'[k].findings[Len(result'[k].findings)] \in found
  <2> HIDE DEF found
  <2> QED BY <1>2, <1>3, DetectedTypes
<1>5. \A k \in DOMAIN baselines' : baselines'[k] \in Seq(Int) /\ Len(baselines'[k]) \in 1..WindowSize
  <2>1. s \in Seq(Int) /\ Len(s) <= WindowSize
    BY BaselineAssumption DEF Samples, TypeInv
  <2>2. j.next = Observed(s, e.value)
    BY DEF Judged
  <2>3. j.next \in Seq(Int) /\ Len(j.next) \in 1..WindowSize
    <3> HIDE DEF s, e, j
    <3> QED BY <1>1, <2>1, <2>2, ObservedFacts
  <2>4. baselines' = [k \in DOMAIN baselines \cup {Pair(e)} |->
                        IF k = Pair(e) THEN j.next ELSE baselines[k]]
    BY DEF DetectMetric
  <2> HIDE DEF s, e, j
  <2> QED BY <2>3, <2>4 DEF TypeInv
<1>6. pc' = pc /\ UNCHANGED <<buffer, harvest, hand, stored, quarantined, graph, backend, prunes, crashes>>
  BY <1>2 DEF Detected, durable, bounds
<1> HIDE DEF found, e, j
<1>7. TypeInv'
  BY <1>4, <1>5, <1>6 DEF TypeInv
<1> QED
  BY <1>3, <1>4, <1>7 DEF e

\* The steps that follow detection, and what fails outside the flush.
Later(h) == UpsertNodes(h) \/ UpsertEdges(h) \/ CorrelateFindings(h) \/ Audit(h)
Raises(h) == EdgesRefused(h) \/ StoreRaises(h)

\* A query leaves everything but what is to be asked.
LEMMA QueryIsQuiet ==
  ASSUME NEW h \in Handlers, NEW p, AskForward(h, p) \/ AskBack(h, p)
  PROVE  /\ UNCHANGED <<engine, durable, bounds, locals, views, told>>
         /\ pc[h] = "correlate"
         /\ \E a : asking' = [asking EXCEPT ![h] = a]
BY DEF AskForward, AskBack, Asks

LEMMA CorrelateTypes ==
  ASSUME TypeInv, NEW h \in Handlers, CorrelateFindings(h)
  PROVE  /\ TypeInv' /\ Aside /\ \A k \in Handlers : result'[k].findings = result[k].findings
         /\ UNCHANGED <<claims, todo>>
         /\ Goto(h, "correlate") \/ Goto(h, "audit")
<1>1. CASE \E p \in asking[h].pairs : AskForward(h, p) \/ AskBack(h, p)
  <2>1. UNCHANGED <<engine, durable, bounds, locals, told>> /\ pc[h] = "correlate"
    BY <1>1, QueryIsQuiet
  <2>2. /\ UNCHANGED <<buffer, baselines, claims, stored, quarantined, graph>>
        /\ UNCHANGED <<backend, prunes, crashes, pc, harvest, hand, todo, result, untold>>
    BY <2>1 DEF engine, durable, bounds, locals, told
  <2>3. Goto(h, "correlate")
    BY <2>1, <2>2 DEF Goto, TypeInv
  <2> QED BY <2>2, <2>3 DEF TypeInv, Aside
<1>2. CASE Group(h)
  <2> DEFINE c == Groups(ByTime(result[h].findings), asking[h].related)
             r == [result[h] EXCEPT !.incidents = c]
  <2>1. IsResult(result[h]) /\ DOMAIN result = Handlers
    BY DEF TypeInv
  <2>2. result' = [result EXCEPT ![h] = r]
    BY <1>2 DEF Group
  <2>3. /\ IsResult(r) /\ r.failed = result[h].failed /\ r.dropped = result[h].dropped
        /\ r.findings = result[h].findings
    <3> HIDE DEF c
    <3> QED BY <2>1, IncidentsField
  <2> HIDE DEF r
  <2>4. /\ DOMAIN result' = Handlers /\ \A k \in Handlers : IsResult(result'[k])
        /\ \A k \in Handlers : /\ result'[k].findings = result[k].findings
                               /\ result'[k].failed = result[k].failed
                               /\ result'[k].dropped = result[k].dropped
    BY <2>1, <2>2, <2>3, ResultType
  <2>5. pc' \in [Handlers -> Ended \cup Steps] /\ Goto(h, "audit")
    BY <1>2, GotoType DEF Group, Steps
  <2> QED BY <1>2, <2>4, <2>5 DEF Group, TypeInv, Aside, engine, durable, bounds, told
<1> QED
  BY <1>1, <1>2 DEF CorrelateFindings

LEMMA LaterTypes ==
  ASSUME TypeInv, NEW h \in Handlers, Later(h)
  PROVE  /\ TypeInv' /\ Aside /\ UNCHANGED <<claims, todo>>
         /\ \A k \in Handlers : result'[k].findings = result[k].findings
         /\ \E next \in Ended \cup Steps : next \notin {"new", "detect", "writing"} /\ Goto(h, next)
<1>1. CASE UpsertNodes(h)
  <2>1. pc' \in [Handlers -> Ended \cup Steps]
    BY <1>1, GotoType DEF UpsertNodes, Steps
  <2> QED BY <1>1, <2>1 DEF UpsertNodes, TypeInv, Aside, Steps, engine, bounds, told
<1>2. CASE UpsertEdges(h)
  <2> DEFINE next == IF result[h].findings = <<>> THEN "audit" ELSE "correlate"
  <2>1. next \in Ended \cup Steps /\ next \notin {"new", "detect", "writing"} /\ Goto(h, next)
    BY <1>2 DEF UpsertEdges, Steps
  <2> HIDE DEF next
  <2>2. pc' \in [Handlers -> Ended \cup Steps]
    BY <2>1, GotoType
  <2> QED BY <1>2, <2>1, <2>2 DEF UpsertEdges, TypeInv, Aside, engine, bounds, told
<1>3. CASE CorrelateFindings(h)
  <2>1. "audit" \in Steps /\ "correlate" \in Steps
    BY DEF Steps
  <2> QED BY <1>3, <2>1, CorrelateTypes
<1>4. CASE Audit(h)
  <2>1. Goto(h, "done") /\ "done" \in Ended
    BY <1>4 DEF Audit, Ended
  <2>2. pc' \in [Handlers -> Ended \cup Steps]
    BY <2>1, GotoType
  <2> QED BY <1>4, <2>1, <2>2 DEF Audit, TypeInv, Aside, engine, durable, bounds
<1> QED
  BY <1>1, <1>2, <1>3, <1>4 DEF Later

\* A handler that raises takes down its result, and nothing else.
LEMMA RaisesTypes ==
  ASSUME TypeInv, NEW h \in Handlers, Raises(h)
  PROVE  /\ TypeInv' /\ UNCHANGED <<engine, durable, bounds, harvest, hand, todo>>
         /\ Goto(h, "failed") /\ pc[h] \notin {"new", "writing"}
         /\ \A k \in Handlers : result'[k] = IF k = h THEN NoResult ELSE result[k]
         /\ \A k \in Handlers : Len(result'[k].findings) <= Len(result[k].findings)
         /\ untold' = [dropped |-> untold.dropped + result[h].dropped,
                       failed |-> untold.failed + result[h].failed]
<1>1. /\ Raise(h) /\ UNCHANGED <<engine, durable, bounds>>
      /\ pc[h] \notin {"new", "writing"}
  BY DEF Raises, EdgesRefused, StoreRaises
<1>2. "failed" \in Ended \cup Steps
  BY DEF Ended
<1>3. pc' \in [Handlers -> Ended \cup Steps]
  BY <1>1, <1>2, GotoType DEF Raise
<1>4. IsResult(NoResult) /\ Len(NoResult.findings) = 0
  <2>1. <<>> \in Seq(Finding) /\ Len(<<>>) = 0
    OBVIOUS
  <2> QED BY <2>1 DEF IsResult, NoResult
<1>5. /\ DOMAIN result' = Handlers /\ \A k \in Handlers : IsResult(result'[k])
      /\ \A k \in Handlers : result'[k] = IF k = h THEN NoResult ELSE result[k]
  BY <1>1, <1>4 DEF Raise, TypeInv
<1>6. \A k \in Handlers : Len(result'[k].findings) <= Len(result[k].findings)
  <2>1. \A k \in Handlers : Len(result[k].findings) \in Nat
    BY DEF TypeInv, IsResult
  <2> QED BY <1>4, <1>5, <2>1
<1>7. TypeInv'
  BY <1>1, <1>3, <1>5 DEF Raise, TypeInv, engine, durable, bounds
<1> QED
  BY <1>1, <1>5, <1>6, <1>7 DEF Raise

LEMMA PruningTypes ==
  ASSUME TypeInv, ReadCandidates \/ Prune
  PROVE  TypeInv' /\ Aside /\ UNCHANGED <<claims, todo, pc, result>>
<1>1. CASE ReadCandidates
  <2>1. prunes' \in Nat /\ prunes' + crashes' <= MaxFaults
    BY <1>1, PerceptionAssumption DEF ReadCandidates, TypeInv
  <2> QED BY <1>1, <2>1 DEF ReadCandidates, TypeInv, Aside, engine, durable, locals, told
<1>2. CASE Prune
  BY <1>2 DEF Prune, TypeInv, Aside, engine, locals, told
<1> QED
  BY <1>1, <1>2

LEMMA CrashTypes ==
  ASSUME TypeInv, Crash
  PROVE  TypeInv' /\ crashes' # 0
<1>1. <<>> \in Seq(Event) /\ Len(<<>>) = 0
  OBVIOUS
<1>2. EmptyBuffer \in Buffers /\ Len(EmptyBuffer.items) <= Capacity
  BY <1>1, BufferAssumption DEF EmptyBuffer, Buffers
<1>3. /\ hand' \in [Handlers -> Seq(Event)] /\ \A h \in Handlers : Len(hand'[h]) <= BatchSize
      /\ todo' \in [Handlers -> SUBSET Nat]
      /\ pc' \in [Handlers -> Ended \cup Steps]
  BY <1>1, BufferAssumption DEF Crash, TypeInv, Ended
<1>4. DOMAIN baselines' = {}
  BY DEF Crash
<1>5. crashes' \in Nat /\ crashes' # 0 /\ prunes' = prunes /\ prunes' + crashes' <= MaxFaults
  BY PerceptionAssumption DEF Crash, TypeInv
<1>6. stored' \subseteq Event /\ quarantined' \in Nat /\ backend' = backend
  BY DEF Crash, TypeInv, durable
<1> QED
  BY <1>2, <1>3, <1>4, <1>5, <1>6 DEF Crash, TypeInv

\* The kinds of steps there are.
LEMMA StepKinds ==
  ASSUME Next
  PROVE  \/ \E h \in Handlers : \E v \in Harvests[h] : Submit(h, v)
         \/ \E h \in Handlers : \/ Drain(h) \/ Write(h) \/ WriteFails(h) \/ Quarantine(h) \/ Later(h) \/ Raises(h)
                                \/ \E i \in todo[h] : DetectAlert(h, i) \/ DetectMetric(h, i)
         \/ ReadCandidates \/ Prune \/ Crash
  BY DEF Next, Proceeds, Flushes, Later, Raises

-----------------------------------------------------------------------------
(* Where the handlers are *)

LEMMA TypeStep ==
  ASSUME TypeInv, Positions, Next
  PROVE  TypeInv'
<1>1. ASSUME NEW h \in Handlers, NEW v \in Harvests[h], Submit(h, v) PROVE TypeInv'
  BY <1>1, SubmitTypes
<1>2. ASSUME NEW h \in Handlers, Drain(h) \/ Write(h) \/ WriteFails(h) \/ Quarantine(h) \/ Later(h) \/ Raises(h)
      PROVE  TypeInv'
  BY <1>2, DrainTypes, WriteTypes, WriteFailsTypes, QuarantineTypes, LaterTypes, RaisesTypes
<1>3. ASSUME NEW h \in Handlers, NEW i \in todo[h], DetectAlert(h, i) \/ DetectMetric(h, i)
      PROVE  TypeInv'
  BY <1>3, DetectAlertTypes, DetectMetricTypes DEF Positions
<1>4. CASE ReadCandidates \/ Prune
  BY <1>4, PruningTypes
<1>5. CASE Crash
  BY <1>5, CrashTypes
<1> QED
  BY <1>1, <1>2, <1>3, <1>4, <1>5, StepKinds

\* What a step of one handler leaves of the others.
LEMMA OthersStay ==
  ASSUME Positions, NEW h \in Handlers, NEW k \in Handlers,
         pc'[k] = pc[k], harvest'[k] = harvest[k], hand'[k] = hand[k], todo'[k] = todo[k],
         result'[k] = result[k], claims \subseteq claims'
  PROVE  (Placed(k) /\ Detecting(k))'
  BY DEF Positions, Placed, Detecting, ClassOf

LEMMA DetectionStep ==
  ASSUME TypeInv, Positions, NEW h \in Handlers, NEW i \in todo[h],
         DetectAlert(h, i) \/ DetectMetric(h, i)
  PROVE  Positions'
<1> DEFINE e == harvest[h].events[i]
<1>1. /\ UNCHANGED <<pc, harvest, hand>> /\ claims \subseteq claims'
      /\ todo' = [todo EXCEPT ![h] = @ \ {i}] /\ pc[h] = "detect"
      /\ \A k \in Handlers \ {h} : result'[k] = result[k]
      /\ ClassOf(h, i) = "alert" => Pair(e) \in claims'
  BY DEF DetectAlert, DetectMetric, Detected, TypeInv
<1>2. h \in DOMAIN todo
  BY DEF TypeInv
<1>3. ASSUME NEW k \in Handlers PROVE (Placed(k) /\ Detecting(k))'
  <2>1. CASE k # h
    BY <1>1, <1>2, <2>1, OthersStay
  <2>2. CASE k = h
    <3>1. Placed(h) /\ Detecting(h)
      BY DEF Positions
    <3>2. todo'[h] = todo[h] \ {i}
      BY <1>1, <1>2
    <3>3. Placed(h)'
      BY <1>1, <3>1 DEF Placed
    <3>4. Detecting(h)'
      BY <1>1, <3>1, <3>2 DEF Detecting, ClassOf
    <3> QED BY <2>2, <3>3, <3>4
  <2> QED BY <2>1, <2>2
<1> QED
  BY <1>3 DEF Positions

LEMMA PositionsStep ==
  ASSUME TypeInv, Positions, Next
  PROVE  Positions'
<1>1. /\ DOMAIN pc = Handlers /\ DOMAIN todo = Handlers /\ DOMAIN hand = Handlers
      /\ DOMAIN harvest = Handlers /\ DOMAIN result = Handlers
  BY DEF TypeInv
<1>2. \A k \in Handlers : Placed(k) /\ Detecting(k)
  BY DEF Positions
<1>3. ASSUME NEW h \in Handlers, NEW v \in Harvests[h], Submit(h, v) PROVE Positions'
  <2>1. /\ pc' = [pc EXCEPT ![h] = "flush"] /\ pc[h] = "new"
        /\ UNCHANGED <<claims, hand, todo>>
        /\ harvest' = [harvest EXCEPT ![h] = Normalised(h, v)]
        /\ \A k \in Handlers \ {h} : result'[k] = result[k]
    BY <1>1, <1>3 DEF Submit, Goto
  <2>2. \A k \in Handlers \ {h} : (Placed(k) /\ Detecting(k))'
    BY <1>1, <2>1, OthersStay
  <2>3. harvest[h] = NoHarvest /\ hand[h] = <<>>
    BY <1>2, <2>1 DEF Placed
  <2>4. todo[h] = {}
    BY <1>2, <2>3 DEF Detecting, NoHarvest
  <2>5. Placed(h)'
    BY <1>1, <2>1, <2>3 DEF Placed
  <2>6. Detecting(h)'
    BY <1>1, <2>1, <2>4 DEF Detecting
  <2> QED BY <2>2, <2>5, <2>6 DEF Positions
<1>4. ASSUME NEW h \in Handlers, Drain(h) PROVE Positions'
  <2>1. /\ pc' = [pc EXCEPT ![h] = IF buffer.items = <<>> THEN "quarantine" ELSE "writing"]
        /\ hand' = [hand EXCEPT ![h] = Batch(buffer)]
        /\ UNCHANGED <<claims, harvest, todo, result>>
        /\ pc[h] = "flush"
    BY <1>4 DEF Drain, Goto
  <2>2. \A k \in Handlers \ {h} : (Placed(k) /\ Detecting(k))'
    BY <1>1, <2>1, OthersStay
  <2>3. buffer.items = <<>> => Batch(buffer) = <<>>
    BY BufferAssumption DEF Batch
  <2>4. Placed(h)' /\ Detecting(h)'
    BY <1>1, <1>2, <2>1, <2>3 DEF Placed, Detecting
  <2> QED BY <2>2, <2>4 DEF Positions
<1>5. ASSUME NEW h \in Handlers, Write(h) \/ WriteFails(h) PROVE Positions'
  <2>1. /\ pc' = [pc EXCEPT ![h] = "flush"]
        /\ hand' = [hand EXCEPT ![h] = <<>>]
        /\ UNCHANGED <<claims, harvest, todo>>
        /\ \A k \in Handlers \ {h} : result'[k] = result[k]
    BY <1>1, <1>5 DEF Write, WriteFails, Goto, engine
  <2>2. \A k \in Handlers \ {h} : (Placed(k) /\ Detecting(k))'
    BY <1>1, <2>1, OthersStay
  <2>3. Placed(h)' /\ Detecting(h)'
    BY <1>1, <1>2, <2>1 DEF Placed, Detecting
  <2> QED BY <2>2, <2>3 DEF Positions
<1>6. ASSUME NEW h \in Handlers, Quarantine(h) PROVE Positions'
  <2>1. /\ pc' = [pc EXCEPT ![h] = "detect"]
        /\ todo' = [todo EXCEPT ![h] = {i \in DOMAIN harvest[h].events : ClassOf(h, i) \in {"alert", "metric"}}]
        /\ UNCHANGED <<claims, harvest, hand, result>> /\ pc[h] = "quarantine"
    BY <1>6 DEF Quarantine, Goto, engine
  <2>2. \A k \in Handlers \ {h} : (Placed(k) /\ Detecting(k))'
    BY <1>1, <2>1, OthersStay
  <2>3. Placed(h)'
    BY <1>1, <1>2, <2>1 DEF Placed
  <2>4. Detecting(h)'
    BY <1>1, <2>1 DEF Detecting, ClassOf
  <2> QED BY <2>2, <2>3, <2>4 DEF Positions
<1>7. ASSUME NEW h \in Handlers, Later(h) PROVE Positions'
  <2>1. PICK next \in Ended \cup Steps : next \notin {"new", "detect", "writing"} /\ Goto(h, next)
    BY <1>7, LaterTypes
  <2>2. /\ pc' = [pc EXCEPT ![h] = next] /\ UNCHANGED <<claims, harvest, hand, todo>>
        /\ \A k \in Handlers \ {h} : result'[k] = result[k]
    <3>1. \A k \in Handlers \ {h} : result'[k] = result[k]
      <4>1. CASE CorrelateFindings(h)
        BY <1>1, <4>1, QueryIsQuiet DEF CorrelateFindings, Group, locals
      <4> QED BY <1>1, <1>7, <4>1 DEF Later, UpsertNodes, UpsertEdges, Audit
    <3> QED BY <1>7, <2>1, <3>1, LaterTypes DEF Goto, Aside
  <2>3. \A k \in Handlers \ {h} : (Placed(k) /\ Detecting(k))'
    BY <1>1, <2>2, OthersStay
  <2>4. pc[h] # "writing"
    BY <1>7, QueryIsQuiet DEF Later, UpsertNodes, UpsertEdges, CorrelateFindings, Group, Audit
  <2>5. Placed(h)' /\ Detecting(h)'
    BY <1>1, <1>2, <2>1, <2>2, <2>4 DEF Placed, Detecting
  <2> QED BY <2>3, <2>5 DEF Positions
<1>8. CASE ReadCandidates \/ Prune
  BY <1>2, <1>8, PruningTypes DEF Aside, Positions, Placed, Detecting, ClassOf
<1>10. ASSUME NEW h \in Handlers, Raises(h) PROVE Positions'
  <2>1. /\ pc' = [pc EXCEPT ![h] = "failed"] /\ UNCHANGED <<claims, harvest, hand, todo>>
        /\ \A k \in Handlers \ {h} : result'[k] = result[k]
        /\ pc[h] \notin {"new", "writing"}
    BY <1>10, RaisesTypes DEF Goto, engine
  <2>2. \A k \in Handlers \ {h} : (Placed(k) /\ Detecting(k))'
    BY <1>1, <2>1, OthersStay
  <2>3. Placed(h)' /\ Detecting(h)'
    BY <1>1, <1>2, <2>1 DEF Placed, Detecting
  <2> QED BY <2>2, <2>3 DEF Positions
<1>9. CASE Crash
  <2>1. \A k \in Handlers : /\ pc'[k] # "detect" /\ hand'[k] = <<>> /\ todo'[k] = {}
                            /\ pc'[k] = "new" => pc[k] = "new"
    BY <1>9 DEF Crash, Ended
  <2>2. harvest' = harvest /\ result' = result
    BY <1>9 DEF Crash
  <2> QED BY <1>2, <2>1, <2>2 DEF Positions, Placed, Detecting
<1> QED
  BY <1>3, <1>4, <1>5, <1>6, <1>7, <1>8, <1>9, <1>10, StepKinds, DetectionStep

-----------------------------------------------------------------------------
(* Where the events are *)

LEMMA PlaceAside ==
  ASSUME UNCHANGED <<buffer, harvest, hand, stored, crashes>>
  PROVE  /\ Submitted' = Submitted /\ Held' = Held
         /\ EachEventIsInOnePlace => EachEventIsInOnePlace'
<1>1. \A k \in Handlers : HandSet(k)' = HandSet(k)
  BY DEF HandSet
<1>2. Events(buffer.items)' = Events(buffer.items)
  BY DEF Events
<1>3. Submitted' = Submitted
  BY DEF Submitted, Events
<1>4. Held' = Held
  BY <1>1, <1>2 DEF Held
<1>5. ASSUME EachEventIsInOnePlace PROVE EachEventIsInOnePlace'
  <2>1. IsInjective(buffer.items) => IsInjective(buffer.items)'
    BY DEF IsInjective
  <2>2. \A k \in Handlers : IsInjective(hand[k]) => IsInjective(hand[k])'
    BY DEF IsInjective
  <2> QED BY <1>1, <1>2, <1>3, <1>4, <1>5, <2>1, <2>2 DEF EachEventIsInOnePlace
<1> QED
  BY <1>3, <1>4, <1>5

\* What a call submits is new: no other call has submitted it, and it
\* repeats nothing.
LEMMA SubmittedGrows ==
  ASSUME TypeInv, Positions, NEW h \in Handlers, NEW v \in Harvests[h], Submit(h, v)
  PROVE  LET new == Normalised(h, v).events IN
         /\ new \in Seq(Event) /\ IsInjective(new)
         /\ Events(new) \cap Submitted = {}
         /\ Submitted' = Submitted \cup Events(new)
         /\ Cardinality(Submitted') = Cardinality(Submitted) + Len(new)
<1> DEFINE new == Normalised(h, v).events
<1>1. new \in Seq(Event) /\ IsInjective(new) /\ \A e \in Events(new) : e.id[1] = h
  BY HarvestFacts
<1>2. harvest[h] = NoHarvest /\ harvest' = [harvest EXCEPT ![h] = Normalised(h, v)]
      /\ DOMAIN harvest = Handlers
  BY DEF Submit, Positions, Placed, TypeInv
<1>3. Events(harvest[h].events) = {}
  BY <1>2 DEF NoHarvest, Events
<1>4. \A k \in Handlers : \A e \in Events(harvest[k].events) : e.id[1] = k
  BY HarvestsAreTyped
<1>5. Events(new) \cap Submitted = {}
  <2>1. ASSUME NEW e \in Events(new), e \in Submitted PROVE FALSE
    <3>1. PICK k \in Handlers : e \in Events(harvest[k].events)
      BY <2>1 DEF Submitted
    <3>2. k = h
      BY <1>1, <1>4, <2>1, <3>1
    <3> QED BY <1>3, <3>1, <3>2
  <2> QED BY <2>1
<1>6. Submitted' = Submitted \cup Events(new)
  <2>1. Events(harvest'[h].events) = Events(new)
    BY <1>2 DEF Events
  <2>2. \A k \in Handlers \ {h} : harvest'[k] = harvest[k]
    BY <1>2
  <2>3. \A x : x \in Submitted' <=> \E k \in Handlers : x \in Events(harvest'[k].events)
    BY DEF Submitted, Events
  <2>4. \A x : x \in Submitted <=> \E k \in Handlers : x \in Events(harvest[k].events)
    BY DEF Submitted
  <2> HIDE DEF new
  <2>5. ASSUME NEW x \in Submitted' PROVE x \in Submitted \cup Events(new)
    BY <2>1, <2>2, <2>3, <2>4
  <2>6. ASSUME NEW x \in Submitted \cup Events(new) PROVE x \in Submitted'
    BY <1>3, <2>1, <2>2, <2>3, <2>4
  <2> QED BY <2>5, <2>6
<1>7. Cardinality(Submitted \cup Events(new)) = Cardinality(Submitted) + Len(new)
  <2> HIDE DEF new
  <2>1. IsFiniteSet(Events(new)) /\ Cardinality(Events(new)) = Len(new) /\ Len(new) \in Nat
    BY <1>1, EventsFacts
  <2>2. IsFiniteSet(Submitted) /\ Cardinality(Submitted) \in Nat
    BY SubmittedIsFinite
  <2>3. Cardinality(Submitted \cap Events(new)) = 0
    <3>1. Submitted \cap Events(new) = {}
      BY <1>5
    <3> QED BY <3>1, FS_EmptySet
  <2>4. Cardinality(Submitted \cup Events(new)) =
          Cardinality(Submitted) + Cardinality(Events(new)) - Cardinality(Submitted \cap Events(new))
    BY <2>1, <2>2, FS_Union
  <2> QED BY <2>1, <2>2, <2>3, <2>4
<1> QED
  BY <1>1, <1>5, <1>6, <1>7

LEMMA PlaceSubmit ==
  ASSUME TypeInv, Positions, EachEventIsInOnePlace,
         NEW h \in Handlers, NEW v \in Harvests[h], Submit(h, v)
  PROVE  EachEventIsInOnePlace'
<1> SUFFICES ASSUME crashes' = 0 PROVE EachEventIsInOnePlace'
  BY DEF EachEventIsInOnePlace
<1> DEFINE new == Normalised(h, v).events
           queue == Events(buffer.items)
           after == Events(buffer'.items)
<1>1. /\ crashes = 0 /\ buffer' = Offer(buffer, new) /\ hand' = hand /\ stored' = stored
  BY DEF Submit, bounds, durable
<1>2. /\ new \in Seq(Event) /\ IsInjective(new) /\ Events(new) \cap Submitted = {}
      /\ Submitted' = Submitted \cup Events(new)
      /\ Cardinality(Submitted') = Cardinality(Submitted) + Len(new)
  BY SubmittedGrows
<1> HIDE DEF new
<1>3. /\ buffer.accepted = Cardinality(Submitted) /\ Held \cup stored \subseteq Submitted
      /\ IsInjective(buffer.items) /\ \A k \in Handlers : IsInjective(hand[k])
      /\ stored \cap Held = {}
      /\ \A k \in Handlers : HandSet(k) \cap queue = {}
      /\ \A k \in Handlers : \A l \in Handlers \ {k} : HandSet(k) \cap HandSet(l) = {}
  BY <1>1 DEF EachEventIsInOnePlace
<1>4. queue \subseteq Held /\ \A k \in Handlers : HandSet(k) \subseteq Held
  BY DEF Held
<1>5. queue \cap Events(new) = {}
  BY <1>2, <1>3, <1>4
<1>6. /\ buffer'.accepted = buffer.accepted + Len(new) /\ IsInjective(buffer'.items)
      /\ after \subseteq queue \cup Events(new)
  <2>1. buffer \in Buffers /\ Len(buffer.items) <= Capacity
    BY DEF TypeInv
  <2> QED BY <1>1, <1>2, <1>3, <1>5, <2>1, OfferFacts
<1>7. \A k \in Handlers : HandSet(k)' = HandSet(k)
  BY <1>1 DEF HandSet
<1> HIDE DEF queue, after
<1>8. Held' = after \cup UNION {HandSet(k) : k \in Handlers}
  BY <1>7 DEF Held, after, Events
<1>9. Held = queue \cup UNION {HandSet(k) : k \in Handlers}
  BY DEF Held, queue
<1>10. Held' \cup stored' \subseteq Submitted'
  BY <1>1, <1>2, <1>3, <1>6, <1>8, <1>9
<1>11. stored' \cap Held' = {}
  BY <1>1, <1>2, <1>3, <1>6, <1>8, <1>9
<1>12. \A k \in Handlers : HandSet(k)' \cap after = {}
  BY <1>2, <1>3, <1>4, <1>6, <1>7 DEF queue
<1>13. Events(buffer.items)' = after
  BY DEF after, Events
<1>14. \A k \in Handlers : IsInjective(hand[k])'
  BY <1>1, <1>3 DEF IsInjective
<1>15. IsInjective(buffer.items)'
  BY <1>6 DEF IsInjective
<1>16. \A k \in Handlers : \A l \in Handlers \ {k} : HandSet(k)' \cap HandSet(l)' = {}
  BY <1>3, <1>7
<1>17. (buffer.accepted = Cardinality(Submitted))'
  BY <1>2, <1>3, <1>6
<1> QED
  BY <1>10, <1>11, <1>12, <1>13, <1>14, <1>15, <1>16, <1>17 DEF EachEventIsInOnePlace

LEMMA PlaceDrain ==
  ASSUME TypeInv, Positions, EachEventIsInOnePlace, NEW h \in Handlers, Drain(h)
  PROVE  /\ Submitted' = Submitted /\ Held' = Held /\ stored' = stored
         /\ EachEventIsInOnePlace'
<1> DEFINE queue == Events(buffer.items)
           batch == Events(Batch(buffer))
           after == Events(buffer'.items)
<1>1. /\ buffer' = Drained(buffer) /\ hand' = [hand EXCEPT ![h] = Batch(buffer)]
      /\ crashes' = crashes /\ stored' = stored /\ harvest' = harvest
      /\ pc[h] = "flush" /\ DOMAIN hand = Handlers
  BY DEF Drain, bounds, durable, TypeInv
<1>2. hand[h] = <<>> /\ HandSet(h) = {}
  BY <1>1 DEF Positions, Placed, HandSet
<1>3. /\ queue = batch \cup after
      /\ buffer'.accepted = buffer.accepted
      /\ IsInjective(buffer.items) =>
           /\ IsInjective(Batch(buffer)) /\ IsInjective(buffer'.items) /\ batch \cap after = {}
  <2>1. buffer \in Buffers /\ Len(buffer.items) <= Capacity
    BY DEF TypeInv
  <2> QED BY <1>1, <2>1, DrainFacts
<1>4. HandSet(h)' = batch /\ \A k \in Handlers \ {h} : HandSet(k)' = HandSet(k)
  BY <1>1 DEF HandSet, Events
<1>5. Submitted' = Submitted
  BY <1>1 DEF Submitted, Events
<1>6. Events(buffer.items)' = after
  BY DEF Events
<1> HIDE DEF queue, batch, after
<1>7. Held' = after \cup UNION {HandSet(k)' : k \in Handlers}
  BY <1>6 DEF Held
<1>8. Held = queue \cup UNION {HandSet(k) : k \in Handlers}
  BY DEF Held, queue
<1>9. Held' = Held
  <2>1. ASSUME NEW x \in Held' PROVE x \in Held
    BY <1>3, <1>4, <1>7, <1>8
  <2>2. ASSUME NEW x \in Held PROVE x \in Held'
    BY <1>2, <1>3, <1>4, <1>7, <1>8
  <2> QED BY <2>1, <2>2
<1>10. ASSUME crashes = 0 PROVE EachEventIsInOnePlace'
  <2>1. /\ buffer.accepted = Cardinality(Submitted) /\ Held \cup stored \subseteq Submitted
        /\ IsInjective(buffer.items) /\ \A k \in Handlers : IsInjective(hand[k])
        /\ stored \cap Held = {}
        /\ \A k \in Handlers : HandSet(k) \cap queue = {}
        /\ \A k \in Handlers : \A l \in Handlers \ {k} : HandSet(k) \cap HandSet(l) = {}
    BY <1>10 DEF EachEventIsInOnePlace, queue
  <2>2. /\ (buffer.accepted = Cardinality(Submitted))' /\ (Held \cup stored \subseteq Submitted)'
        /\ (stored \cap Held = {})'
    BY <1>1, <1>3, <1>5, <1>9, <2>1
  <2>3. IsInjective(buffer.items)'
    BY <1>3, <2>1 DEF IsInjective
  <2>4. \A k \in Handlers : IsInjective(hand[k])'
    <3>1. TAKE k \in Handlers
    <3>2. CASE k = h
      <4>1. hand'[k] = Batch(buffer)
        BY <1>1, <3>2
      <4> QED BY <1>3, <2>1, <4>1 DEF IsInjective
    <3>3. CASE k # h
      <4>1. hand'[k] = hand[k]
        BY <1>1, <3>3
      <4> QED BY <2>1, <4>1 DEF IsInjective
    <3> QED BY <3>2, <3>3
  <2>5. \A k \in Handlers : HandSet(k)' \cap after = {}
    BY <1>3, <1>4, <2>1
  <2>6. \A k \in Handlers : \A l \in Handlers \ {k} : HandSet(k)' \cap HandSet(l)' = {}
    <3>1. \A k \in Handlers \ {h} : HandSet(k) \cap batch = {}
      BY <1>3, <2>1
    <3> QED BY <1>4, <2>1, <3>1
  <2> QED BY <1>6, <2>2, <2>3, <2>4, <2>5, <2>6 DEF EachEventIsInOnePlace
<1> QED
  BY <1>1, <1>5, <1>9, <1>10 DEF EachEventIsInOnePlace

\* The batch a handler wrote is in the store, or is nowhere: a write that
\* raised may have committed.
LEMMA PlaceWrite ==
  ASSUME TypeInv, Positions, EachEventIsInOnePlace, NEW h \in Handlers, Write(h) \/ WriteFails(h)
  PROVE  /\ Submitted' = Submitted /\ stored \subseteq stored' /\ Held \subseteq Held' \cup HandSet(h)
         /\ Write(h) => HandSet(h) \subseteq stored'
         /\ EachEventIsInOnePlace'
<1>1. /\ buffer' = buffer /\ hand' = [hand EXCEPT ![h] = <<>>]
      /\ crashes' = crashes /\ harvest' = harvest
      /\ stored' \in {stored, stored \cup HandSet(h)}
      /\ DOMAIN hand = Handlers
  BY DEF Write, WriteFails, engine, bounds, TypeInv
<1>2. HandSet(h)' = {} /\ \A k \in Handlers \ {h} : HandSet(k)' = HandSet(k)
  BY <1>1 DEF HandSet
<1>3. Submitted' = Submitted
  BY <1>1 DEF Submitted, Events
<1>4. Events(buffer.items)' = Events(buffer.items)
  BY <1>1 DEF Events
<1>5. Held' = Events(buffer.items) \cup UNION {HandSet(k)' : k \in Handlers}
  BY <1>4 DEF Held
<1>6. Held = Events(buffer.items) \cup UNION {HandSet(k) : k \in Handlers}
  BY DEF Held
<1>7. Held' \subseteq Held /\ Held \subseteq Held' \cup HandSet(h)
  <2>1. ASSUME NEW x \in Held' PROVE x \in Held
    BY <1>2, <1>5, <1>6
  <2>2. ASSUME NEW x \in Held PROVE x \in Held' \cup HandSet(h)
    BY <1>2, <1>5, <1>6
  <2> QED BY <2>1, <2>2
<1>8. ASSUME crashes = 0 PROVE EachEventIsInOnePlace'
  <2>1. /\ buffer.accepted = Cardinality(Submitted) /\ Held \cup stored \subseteq Submitted
        /\ IsInjective(buffer.items) /\ \A k \in Handlers : IsInjective(hand[k])
        /\ stored \cap Held = {}
        /\ \A k \in Handlers : HandSet(k) \cap Events(buffer.items) = {}
        /\ \A k \in Handlers : \A l \in Handlers \ {k} : HandSet(k) \cap HandSet(l) = {}
    BY <1>8 DEF EachEventIsInOnePlace
  <2>2. HandSet(h) \subseteq Held
    BY <1>6
  <2>3. (buffer.accepted = Cardinality(Submitted))' /\ (Held \cup stored \subseteq Submitted)'
    BY <1>1, <1>3, <1>7, <2>1, <2>2
  <2>4. HandSet(h) \cap Held' = {}
    <3>1. ASSUME NEW x \in HandSet(h), x \in Held' PROVE FALSE
      BY <1>2, <1>5, <2>1, <3>1
    <3> QED BY <3>1
  <2>5. (stored \cap Held = {})'
    BY <1>1, <1>7, <2>1, <2>4
  <2>6. IsInjective(buffer.items)'
    BY <1>1, <2>1 DEF IsInjective
  <2>7. \A k \in Handlers : IsInjective(hand[k])'
    <3>1. TAKE k \in Handlers
    <3>2. CASE k = h
      BY <1>1, <3>2 DEF IsInjective
    <3>3. CASE k # h
      BY <1>1, <2>1, <3>3 DEF IsInjective
    <3> QED BY <3>2, <3>3
  <2>8. \A k \in Handlers : HandSet(k)' \cap Events(buffer.items)' = {}
    BY <1>2, <1>4, <2>1
  <2>9. \A k \in Handlers : \A l \in Handlers \ {k} : HandSet(k)' \cap HandSet(l)' = {}
    BY <1>2, <2>1
  <2> QED BY <2>3, <2>5, <2>6, <2>7, <2>8, <2>9 DEF EachEventIsInOnePlace
<1>9. Write(h) => HandSet(h) \subseteq stored'
  BY DEF Write
<1> QED
  BY <1>1, <1>3, <1>7, <1>8, <1>9 DEF EachEventIsInOnePlace

-----------------------------------------------------------------------------
(* What is lost *)

LEMMA LossIsBounded ==
  ASSUME NEW A, IsFiniteSet(A), NEW X, IsFiniteSet(X), NEW B, B \subseteq A \cup X
  PROVE  /\ Cardinality(A) \in Nat /\ Cardinality(X) \in Nat /\ Cardinality(B) \in Nat
         /\ Cardinality(B) <= Cardinality(A) + Cardinality(X)
<1>1. Cardinality(A) \in Nat /\ Cardinality(X) \in Nat
  BY FS_CardinalityType
<1>2. IsFiniteSet(A \cap X) /\ Cardinality(A \cap X) \in Nat
  BY FS_Intersection, FS_CardinalityType
<1>3. /\ IsFiniteSet(A \cup X)
      /\ Cardinality(A \cup X) = Cardinality(A) + Cardinality(X) - Cardinality(A \cap X)
  BY FS_Union
<1>4. IsFiniteSet(B) /\ Cardinality(B) <= Cardinality(A \cup X)
  BY <1>3, FS_Subset
<1>5. Cardinality(B) \in Nat
  BY <1>4, FS_CardinalityType
<1> QED
  BY <1>1, <1>2, <1>3, <1>4, <1>5

Drops == [h \in Handlers |-> result[h].dropped]
Failures == [h \in Handlers |-> result[h].failed]

\* All that was counted: on the results there are, and on those nobody got.
Counted ==
  /\ buffer.dropped = Total(Drops) + untold.dropped
  /\ Cardinality(Lost) <= buffer.dropped + BatchSize * (Total(Failures) + untold.failed)

LEMMA CountedIsLossIsCounted == LossIsCounted <=> (crashes = 0 => Counted)
BY DEF LossIsCounted, Counted, Drops, Failures

LEMMA CountsAreTyped ==
  ASSUME TypeInv, Noted
  PROVE  /\ Drops \in [Handlers -> Nat] /\ Failures \in [Handlers -> Nat]
         /\ Total(Drops) \in Nat /\ Total(Failures) \in Nat
         /\ untold.dropped \in Nat /\ untold.failed \in Nat
         /\ buffer.dropped \in Nat /\ BatchSize \in Nat
         /\ IsFiniteSet(Lost) /\ Cardinality(Lost) \in Nat
<1>1. Drops \in [Handlers -> Nat] /\ Failures \in [Handlers -> Nat]
  BY DEF TypeInv, IsResult, Drops, Failures
<1>2. Total(Drops) \in Nat /\ Total(Failures) \in Nat
  BY <1>1, BarsAreFinite
<1>3. IsFiniteSet(Submitted) /\ Lost \subseteq Submitted
  BY SubmittedIsFinite DEF Lost
<1>4. IsFiniteSet(Lost)
  BY <1>3, FS_Subset
<1>5. untold.dropped \in Nat /\ untold.failed \in Nat
  BY DEF Noted
<1> QED
  BY <1>1, <1>2, <1>4, <1>5, FS_CardinalityType, BufferAssumption DEF TypeInv, Buffers

LEMMA ProductGrows ==
  ASSUME NEW b \in Nat, NEW e \in Nat, NEW n \in Nat
  PROVE  b * (e + n) = b * e + b * n /\ b * n \in Nat /\ b * e \in Nat /\ b * 1 = b
OBVIOUS

\* A step that loses nothing more and keeps the counts keeps the balance.
LEMMA CountsStay ==
  ASSUME TypeInv, TypeInv', Noted, Noted', LossIsCounted, Lost' \subseteq Lost,
         crashes' = crashes, buffer'.dropped = buffer.dropped,
         Total(Drops)' + untold'.dropped = Total(Drops) + untold.dropped,
         Total(Failures)' + untold'.failed = Total(Failures) + untold.failed
  PROVE  LossIsCounted'
<1>1. Cardinality(Lost') <= Cardinality(Lost) /\ Cardinality(Lost') \in Nat /\ Cardinality(Lost) \in Nat
  BY CountsAreTyped, FS_Subset, FS_CardinalityType
<1>2. buffer.dropped \in Nat /\ BatchSize * (Total(Failures) + untold.failed) \in Nat
  <2>1. Total(Failures) + untold.failed \in Nat /\ BatchSize \in Nat
    BY CountsAreTyped
  <2>2. \A a, b \in Nat : a * b \in Nat
    OBVIOUS
  <2> QED BY <2>1, <2>2, CountsAreTyped
<1>3. ASSUME crashes = 0 PROVE Counted'
  <2>1. Counted
    BY <1>3, CountedIsLossIsCounted
  <2>2. Cardinality(Lost') <= buffer.dropped + BatchSize * (Total(Failures) + untold.failed)
    BY <1>1, <1>2, <2>1 DEF Counted
  <2> QED BY <2>1, <2>2 DEF Counted
<1> QED
  BY <1>3 DEF Counted, LossIsCounted, Drops, Failures

LEMMA LossAside ==
  ASSUME Aside, LossIsCounted PROVE LossIsCounted'
<1>1. Submitted' = Submitted /\ Held' = Held /\ UNCHANGED <<stored, buffer, crashes, untold>>
  BY PlaceAside DEF Aside
<1>2. Lost' = Lost
  BY <1>1 DEF Lost
<1>3. Drops' = Drops /\ Failures' = Failures
  BY DEF Aside, Drops, Failures
<1> QED
  BY <1>1, <1>2, <1>3 DEF LossIsCounted, Drops, Failures

LEMMA LossSubmit ==
  ASSUME TypeInv, Noted, Positions, LossIsCounted,
         NEW h \in Handlers, NEW v \in Harvests[h], Submit(h, v)
  PROVE  LossIsCounted'
<1> SUFFICES ASSUME crashes' = 0 PROVE Counted'
  BY DEF LossIsCounted, Counted, Drops, Failures
<1> DEFINE new == Normalised(h, v).events
           out == PushedOut(buffer, new)
           hands == UNION {HandSet(k) : k \in Handlers}
<1>1. /\ crashes = 0 /\ buffer' = Offer(buffer, new) /\ hand' = hand /\ stored' = stored
      /\ DOMAIN result = Handlers /\ untold' = untold
      /\ \A k \in Handlers \ {h} : result'[k] = result[k]
      /\ pc[h] = "new"
  BY DEF Submit, bounds, durable, told, TypeInv
<1>2. TypeInv' /\ result'[h].dropped = out /\ result'[h].failed = result[h].failed
  BY SubmitTypes
<1>3. new \in Seq(Event) /\ Submitted' = Submitted \cup Events(new)
  BY SubmittedGrows
<1> HIDE DEF new
<1>4. /\ out \in Nat /\ buffer'.dropped = buffer.dropped + out
      /\ \E gone \in SUBSET Event :
           /\ Events(buffer.items) \cup Events(new) = gone \cup Events(buffer'.items)
           /\ IsFiniteSet(gone) /\ Cardinality(gone) <= out
  <2>1. buffer \in Buffers /\ Len(buffer.items) <= Capacity
    BY DEF TypeInv
  <2> QED BY <1>1, <1>3, <2>1, OfferFacts
<1>5. PICK gone \in SUBSET Event :
        /\ Events(buffer.items) \cup Events(new) = gone \cup Events(buffer'.items)
        /\ IsFiniteSet(gone) /\ Cardinality(gone) <= out
  BY <1>4
<1> HIDE DEF out
<1>6. Lost' \subseteq Lost \cup gone
  <2>1. Held' = Events(buffer'.items) \cup hands
    BY <1>1 DEF Held, HandSet, Events
  <2>2. Held = Events(buffer.items) \cup hands
    BY DEF Held
  <2> HIDE DEF hands
  <2>3. ASSUME NEW x \in Lost', x \notin gone PROVE x \in Lost
    <3>1. x \in Submitted' /\ x \notin stored' /\ x \notin Held'
      BY <2>3 DEF Lost
    <3>2. x \notin Events(buffer.items) /\ x \notin Events(new)
      BY <1>5, <2>1, <2>3, <3>1
    <3> QED BY <1>1, <1>3, <2>1, <2>2, <3>1, <3>2 DEF Lost
  <2> QED BY <2>3
<1>7. /\ Cardinality(Lost) \in Nat /\ Cardinality(gone) \in Nat /\ Cardinality(Lost') \in Nat
      /\ Cardinality(Lost') <= Cardinality(Lost) + Cardinality(gone)
  BY <1>5, <1>6, CountsAreTyped, LossIsBounded
<1>8. result[h].dropped = 0
  BY <1>1 DEF Positions, Placed, NoResult
<1>9. /\ Drops \in [Handlers -> Nat] /\ Total(Drops) \in Nat /\ Total(Failures) \in Nat
      /\ untold.dropped \in Nat /\ untold.failed \in Nat /\ buffer.dropped \in Nat /\ BatchSize \in Nat
  BY CountsAreTyped
<1>10. Drops' \in [Handlers -> Nat]
  BY <1>2 DEF TypeInv, IsResult, Drops
<1>11. Total(Drops') = Total(Drops) + out
  <2>1. Drops'[h] = Drops[h] + out /\ \A k \in Handlers \ {h} : Drops'[k] = Drops[k]
    BY <1>1, <1>2, <1>4, <1>8 DEF Drops
  <2> QED BY <1>4, <1>9, <1>10, <2>1, TotalGrows
<1>12. Failures' = Failures
  BY <1>1, <1>2 DEF Failures
<1>13. Counted
  BY <1>1, CountedIsLossIsCounted
<1>14. PICK p \in Nat : p = BatchSize * (Total(Failures) + untold.failed)
  <2>1. Total(Failures) + untold.failed \in Nat
    BY <1>9
  <2>2. \A a, b \in Nat : a * b \in Nat
    OBVIOUS
  <2> QED BY <1>9, <2>1, <2>2
<1>15. Cardinality(Lost') <= buffer'.dropped + p
  BY <1>4, <1>5, <1>7, <1>9, <1>13, <1>14 DEF Counted
<1>16. buffer'.dropped = Total(Drops') + untold'.dropped
  BY <1>1, <1>4, <1>9, <1>11, <1>13 DEF Counted
<1> QED
  BY <1>1, <1>12, <1>14, <1>15, <1>16 DEF Counted

LEMMA LossDrain ==
  ASSUME TypeInv, Positions, EachEventIsInOnePlace, LossIsCounted, NEW h \in Handlers, Drain(h)
  PROVE  LossIsCounted'
<1>1. Lost' = Lost
  BY PlaceDrain DEF Lost
<1>2. UNCHANGED <<result, crashes, untold>> /\ buffer'.dropped = buffer.dropped
  <2>1. buffer \in Buffers /\ Len(buffer.items) <= Capacity /\ buffer' = Drained(buffer)
    BY DEF TypeInv, Drain
  <2>2. UNCHANGED <<result, crashes, untold>>
    BY DEF Drain, bounds, told
  <2> QED BY <2>1, <2>2, DrainFacts
<1> QED
  BY <1>1, <1>2 DEF LossIsCounted

LEMMA LossWrite ==
  ASSUME TypeInv, Noted, Positions, EachEventIsInOnePlace, LossIsCounted, NEW h \in Handlers, Write(h), Noted'
  PROVE  LossIsCounted'
<1>1. /\ Submitted' = Submitted /\ stored \subseteq stored' /\ Held \subseteq Held' \cup HandSet(h)
      /\ HandSet(h) \subseteq stored'
  BY PlaceWrite
<1>2. Lost' \subseteq Lost
  BY <1>1 DEF Lost
<1>3. Drops' = Drops /\ Failures' = Failures /\ UNCHANGED <<buffer, crashes, untold>> /\ TypeInv'
  <2>1. \A k \in Handlers : result'[k].dropped = result[k].dropped /\ result'[k].failed = result[k].failed
    <3>1. \A k \in Handlers \ {h} : result'[k] = result[k]
      BY DEF Write, TypeInv
    <3> QED BY <3>1, WriteTypes
  <2>2. UNCHANGED <<buffer, crashes, untold>> /\ TypeInv'
    BY WriteTypes DEF Write, engine, bounds, told
  <2> QED BY <2>1, <2>2 DEF Drops, Failures
<1>4. Total(Drops)' = Total(Drops) /\ Total(Failures)' = Total(Failures)
  BY <1>3
<1> QED
  BY <1>2, <1>3, <1>4, CountsStay

LEMMA LossWriteFails ==
  ASSUME TypeInv, Noted, Positions, EachEventIsInOnePlace, LossIsCounted, NEW h \in Handlers, WriteFails(h)
  PROVE  LossIsCounted'
<1>1. /\ Submitted' = Submitted /\ stored \subseteq stored' /\ Held \subseteq Held' \cup HandSet(h)
  BY PlaceWrite
<1>2. Lost' \subseteq Lost \cup HandSet(h)
  BY <1>1 DEF Lost
<1>3. /\ result'[h].failed = result[h].failed + 1 /\ result'[h].dropped = result[h].dropped
      /\ \A k \in Handlers \ {h} : result'[k] = result[k]
      /\ UNCHANGED <<buffer, crashes, untold>> /\ TypeInv'
  <2>1. \A k \in Handlers \ {h} : result'[k] = result[k]
    BY DEF WriteFails, TypeInv
  <2> QED BY <2>1, WriteFailsTypes DEF WriteFails, engine, bounds, told
<1>4. /\ Drops \in [Handlers -> Nat] /\ Failures \in [Handlers -> Nat]
      /\ Total(Drops) \in Nat /\ Total(Failures) \in Nat /\ buffer.dropped \in Nat /\ BatchSize \in Nat
      /\ untold.dropped \in Nat /\ untold.failed \in Nat
  BY CountsAreTyped
<1>5. Failures' \in [Handlers -> Nat]
  BY <1>3 DEF TypeInv, IsResult, Failures
<1>6. Total(Failures') = Total(Failures) + 1
  <2>1. Failures'[h] = Failures[h] + 1 /\ \A k \in Handlers \ {h} : Failures'[k] = Failures[k]
    BY <1>3 DEF Failures
  <2> QED BY <1>4, <1>5, <2>1, TotalGrows
<1>7. Drops' = Drops
  BY <1>3 DEF Drops
<1>8. /\ Cardinality(Lost) \in Nat /\ Cardinality(Lost') \in Nat
      /\ Cardinality(Lost') <= Cardinality(Lost) + Cardinality(HandSet(h))
      /\ Cardinality(HandSet(h)) \in Nat /\ Cardinality(HandSet(h)) <= BatchSize
  BY <1>2, CountsAreTyped, HandIsTyped, LossIsBounded
<1>9. ASSUME crashes = 0 PROVE Counted'
  <2>1. Counted
    BY <1>9, CountedIsLossIsCounted
  <2>2. PICK e \in Nat : e = Total(Failures) + untold.failed
    BY <1>4
  <2>3. /\ BatchSize * (e + 1) = BatchSize * e + BatchSize * 1
        /\ BatchSize * e \in Nat /\ BatchSize * 1 = BatchSize
    BY <1>4, ProductGrows
  <2>4. PICK q \in Nat : q = BatchSize * e
    BY <2>3
  <2>5. Total(Failures') + untold'.failed = e + 1
    BY <1>3, <1>4, <1>6, <2>2
  <2>6. Cardinality(Lost) <= buffer.dropped + q
    BY <2>1, <2>2, <2>4 DEF Counted
  <2>7. Cardinality(Lost') <= buffer'.dropped + (q + BatchSize)
    BY <1>3, <1>4, <1>8, <2>6
  <2>8. Cardinality(Lost') <= buffer'.dropped + BatchSize * (Total(Failures') + untold'.failed)
    BY <2>3, <2>4, <2>5, <2>7
  <2>9. buffer'.dropped = Total(Drops') + untold'.dropped
    BY <1>3, <1>7, <2>1 DEF Counted
  <2> QED BY <2>8, <2>9 DEF Counted
<1> QED
  BY <1>3, <1>9 DEF LossIsCounted, Counted, Drops, Failures

\* What goes down with a handler that raises was counted, and still is.
LEMMA LossRaises ==
  ASSUME TypeInv, Noted, LossIsCounted, NEW h \in Handlers, Raises(h), Noted'
  PROVE  LossIsCounted'
<1>1. /\ TypeInv' /\ UNCHANGED <<buffer, harvest, hand, stored, crashes>>
      /\ \A k \in Handlers : result'[k] = IF k = h THEN NoResult ELSE result[k]
      /\ untold' = [dropped |-> untold.dropped + result[h].dropped,
                    failed |-> untold.failed + result[h].failed]
  BY RaisesTypes DEF engine, durable, bounds
<1>2. Lost' = Lost
  BY <1>1, PlaceAside DEF Lost
<1>3. /\ Drops \in [Handlers -> Nat] /\ Failures \in [Handlers -> Nat]
      /\ Total(Drops) \in Nat /\ Total(Failures) \in Nat
      /\ untold.dropped \in Nat /\ untold.failed \in Nat
      /\ result[h].dropped \in Nat /\ result[h].failed \in Nat
  BY CountsAreTyped DEF TypeInv, IsResult
<1>4. Drops' \in [Handlers -> Nat] /\ Failures' \in [Handlers -> Nat]
  BY <1>1 DEF TypeInv, IsResult, Drops, Failures
<1>5. Total(Drops) = Total(Drops') + result[h].dropped
  <2>1. Drops[h] = Drops'[h] + result[h].dropped /\ \A k \in Handlers \ {h} : Drops[k] = Drops'[k]
    BY <1>1, <1>3 DEF Drops, NoResult
  <2> QED BY <1>3, <1>4, <2>1, TotalGrows
<1>6. Total(Failures) = Total(Failures') + result[h].failed
  <2>1. Failures[h] = Failures'[h] + result[h].failed /\ \A k \in Handlers \ {h} : Failures[k] = Failures'[k]
    BY <1>1, <1>3 DEF Failures, NoResult
  <2> QED BY <1>3, <1>4, <2>1, TotalGrows
<1>7. Total(Drops') \in Nat /\ Total(Failures') \in Nat
  BY <1>4, BarsAreFinite
<1>8. /\ Total(Drops)' + untold'.dropped = Total(Drops) + untold.dropped
      /\ Total(Failures)' + untold'.failed = Total(Failures) + untold.failed
  BY <1>1, <1>3, <1>5, <1>6, <1>7
<1> QED
  BY <1>1, <1>2, <1>8, CountsStay

-----------------------------------------------------------------------------
(* The invariant *)

LEMMA InitInv == Init => IInv
<1> SUFFICES ASSUME Init PROVE IInv
  OBVIOUS
<1>1. TypeInv
  BY InitTypes
<1>2. Positions
  BY DEF Init, Positions, Placed, Detecting
<1>3. Submitted = {} /\ Held = {}
  <2>1. \A h \in Handlers : harvest[h].events = <<>> /\ hand[h] = <<>>
    BY DEF Init, NoHarvest
  <2>2. buffer.items = <<>> /\ Events(<<>>) = {}
    BY DEF Init, EmptyBuffer, Events
  <2>3. \A h \in Handlers : HandSet(h) = {}
    BY <2>1 DEF HandSet
  <2> QED BY <2>1, <2>2, <2>3 DEF Submitted, Held
<1>4. EachEventIsInOnePlace
  <2>1. buffer.accepted = 0 /\ buffer.items = <<>> /\ stored = {}
    BY DEF Init, EmptyBuffer
  <2>2. Cardinality(Submitted) = 0
    BY <1>3, FS_EmptySet
  <2>3. IsInjective(buffer.items) /\ \A h \in Handlers : IsInjective(hand[h])
    BY <2>1 DEF IsInjective, Init
  <2>4. \A h \in Handlers : HandSet(h) = {}
    BY <1>3 DEF Held
  <2> QED BY <1>3, <2>1, <2>2, <2>3, <2>4 DEF EachEventIsInOnePlace
<1>5. LossIsCounted
  <2>1. /\ buffer.dropped = 0 /\ untold.dropped = 0 /\ untold.failed = 0
        /\ \A h \in Handlers : result[h].dropped = 0 /\ result[h].failed = 0
    BY DEF Init, EmptyBuffer, NoResult
  <2>2. Total(Drops) = 0 /\ Total(Failures) = 0
    <3>1. Drops = [h \in Handlers |-> 0] /\ Failures = [h \in Handlers |-> 0]
      BY <2>1 DEF Drops, Failures
    <3> QED BY <3>1, TotalOfNothing
  <2>3. Cardinality(Lost) = 0
    <3>1. Lost = {}
      BY <1>3 DEF Lost
    <3> QED BY <3>1, FS_EmptySet
  <2>4. BatchSize * (0 + 0) = 0
    BY BufferAssumption
  <2>5. Counted
    BY <2>1, <2>2, <2>3, <2>4 DEF Counted
  <2> QED BY <2>5, CountedIsLossIsCounted
<1>6. Noted
  BY DEF Init, Noted
<1>7. \A h \in Handlers : Asked(h)
  BY DEF Init, Asked
<1> QED
  BY <1>1, <1>2, <1>4, <1>5, <1>6, <1>7 DEF IInv

\* Who asks, and what nobody was told, is kept by every step.
LEMMA NotedStep ==
  ASSUME TypeInv, Noted, Next
  PROVE  Noted'
<1>1. ASSUME UNCHANGED <<correlator, told>> PROVE Noted'
  BY <1>1 DEF Noted, correlator, told
<1>2. ASSUME NEW h \in Handlers, NEW v \in Harvests[h], Submit(h, v) PROVE Noted'
  BY <1>1, <1>2 DEF Submit
<1>3. ASSUME NEW h \in Handlers, Drain(h) \/ Write(h) \/ WriteFails(h) \/ Quarantine(h) PROVE Noted'
  BY <1>1, <1>3 DEF Drain, Write, WriteFails, Quarantine
<1>4. ASSUME NEW h \in Handlers, NEW i \in todo[h], DetectAlert(h, i) \/ DetectMetric(h, i) PROVE Noted'
  BY <1>1, <1>4 DEF DetectAlert, DetectMetric, Detected
<1>5. ASSUME NEW h \in Handlers, UpsertNodes(h) \/ UpsertEdges(h) PROVE Noted'
  BY <1>5 DEF UpsertNodes, UpsertEdges, Noted, told, Witnessed
<1>6. ASSUME NEW h \in Handlers, CorrelateFindings(h) PROVE Noted'
  BY <1>6, QueryIsQuiet DEF CorrelateFindings, Group, Noted, told
<1>7. ASSUME NEW h \in Handlers, Audit(h) PROVE Noted'
  BY <1>7 DEF Audit, Noted, correlator
<1>8. ASSUME NEW h \in Handlers, Raises(h) PROVE Noted'
  <2>1. result[h].dropped \in Nat /\ result[h].failed \in Nat
    BY DEF TypeInv, IsResult
  <2>2. untold' \in [dropped : Nat, failed : Nat]
    BY <1>8, <2>1, RaisesTypes DEF Noted
  <2>3. DOMAIN asking' = Handlers /\ DOMAIN views' = Handlers
    BY <1>8 DEF Raises, EdgesRefused, StoreRaises, Raise, Noted
  <2> QED BY <2>2, <2>3 DEF Noted
<1>9. CASE ReadCandidates
  BY <1>1, <1>9 DEF ReadCandidates
<1>10. CASE Prune
  BY <1>10 DEF Prune, Noted, told, Witnessed
<1>11. CASE Crash
  BY <1>11 DEF Crash, Noted, told
<1> QED
  BY <1>2, <1>3, <1>4, <1>5, <1>6, <1>7, <1>8, <1>9, <1>10, <1>11, StepKinds DEF Later

\* A handler that another one does not disturb: it has heard what it had, and
\* the graph is one it may meet.
LEMMA StillAsked ==
  ASSUME NEW k \in Handlers, Asked(k),
         pc'[k] = "correlate" =>
           /\ pc[k] = "correlate" /\ result'[k].findings = result[k].findings
           /\ asking'[k] = asking[k] /\ views[k] \subseteq views'[k] /\ graph' \in views'[k]
  PROVE  Asked(k)'
<1> SUFFICES ASSUME pc'[k] = "correlate"
             PROVE  Heard(ByTime(result'[k].findings), asking'[k], views'[k])
  BY DEF Asked
<1>1. PICK fs : fs = ByTime(result[k].findings)
  OBVIOUS
<1>2. PICK a : a = asking[k]
  OBVIOUS
<1>3. PICK seen, more : seen = views[k] /\ more = views'[k]
  OBVIOUS
<1>4. Heard(fs, a, seen) /\ seen \subseteq more
  BY <1>1, <1>2, <1>3 DEF Asked
<1>5. Heard(fs, a, more)
  BY <1>4, HeardGrows
<1> QED BY <1>1, <1>2, <1>3, <1>5

\* A query is answered by the graph as it is, which is one of those witnessed.
LEMMA QueryStep ==
  ASSUME TypeInv, Noted, NEW k \in Handlers, Asked(k), NEW p, AskForward(k, p) \/ AskBack(k, p)
  PROVE  Asked(k)'
<1>1. PICK fs : fs = ByTime(result[k].findings)
  OBVIOUS
<1>2. PICK a : a = asking[k]
  OBVIOUS
<1>3. PICK seen : seen = views[k]
  OBVIOUS
<1>4. PICK g : g = graph
  OBVIOUS
<1>5. /\ pc[k] = "correlate" /\ result' = result /\ graph' = graph /\ views' = views
      /\ IsNext(p, a.pairs)
  BY <1>2 DEF AskForward, AskBack, Asks, locals, durable
<1>6. g \in seen /\ Heard(fs, a, seen)
  BY <1>1, <1>2, <1>3, <1>4, <1>5 DEF Asked
<1>7. DOMAIN fs \subseteq Nat
  <2>1. result[k].findings \in Seq(Finding)
    BY DEF TypeInv, IsResult
  <2>2. DOMAIN fs = DOMAIN result[k].findings
    BY <1>1 DEF ByTime
  <2> QED BY <2>1, <2>2
<1>8. /\ Tied(fs[p[1]], fs[p[2]], seen) => Heard(fs, Related(a, p), seen)
      /\ Missed(fs[p[1]], fs[p[2]], seen) => Heard(fs, Turned(a), seen)
      /\ a.turned /\ Missed(fs[p[2]], fs[p[1]], seen) => Heard(fs, Unrelated(a, p), seen)
  BY <1>5, <1>6, <1>7, OneMoreHeard
<1>9. Heard(fs, asking'[k], seen)
  <2>1. k \in DOMAIN asking
    BY DEF Noted
  <2>2. CASE AskForward(k, p)
    <3>1. asking'[k] = IF fs[p[2]].entity \in BlastRadius(g, fs[p[1]].entity, MaxDepth)
                       THEN Related(a, p) ELSE Turned(a)
      BY <1>1, <1>2, <1>4, <2>1, <2>2 DEF AskForward, Asks
    <3>2. fs[p[2]].entity \in BlastRadius(g, fs[p[1]].entity, MaxDepth) => Tied(fs[p[1]], fs[p[2]], seen)
      BY <1>6 DEF Tied, Reached
    <3>3. fs[p[2]].entity \notin BlastRadius(g, fs[p[1]].entity, MaxDepth) => Missed(fs[p[1]], fs[p[2]], seen)
      BY <1>6 DEF Missed
    <3> QED BY <1>8, <3>1, <3>2, <3>3
  <2>3. CASE AskBack(k, p)
    <3>1. /\ a.turned
          /\ asking'[k] = IF fs[p[1]].entity \in BlastRadius(g, fs[p[2]].entity, MaxDepth)
                          THEN Related(a, p) ELSE Unrelated(a, p)
      BY <1>1, <1>2, <1>4, <2>1, <2>3 DEF AskBack, Asks
    <3>2. fs[p[1]].entity \in BlastRadius(g, fs[p[2]].entity, MaxDepth) => Tied(fs[p[1]], fs[p[2]], seen)
      BY <1>6 DEF Tied, Reached
    <3>3. fs[p[1]].entity \notin BlastRadius(g, fs[p[2]].entity, MaxDepth) => Missed(fs[p[2]], fs[p[1]], seen)
      BY <1>6 DEF Missed
    <3> QED BY <1>8, <3>1, <3>2, <3>3
  <2> QED BY <2>2, <2>3
<1> QED BY <1>1, <1>3, <1>4, <1>5, <1>6, <1>9 DEF Asked

LEMMA AskedStep ==
  ASSUME TypeInv, Noted, Next, NEW k \in Handlers, Asked(k)
  PROVE  Asked(k)'
<1>0. /\ DOMAIN pc = Handlers /\ DOMAIN result = Handlers /\ DOMAIN asking = Handlers
      /\ DOMAIN views = Handlers
  BY DEF TypeInv, Noted
<1>1. pc[k] = "correlate" => graph \in views[k]
  BY DEF Asked
<1>2. ASSUME UNCHANGED <<graph, correlator>>,
             pc'[k] = "correlate" => pc[k] = "correlate" /\ result'[k] = result[k]
      PROVE  Asked(k)'
  BY <1>1, <1>2, StillAsked DEF correlator
<1>3. ASSUME NEW h \in Handlers, NEW v \in Harvests[h], Submit(h, v) PROVE Asked(k)'
  <2>1. UNCHANGED <<graph, correlator>>
    BY <1>3 DEF Submit, durable
  <2> QED BY <1>0, <1>2, <1>3, <2>1 DEF Submit, Goto
<1>4. ASSUME NEW h \in Handlers, Drain(h) \/ Write(h) \/ WriteFails(h) \/ Quarantine(h) PROVE Asked(k)'
  <2>1. UNCHANGED <<graph, correlator>>
    BY <1>4 DEF Drain, Write, WriteFails, Quarantine, durable
  <2> QED BY <1>0, <1>2, <1>4, <2>1 DEF Drain, Write, WriteFails, Quarantine, Goto
<1>5. ASSUME NEW h \in Handlers, NEW i \in todo[h], DetectAlert(h, i) \/ DetectMetric(h, i) PROVE Asked(k)'
  <2>1. UNCHANGED <<graph, correlator>> /\ pc' = pc /\ pc[h] = "detect"
    BY <1>5 DEF DetectAlert, DetectMetric, Detected, durable
  <2>2. k # h => result'[k] = result[k]
    BY <1>0, <1>5 DEF DetectAlert, DetectMetric, Detected
  <2> QED BY <1>2, <2>1, <2>2
<1>6. ASSUME NEW h \in Handlers, UpsertNodes(h) PROVE Asked(k)'
  <2>1. /\ result' = result /\ asking' = asking /\ pc' = [pc EXCEPT ![h] = "edges"]
        /\ views'[k] = IF pc[k] = "correlate" THEN views[k] \cup {graph'} ELSE views[k]
    BY <1>6 DEF UpsertNodes, Witnessed, Goto
  <2>2. pc'[k] = "correlate" => pc[k] = "correlate"
    BY <1>0, <2>1
  <2> QED BY <2>1, <2>2, StillAsked
<1>7. ASSUME NEW h \in Handlers, UpsertEdges(h), k # h PROVE Asked(k)'
  <2>1. /\ result' = result /\ asking'[k] = asking[k] /\ pc'[k] = pc[k]
        /\ views'[k] = IF pc[k] = "correlate" THEN views[k] \cup {graph'} ELSE views[k]
    BY <1>0, <1>7 DEF UpsertEdges, Witnessed, Goto
  <2> QED BY <2>1, StillAsked
<1>8. ASSUME UpsertEdges(k) PROVE Asked(k)'
  <2>1. result' = result
    BY <1>8 DEF UpsertEdges
  <2>2. CASE result[k].findings = <<>>
    <3>1. pc'[k] = "audit"
      BY <1>0, <1>8, <2>2 DEF UpsertEdges, Goto
    <3> QED BY <3>1 DEF Asked
  <2>3. CASE result[k].findings # <<>>
    <3>1. /\ asking'[k] = Opening(ByTime(result[k].findings), CorrelationWindow)
          /\ views'[k] = {graph'}
      BY <1>0, <1>8, <2>3 DEF UpsertEdges
    <3>2. PICK seen : seen = views'[k]
      OBVIOUS
    <3>3. Heard(ByTime(result[k].findings), Opening(ByTime(result[k].findings), CorrelationWindow), seen)
      BY NothingHeard
    <3> QED BY <2>1, <3>1, <3>2, <3>3 DEF Asked
  <2> QED BY <2>2, <2>3
<1>9. ASSUME NEW h \in Handlers, NEW p, AskForward(h, p) \/ AskBack(h, p) PROVE Asked(k)'
  <2>1. CASE h = k
    BY <1>9, <2>1, QueryStep
  <2>2. CASE h # k
    <3>1. UNCHANGED <<engine, durable, bounds, locals, views, told>> /\ asking'[k] = asking[k]
      BY <1>0, <1>9, <2>2, QueryIsQuiet
    <3>2. UNCHANGED <<graph, pc, result, views>>
      BY <3>1 DEF durable, locals
    <3> QED BY <1>1, <3>1, <3>2, StillAsked
  <2> QED BY <2>1, <2>2
<1>10. ASSUME NEW h \in Handlers, Group(h) PROVE Asked(k)'
  <2>1. CASE h = k
    <3>1. pc'[k] = "audit"
      BY <1>0, <1>10, <2>1 DEF Group, Goto
    <3> QED BY <3>1 DEF Asked
  <2>2. CASE h # k
    <3>1. pc'[k] = pc[k] /\ result'[k] = result[k] /\ asking'[k] = asking[k] /\ views'[k] = views[k] /\ graph' = graph
      BY <1>0, <1>10, <2>2 DEF Group, Goto, durable
    <3> QED BY <1>1, <3>1, StillAsked
  <2> QED BY <2>1, <2>2
<1>11. ASSUME NEW h \in Handlers, Audit(h) PROVE Asked(k)'
  <2>1. UNCHANGED <<graph, correlator>> /\ result' = result
    BY <1>11 DEF Audit, durable
  <2> QED BY <1>0, <1>2, <1>11, <2>1 DEF Audit, Goto
<1>12. ASSUME NEW h \in Handlers, Raises(h) PROVE Asked(k)'
  <2>1. graph' = graph /\ Goto(h, "failed")
    BY <1>12, RaisesTypes DEF durable
  <2>2. CASE h = k
    BY <1>0, <2>1, <2>2 DEF Asked, Goto
  <2>3. CASE h # k
    <3>1. pc'[k] = pc[k] /\ result'[k] = result[k] /\ asking'[k] = asking[k] /\ views'[k] = views[k]
      BY <1>0, <1>12, <2>3 DEF Raises, EdgesRefused, StoreRaises, Raise, Goto
    <3> QED BY <1>1, <2>1, <3>1, StillAsked
  <2> QED BY <2>2, <2>3
<1>13. CASE ReadCandidates
  <2>1. UNCHANGED <<graph, correlator, pc, result>>
    BY <1>13 DEF ReadCandidates, durable, locals
  <2> QED BY <1>2, <2>1
<1>14. CASE Prune
  <2>1. /\ UNCHANGED <<pc, result, asking>>
        /\ views'[k] = IF pc[k] = "correlate" THEN views[k] \cup {graph'} ELSE views[k]
    BY <1>14 DEF Prune, Witnessed, locals
  <2> QED BY <2>1, StillAsked
<1>15. CASE Crash
  <2>1. pc'[k] # "correlate"
    BY <1>15 DEF Crash, Ended
  <2> QED BY <2>1 DEF Asked
<1> QED
  BY <1>3, <1>4, <1>5, <1>6, <1>7, <1>8, <1>9, <1>10, <1>11, <1>12, <1>13, <1>14, <1>15, StepKinds
     DEF Later, CorrelateFindings

LEMMA PlacesStep ==
  ASSUME IInv, Next, Noted'
  PROVE  EachEventIsInOnePlace' /\ LossIsCounted'
<1> USE DEF IInv
<1>1. ASSUME NEW h \in Handlers, NEW v \in Harvests[h], Submit(h, v)
      PROVE  EachEventIsInOnePlace' /\ LossIsCounted'
  BY <1>1, PlaceSubmit, LossSubmit
<1>2. ASSUME NEW h \in Handlers, Drain(h) \/ Write(h) \/ WriteFails(h)
      PROVE  EachEventIsInOnePlace' /\ LossIsCounted'
  BY <1>2, PlaceDrain, PlaceWrite, LossDrain, LossWrite, LossWriteFails
<1>3. ASSUME Aside
      PROVE  EachEventIsInOnePlace' /\ LossIsCounted'
  BY <1>3, PlaceAside, LossAside DEF Aside
<1>8. ASSUME NEW h \in Handlers, Raises(h)
      PROVE  EachEventIsInOnePlace' /\ LossIsCounted'
  BY <1>8, RaisesTypes, PlaceAside, LossRaises DEF engine, durable, bounds
<1>4. ASSUME NEW h \in Handlers, Quarantine(h) \/ Later(h) PROVE Aside
  BY <1>4, QuarantineTypes, LaterTypes
<1>5. ASSUME NEW h \in Handlers, NEW i \in todo[h], DetectAlert(h, i) \/ DetectMetric(h, i) PROVE Aside
  BY <1>5, DetectAlertTypes, DetectMetricTypes DEF Positions
<1>6. CASE ReadCandidates \/ Prune
  BY <1>3, <1>6, PruningTypes
<1>7. CASE Crash
  BY <1>7, CrashTypes DEF EachEventIsInOnePlace, LossIsCounted
<1> QED
  BY <1>1, <1>2, <1>3, <1>4, <1>5, <1>6, <1>7, <1>8, StepKinds

LEMMA StutterInv == IInv /\ UNCHANGED vars => IInv'
<1> SUFFICES ASSUME IInv, UNCHANGED vars PROVE IInv'
  OBVIOUS
<1>1. /\ UNCHANGED <<buffer, baselines, claims, stored, quarantined, graph, backend, prunes, crashes>>
      /\ UNCHANGED <<pc, harvest, hand, todo, result, asking, views, untold>>
  BY DEF vars, engine, durable, bounds, locals, correlator, told
<1>2. TypeInv'
  BY <1>1 DEF IInv, TypeInv
<1>3. Positions'
  BY <1>1 DEF IInv, Positions, Placed, Detecting, ClassOf
<1>4. Aside
  BY <1>1 DEF Aside
<1>5. Noted'
  BY <1>1 DEF IInv, Noted
<1>6. \A h \in Handlers : Asked(h)'
  BY <1>1 DEF IInv, Asked
<1> QED
  BY <1>2, <1>3, <1>4, <1>5, <1>6, PlaceAside, LossAside DEF IInv, Aside

\* The invariant is inductive.
THEOREM Inductive == Spec => []IInv
<1>1. Init => IInv
  BY InitInv
<1>2. IInv /\ [Next]_vars => IInv'
  <2>1. ASSUME IInv, Next PROVE IInv'
    <3>1. TypeInv /\ Noted /\ Positions /\ \A h \in Handlers : Asked(h)
      BY <2>1 DEF IInv
    <3>2. TypeInv' /\ Positions' /\ Noted'
      BY <2>1, <3>1, TypeStep, PositionsStep, NotedStep
    <3>3. EachEventIsInOnePlace' /\ LossIsCounted'
      BY <2>1, <3>2, PlacesStep
    <3>4. \A h \in Handlers : Asked(h)'
      BY <2>1, <3>1, AskedStep
    <3> QED BY <3>2, <3>3, <3>4 DEF IInv
  <2> QED BY <2>1, StutterInv
<1> QED
  BY <1>1, <1>2, PTL DEF Spec

-----------------------------------------------------------------------------
(* What follows *)

\* Every variable keeps its type: no call overfills the buffer, no drain hands
\* out more than a batch, and no baseline keeps more than its window.
THEOREM TypesHold == Spec => []TypeOK
<1>1. IInv => TypeOK
  BY DEF IInv, TypeInv, TypeOK, Buffers
<1> QED
  BY <1>1, Inductive, PTL

\* Until the process dies, what is neither stored nor on its way was counted:
\* as a drop of the buffer or as a failed batch of some handler.
THEOREM LossIsAlwaysCounted == Spec => []LossIsCounted
<1>1. IInv => LossIsCounted
  BY DEF IInv
<1> QED
  BY <1>1, Inductive, PTL

\* However the drains of several handlers interleave, no event is in two
\* places: queue, hands and store divide what was submitted.
THEOREM EventsAreDivided == Spec => []EachEventIsInOnePlace
<1>1. IInv => EachEventIsInOnePlace
  BY DEF IInv
<1> QED
  BY <1>1, Inductive, PTL

\* On every graph perception builds, and at every depth it may ask for, the
\* query and the walk in memory reach the same keys besides the origin.
THEOREM ImpactAlwaysAgrees == Spec => []StoresAgreeOnImpact
<1>1. StoresAgreeOnImpact
  <2>1. \A d \in 0..MaxDepth : d \in Nat
    OBVIOUS
  <2> QED BY <2>1, ImpactAgrees DEF StoresAgreeOnImpact
<1> QED
  BY <1>1, PTL

\* Every window a baseline comes to hold is judged by its majority, if it has
\* one.
THEOREM MajorityAlwaysDecides == Spec => []MajorityDecides
<1>1. IInv => MajorityDecides
  <2> SUFFICES ASSUME IInv, NEW k \in DOMAIN baselines, NEW m \in Events(baselines[k]),
                      2 * Cardinality(At(baselines[k], m)) > Len(baselines[k]),
                      Len(baselines[k]) >= MinSamples,
                      NEW v \in Events(baselines[k]) \cup {m - 1, m + 1}
               PROVE  IsAnomalous(Evaluated(baselines[k], v)) <=> v # m
    BY DEF MajorityDecides, At
  <2>1. baselines[k] \in Seq(Int)
    BY DEF IInv, TypeInv
  <2>2. m \in Int /\ v \in Int
    <3>1. Events(baselines[k]) \subseteq Int
      BY <2>1, EventsFacts
    <3> QED BY <3>1
  <2> QED BY <2>1, <2>2, MajorityIsTheNormal
<1> QED
  BY <1>1, Inductive, PTL

\* The baseline does not second what an upstream rule has claimed: a metric is
\* judged when every alert of its batch has passed.
THEOREM UpstreamIsNeverSeconded == Spec => UpstreamIsNotSeconded
<1> DEFINE Unseconded(h) ==
      LET fs == result'[h].findings
      IN Len(fs) > Len(result[h].findings) /\ fs[Len(fs)].source = "baseline" =>
           LET pair == Pair(fs[Len(fs)])
           IN /\ pair \notin claims
              /\ \A e \in Events(harvest[h].events) : e.class = "alert" => Pair(e) # pair
      All == \A h \in Handlers : Unseconded(h)
<1>1. ASSUME IInv, Next, NEW k \in Handlers PROVE Unseconded(k)
  <2>1. TypeInv /\ Positions
    BY <1>1 DEF IInv
  <2>2. ASSUME NEW h \in Handlers, NEW i \in todo[h], DetectMetric(h, i) PROVE Unseconded(k)
    <3> DEFINE x == harvest[h].events[i]
               fs == result'[k].findings
    <3>1. SUFFICES ASSUME Len(fs) > Len(result[k].findings)
                   PROVE  /\ Pair(fs[Len(fs)]) \notin claims
                          /\ \A e \in Events(harvest[k].events) : e.class = "alert" => Pair(e) # Pair(fs[Len(fs)])
      OBVIOUS
    <3>2. /\ k = h /\ Pair(x) \notin claims /\ fs[Len(fs)] = FindingOf(x, "baseline")
      BY <2>1, <2>2, <3>1, DetectMetricTypes DEF Positions
    <3>3. Pair(fs[Len(fs)]) = Pair(x)
      BY <3>2 DEF Pair, FindingOf
    <3>4. /\ pc[h] = "detect" /\ Detecting(h)
          /\ \A j \in todo[h] : ClassOf(h, j) # "alert"
      BY <2>1, <2>2 DEF DetectMetric, AlertsFirst, Positions
    <3>5. \A j \in DOMAIN harvest[h].events : ClassOf(h, j) = "alert" => Pair(harvest[h].events[j]) \in claims
      BY <3>4 DEF Detecting
    <3>6. \A e \in Events(harvest[k].events) : e.class = "alert" => Pair(e) \in claims
      BY <3>2, <3>5 DEF Events, ClassOf
    <3> QED BY <3>2, <3>3, <3>6
  <2>3. ASSUME NEW h \in Handlers, NEW i \in todo[h], DetectAlert(h, i) PROVE Unseconded(k)
    <3>1. Len(result'[k].findings) > Len(result[k].findings) =>
            result'[k].findings[Len(result'[k].findings)].source = "upstream"
      BY <2>1, <2>3, DetectAlertTypes DEF Positions
    <3> QED BY <3>1
  <2>4. ASSUME result'[k].findings = result[k].findings PROVE Unseconded(k)
    <3>1. Len(result[k].findings) \in Nat
      BY <2>1 DEF TypeInv, IsResult
    <3> QED BY <2>4, <3>1
  <2>5. ASSUME NEW h \in Handlers, NEW v \in Harvests[h], Submit(h, v)
        PROVE  result'[k].findings = result[k].findings
    <3>1. k # h => result'[k] = result[k]
      BY <2>1, <2>5 DEF Submit, TypeInv
    <3> QED BY <2>1, <2>5, <3>1, SubmitTypes
  <2>6. ASSUME NEW h \in Handlers, Drain(h) \/ Write(h) \/ WriteFails(h) \/ Quarantine(h) \/ Later(h)
        PROVE  result'[k].findings = result[k].findings
    <3>1. CASE Later(h)
      BY <2>1, <3>1, LaterTypes
    <3>2. CASE Drain(h) \/ Quarantine(h)
      BY <3>2 DEF Drain, Quarantine
    <3>3. CASE Write(h)
      BY <2>1, <3>3 DEF Write, TypeInv, IsResult
    <3>4. CASE WriteFails(h)
      BY <2>1, <3>4 DEF WriteFails, TypeInv, IsResult
    <3> QED BY <2>6, <3>1, <3>2, <3>3, <3>4
  <2>7. CASE ReadCandidates \/ Prune
    BY <2>1, <2>4, <2>7, PruningTypes
  <2>9. ASSUME NEW h \in Handlers, Raises(h) PROVE Unseconded(k)
    <3>1. Len(result'[k].findings) <= Len(result[k].findings)
      BY <2>1, <2>9, RaisesTypes
    <3>2. TypeInv'
      BY <2>1, <2>9, RaisesTypes
    <3>3. Len(result[k].findings) \in Nat
      BY <2>1 DEF TypeInv, IsResult
    <3>4. Len(result'[k].findings) \in Nat
      BY <3>2 DEF TypeInv, IsResult
    <3> QED BY <3>1, <3>3, <3>4
  <2>8. CASE Crash
    BY <2>4, <2>8 DEF Crash
  <2> HIDE DEF Unseconded
  <2> QED BY <1>1, <2>2, <2>3, <2>4, <2>5, <2>6, <2>7, <2>8, <2>9, StepKinds
<1>2. IInv /\ [Next]_vars => [All]_vars
  BY <1>1
<1> QED
  BY <1>2, Inductive, PTL DEF Spec, UpstreamIsNotSeconded

\* Only the handler itself takes its findings from correlation to the trail.
LEMMA CorrelationStep ==
  ASSUME TypeInv, Next, NEW k \in Handlers, pc[k] = "correlate", pc'[k] = "audit"
  PROVE  Group(k)
<1>1. pc \in [Handlers -> Ended \cup Steps]
  BY DEF TypeInv
<1>2. ASSUME NEW h \in Handlers, NEW next, Goto(h, next) PROVE h = k /\ next = "audit"
  BY <1>1, <1>2 DEF Goto
<1>3. ASSUME NEW h \in Handlers, NEW v \in Harvests[h], Submit(h, v) PROVE FALSE
  BY <1>2, <1>3 DEF Submit
<1>4. ASSUME NEW h \in Handlers, Drain(h) \/ Write(h) \/ WriteFails(h) \/ Quarantine(h) PROVE FALSE
  BY <1>2, <1>4 DEF Drain, Write, WriteFails, Quarantine
<1>5. ASSUME NEW h \in Handlers, NEW i \in todo[h], DetectAlert(h, i) \/ DetectMetric(h, i) PROVE FALSE
  BY <1>5 DEF DetectAlert, DetectMetric, Detected
<1>6. ASSUME NEW h \in Handlers, Later(h) PROVE Group(k)
  <2>1. CASE Group(h)
    <3>1. h = k
      BY <1>2, <2>1 DEF Group
    <3> QED BY <2>1, <3>1
  <2>2. CASE \E p \in asking[h].pairs : AskForward(h, p) \/ AskBack(h, p)
    BY <2>2, QueryIsQuiet DEF locals
  <2>3. CASE UpsertNodes(h) \/ Audit(h)
    BY <1>2, <2>3 DEF UpsertNodes, Audit
  <2>4. CASE UpsertEdges(h)
    <3>1. h = k /\ pc[h] = "edges"
      BY <1>2, <2>4 DEF UpsertEdges
    <3> QED BY <3>1
  <2> QED BY <1>6, <2>1, <2>2, <2>3, <2>4 DEF Later, CorrelateFindings
<1>9. ASSUME NEW h \in Handlers, Raises(h) PROVE FALSE
  BY <1>2, <1>9, RaisesTypes
<1>7. CASE ReadCandidates \/ Prune
  BY <1>7, PruningTypes
<1>8. CASE Crash
  BY <1>8 DEF Crash, Ended
<1> QED
  BY <1>3, <1>4, <1>5, <1>6, <1>7, <1>8, <1>9, StepKinds

\* What a handler makes of its findings is the connected groups of them, link
\* for link and gap for gap under graphs there were while it asked, however the
\* findings came about and whatever changed the graph meanwhile.
THEOREM IncidentsAreAlwaysLinked == Spec => IncidentsAreLinked
<1> DEFINE Grouped(h) ==
      pc[h] = "correlate" /\ pc'[h] = "audit" =>
        LET incidents == result'[h].incidents
        IN /\ UNION incidents = Events(result[h].findings)
           /\ \A c, d \in incidents : c # d => \A f1 \in c, f2 \in d : Unlinked(f1, f2, views[h])
           /\ \A c \in incidents : OfOnePiece(c, views[h])
      All == \A h \in Handlers : Grouped(h)
<1>1. ASSUME IInv, Next, NEW k \in Handlers, pc[k] = "correlate", pc'[k] = "audit" PROVE Grouped(k)
  <2>1. PICK fs : fs = result[k].findings
    OBVIOUS
  <2>2. PICK a : a = asking[k]
    OBVIOUS
  <2>3. PICK seen : seen = views[k]
    OBVIOUS
  <2>0. PICK n : n = Len(fs)
    OBVIOUS
  <2> DEFINE cs == Groups(ByTime(fs), a.related)
  <2>4. TypeInv /\ fs \in Seq(Finding) /\ k \in DOMAIN result /\ IsResult(result[k]) /\ Asked(k)
    BY <1>1, <2>1 DEF IInv, TypeInv, IsResult
  <2>5. Group(k)
    BY <1>1, <2>4, CorrelationStep
  <2>6. result'[k].incidents = cs
    <3>1. result' = [result EXCEPT ![k] = [result[k] EXCEPT !.incidents = cs]]
      BY <2>1, <2>2, <2>5 DEF Group
    <3> HIDE DEF cs
    <3>2. [result[k] EXCEPT !.incidents = cs].incidents = cs
      BY <2>4 DEF IsResult
    <3> QED BY <2>4, <3>1, <3>2
  <2>7. \A f \in Finding : f.at \in Int
    <3>1. \A e \in Event : e.at \in Int
      BY EventFacts
    <3> QED BY <3>1 DEF Finding, FindingOf
  <2>8. n \in Nat /\ DOMAIN fs = 1..n /\ \A i \in 1..n : fs[i].at \in Int
    BY <2>0, <2>4, <2>7
  <2>9. Events(fs) = {fs[i] : i \in 1..n}
    BY <2>8 DEF Events
  <2>10. Heard(ByTime(fs), a, seen) /\ a.pairs = {}
    BY <1>1, <2>1, <2>2, <2>3, <2>4, <2>5 DEF Asked, Group
  <2>11. /\ UNION cs = {fs[i] : i \in 1..n}
         /\ \A c, d \in cs : c # d => \A f1 \in c, f2 \in d : Unlinked(f1, f2, seen)
         /\ \A c \in cs : OfOnePiece(c, seen)
    <3> HIDE DEF Grouped, All
    <3> QED BY <2>8, <2>10, IncidentsAreComponents
  <2>12. UNION cs = Events(fs)
    BY <2>9, <2>11
  <2> HIDE DEF cs
  <2> QED BY <2>1, <2>3, <2>6, <2>11, <2>12
<1>2. ASSUME NEW k \in Handlers, UNCHANGED vars PROVE Grouped(k)
  BY <1>2 DEF vars, locals
<1>3. IInv /\ [Next]_vars => [All]_vars
  <2> HIDE DEF Grouped
  <2>1. ASSUME NEW k \in Handlers, ~(pc[k] = "correlate" /\ pc'[k] = "audit") PROVE Grouped(k)
    BY <2>1 DEF Grouped
  <2> QED BY <1>1, <2>1
<1> QED
  BY <1>3, Inductive, PTL DEF Spec, IncidentsAreLinked
=============================================================================
