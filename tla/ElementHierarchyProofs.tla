----------------------- MODULE ElementHierarchyProofs -----------------------
(***************************************************************************)
(* The walk of any_in_chain() visits as many elements as the parent map    *)
(* has entries and one more.  That is enough on every parent map, with or  *)
(* without cycles: what it misses is not an ancestor.                      *)
(***************************************************************************)
EXTENDS ElementHierarchy, NaturalsProofs, FiniteSetTheorems

Parent(parents, e) == IF e \in DOMAIN parents THEN parents[e] ELSE e

\* g are the first n + 1 positions of the walk.
WalkUpTo(parents, start, n, g) ==
  /\ DOMAIN g = 0..n
  /\ g = [k \in 0..n |-> g[k]]
  /\ g[0] = start
  /\ \A k \in 1..n : g[k] = Parent(parents, g[k - 1])

\* The positions exist.
LEMMA WalkExists ==
  ASSUME NEW parents, NEW start
  PROVE  \A n \in Nat : \E g : WalkUpTo(parents, start, n, g)
<1> DEFINE S == {n \in Nat : \E g : WalkUpTo(parents, start, n, g)}
<1>1. 0 \in S
  <2>1. WalkUpTo(parents, start, 0, [k \in 0..0 |-> start])
    BY DEF WalkUpTo
  <2> QED
    BY <2>1
<1>2. ASSUME NEW n \in Nat, n \in S PROVE n + 1 \in S
  <2>1. PICK g : WalkUpTo(parents, start, n, g)
    BY <1>2
  <2> DEFINE h == [k \in 0..(n + 1) |-> IF k = n + 1 THEN Parent(parents, g[n]) ELSE g[k]]
  <2>2. DOMAIN h = 0..(n + 1) /\ h = [k \in 0..(n + 1) |-> h[k]]
    OBVIOUS
  <2>3. h[0] = start
    BY <2>1 DEF WalkUpTo
  <2>4. ASSUME NEW k \in 1..(n + 1) PROVE h[k] = Parent(parents, h[k - 1])
    <3>1. k - 1 \in 0..n /\ k - 1 # n + 1 /\ k \in 0..(n + 1) /\ k - 1 \in 0..(n + 1)
      OBVIOUS
    <3>2. h[k - 1] = g[k - 1]
      BY <3>1
    <3>3. CASE k = n + 1
      BY <3>1, <3>2, <3>3
    <3>4. CASE k # n + 1
      <4>1. k \in 1..n /\ h[k] = g[k]
        BY <3>1, <3>4
      <4> QED
        BY <2>1, <3>2, <4>1 DEF WalkUpTo
    <3> QED
      BY <3>3, <3>4
  <2> HIDE DEF h
  <2>5. WalkUpTo(parents, start, n + 1, h)
    BY <2>2, <2>3, <2>4 DEF WalkUpTo
  <2> QED
    BY <2>5
<1> HIDE DEF S
<1>3. \A n \in Nat : n \in S
  BY <1>1, <1>2, NatSetInduction
<1> QED
  BY <1>3 DEF S

\* Longer walks begin with shorter ones.
LEMMA WalkUnique ==
  ASSUME NEW parents, NEW start, NEW m \in Nat, NEW n \in Nat, NEW g, NEW h,
         WalkUpTo(parents, start, m, g), WalkUpTo(parents, start, n, h)
  PROVE  \A k \in Nat : k <= m /\ k <= n => g[k] = h[k]
<1> DEFINE S == {k \in Nat : k <= m /\ k <= n => g[k] = h[k]}
<1>1. 0 \in S
  BY DEF WalkUpTo
<1>2. ASSUME NEW k \in Nat, k \in S PROVE k + 1 \in S
  <2>1. SUFFICES ASSUME k + 1 <= m, k + 1 <= n PROVE g[k + 1] = h[k + 1]
    OBVIOUS
  <2>2. g[k] = h[k] /\ (k + 1) - 1 = k /\ k + 1 \in 1..m /\ k + 1 \in 1..n
    BY <1>2, <2>1
  <2>3. g[k + 1] = Parent(parents, g[(k + 1) - 1]) /\ h[k + 1] = Parent(parents, h[(k + 1) - 1])
    BY <2>2 DEF WalkUpTo
  <2> QED
    BY <2>2, <2>3
<1> HIDE DEF S
<1>3. \A k \in Nat : k \in S
  BY <1>1, <1>2, NatSetInduction
<1> QED
  BY <1>3 DEF S

\* ChainPosition() is the last position.
LEMMA ChainIsWalk ==
  ASSUME NEW parents, NEW start, NEW n \in Nat, NEW g, WalkUpTo(parents, start, n, g)
  PROVE  ChainPosition(parents, start, n) = g[n]
<1> DEFINE Def(f) == f = [k \in 0..n |->
                            IF k = 0 THEN start
                            ELSE IF f[k - 1] \in DOMAIN parents THEN parents[f[k - 1]] ELSE f[k - 1]]
           at == CHOOSE f : Def(f)
<1>1. Def(g)
  <2>1. \A k \in 0..n : g[k] = IF k = 0 THEN start
                               ELSE IF g[k - 1] \in DOMAIN parents THEN parents[g[k - 1]] ELSE g[k - 1]
    BY DEF WalkUpTo, Parent
  <2> QED
    BY <2>1 DEF WalkUpTo
<1>2. Def(at)
  BY <1>1
<1>3. WalkUpTo(parents, start, n, at)
  <2> HIDE DEF at
  <2> QED
    BY <1>2 DEF WalkUpTo, Parent
<1>4. at[n] = g[n]
  <2> HIDE DEF at
  <2> QED
    BY <1>3, WalkUnique
<1>5. ChainPosition(parents, start, n) = at[n]
  BY DEF ChainPosition
<1> QED
  BY <1>4, <1>5

\* The walk starts at the start and goes to the parent in every step.
LEMMA ChainSteps ==
  ASSUME NEW parents, NEW start
  PROVE  /\ ChainPosition(parents, start, 0) = start
         /\ \A n \in Nat : ChainPosition(parents, start, n + 1)
                             = Parent(parents, ChainPosition(parents, start, n))
<1>1. ChainPosition(parents, start, 0) = start
  <2>1. PICK g : WalkUpTo(parents, start, 0, g)
    BY WalkExists
  <2>2. ChainPosition(parents, start, 0) = g[0]
    BY <2>1, ChainIsWalk
  <2> QED
    BY <2>1, <2>2 DEF WalkUpTo
<1>2. ASSUME NEW n \in Nat
      PROVE  ChainPosition(parents, start, n + 1)
               = Parent(parents, ChainPosition(parents, start, n))
  <2>1. PICK g : WalkUpTo(parents, start, n, g)
    BY WalkExists
  <2>2. PICK h : WalkUpTo(parents, start, n + 1, h)
    BY WalkExists
  <2>3. g[n] = h[n]
    BY <2>1, <2>2, WalkUnique
  <2>4. h[n + 1] = Parent(parents, h[(n + 1) - 1]) /\ (n + 1) - 1 = n
    BY <2>2 DEF WalkUpTo
  <2>5. ChainPosition(parents, start, n) = g[n] /\ ChainPosition(parents, start, n + 1) = h[n + 1]
    BY <2>1, <2>2, ChainIsWalk
  <2> QED
    BY <2>3, <2>4, <2>5
<1> QED
  BY <1>1, <1>2

\* Two walks that meet go on together.
LEMMA ChainRepeats ==
  ASSUME NEW parents, NEW start, NEW i \in Nat, NEW j \in Nat,
         ChainPosition(parents, start, i) = ChainPosition(parents, start, j)
  PROVE  \A m \in Nat : ChainPosition(parents, start, i + m) = ChainPosition(parents, start, j + m)
<1> DEFINE pos(k) == ChainPosition(parents, start, k)
           S == {m \in Nat : pos(i + m) = pos(j + m)}
<1>0. \A n \in Nat : pos(n + 1) = Parent(parents, pos(n))
  BY ChainSteps
<1> HIDE DEF pos
<1>1. 0 \in S
  BY DEF pos
<1>2. ASSUME NEW m \in Nat, m \in S PROVE m + 1 \in S
  <2>1. pos(i + m) = pos(j + m) /\ i + m \in Nat /\ j + m \in Nat
    BY <1>2
  <2>2. pos((i + m) + 1) = Parent(parents, pos(i + m)) /\ pos((j + m) + 1) = Parent(parents, pos(j + m))
    BY <1>0, <2>1
  <2>3. (i + m) + 1 = i + (m + 1) /\ (j + m) + 1 = j + (m + 1)
    OBVIOUS
  <2> QED
    BY <2>1, <2>2, <2>3
<1> HIDE DEF S
<1>3. \A m \in Nat : m \in S
  BY <1>1, <1>2, NatSetInduction
<1> QED
  BY <1>3 DEF S, pos

\* One step past the bound of the loop leads to an element visited before: the
\* walk has stopped at a root, or it has met more elements with a parent than
\* there are, and is in a cycle.
LEMMA BoundIsEnough ==
  ASSUME NEW parents, IsFiniteSet(DOMAIN parents), NEW start
  PROVE  \E k \in 0..Cardinality(DOMAIN parents) :
            ChainPosition(parents, start, Cardinality(DOMAIN parents) + 1)
              = ChainPosition(parents, start, k)
<1> DEFINE pos(k) == ChainPosition(parents, start, k)
           N == Cardinality(DOMAIN parents)
<1> HIDE DEF pos, N
<1>1. N \in Nat
  BY FS_CardinalityType DEF N
<1>2. \E i, j \in 0..(N + 1) : i < j /\ pos(i) = pos(j)
  <2>1. CASE \E i \in 0..N : pos(i) \notin DOMAIN parents
    <3>1. PICK i \in 0..N : pos(i) \notin DOMAIN parents
      BY <2>1
    <3>2. i \in Nat /\ i \in 0..(N + 1) /\ i + 1 \in 0..(N + 1) /\ i < i + 1
      BY <1>1
    <3>3. pos(i + 1) = pos(i)
      BY <3>1, <3>2, ChainSteps DEF pos, Parent
    <3> QED
      BY <3>2, <3>3
  <2>2. CASE \A i \in 0..N : pos(i) \in DOMAIN parents
    <3> DEFINE f == [i \in 0..N |-> pos(i)]
    <3>1. f \in [0..N -> DOMAIN parents]
      BY <2>2
    <3>2. IsFiniteSet(0..N) /\ Cardinality(0..N) = N + 1
      BY <1>1, FS_Interval
    <3>3. Cardinality(DOMAIN parents) < Cardinality(0..N)
      BY <1>1, <3>2 DEF N
    <3>4. PICK x, y \in 0..N : x # y /\ f[x] = f[y]
      <4> HIDE DEF f
      <4> QED
        BY <3>1, <3>2, <3>3, FS_PigeonHole
    <3>5. pos(x) = pos(y) /\ x \in 0..(N + 1) /\ y \in 0..(N + 1) /\ (x < y \/ y < x)
      BY <3>4, <1>1
    <3> QED
      BY <3>5
  <2> QED
    BY <2>1, <2>2
<1>3. PICK i \in 0..(N + 1), j \in 0..(N + 1) : i < j /\ pos(i) = pos(j)
  BY <1>2
<1>4. PICK m \in Nat : m = (N + 1) - j
  BY <1>1
<1>5. i \in Nat /\ j \in Nat /\ j + m = N + 1 /\ i + m \in 0..N
  BY <1>1, <1>3, <1>4
<1>6. pos(i + m) = pos(j + m)
  BY <1>3, <1>5, ChainRepeats DEF pos
<1> QED
  BY <1>5, <1>6 DEF pos, N

\* any_in_chain() answers what it is meant to answer, for every parent map with
\* finitely many entries: a hit among the visited elements is a hit in every
\* parent-closed set around the start, and the visited elements are such a set.
THEOREM ChainMeetsAncestors ==
  ASSUME NEW parents, IsFiniteSet(DOMAIN parents), NEW start, NEW Hits
  PROVE  AnyInChain(parents, start, Hits) <=> MeetsAncestors(parents, start, Hits)
<1> DEFINE pos(k) == ChainPosition(parents, start, k)
           N == Cardinality(DOMAIN parents)
           U == {start} \cup DOMAIN parents \cup {parents[e] : e \in DOMAIN parents}
           Around(S) == start \in S /\ \A e \in S \cap DOMAIN parents : parents[e] \in S
           V == {pos(k) : k \in 0..N}
<1> HIDE DEF pos, N, U, Around
<1>1. N \in Nat
  BY FS_CardinalityType DEF N
<1>2. ASSUME NEW S, Around(S) PROVE \A k \in Nat : pos(k) \in S
  <2> DEFINE T == {k \in Nat : pos(k) \in S}
  <2>1. 0 \in T
    BY <1>2, ChainSteps DEF pos, Around
  <2>2. ASSUME NEW k \in Nat, k \in T PROVE k + 1 \in T
    <3>1. pos(k) \in S /\ pos(k + 1) = Parent(parents, pos(k))
      BY <2>2, ChainSteps DEF pos
    <3>2. pos(k + 1) \in S
      BY <1>2, <3>1 DEF Parent, Around
    <3> QED
      BY <3>2
  <2> HIDE DEF T
  <2>3. \A k \in Nat : k \in T
    BY <2>1, <2>2, NatSetInduction
  <2> QED
    BY <2>3 DEF T
<1>3. Around(U)
  BY DEF Around, U
<1>4. V \in SUBSET U
  BY <1>1, <1>2, <1>3
<1>5. Around(V)
  <2>1. start \in V
    <3>1. pos(0) = start
      BY ChainSteps DEF pos
    <3>2. 0 \in 0..N
      BY <1>1
    <3> QED
      BY <3>1, <3>2
  <2>2. ASSUME NEW e \in V, e \in DOMAIN parents PROVE parents[e] \in V
    <3>1. PICK k \in 0..N : e = pos(k)
      OBVIOUS
    <3>2. k \in Nat /\ pos(k + 1) = parents[e]
      BY <1>1, <2>2, <3>1, ChainSteps DEF pos, Parent
    <3>3. CASE k < N
      <4>1. k + 1 \in 0..N
        BY <1>1, <3>1, <3>3
      <4> QED
        BY <3>2, <4>1
    <3>4. CASE k = N
      <4>1. PICK m \in 0..N : pos(N + 1) = pos(m)
        BY BoundIsEnough DEF pos, N
      <4> QED
        BY <3>2, <3>4, <4>1
    <3> QED
      BY <1>1, <3>1, <3>3, <3>4
  <2> HIDE DEF V
  <2> QED
    BY <2>1, <2>2 DEF Around
<1>6. ASSUME AnyInChain(parents, start, Hits) PROVE MeetsAncestors(parents, start, Hits)
  <2>1. PICK k \in 0..N : pos(k) \in Hits
    BY <1>6 DEF AnyInChain, pos, N
  <2>2. k \in Nat
    BY <1>1
  <2>3. \A S : Around(S) => S \cap Hits # {}
    BY <1>2, <2>1, <2>2
  <2> QED
    BY <2>3 DEF MeetsAncestors, Around
<1>7. ASSUME MeetsAncestors(parents, start, Hits) PROVE AnyInChain(parents, start, Hits)
  <2> HIDE DEF V
  <2>1. V \cap Hits # {}
    BY <1>4, <1>5, <1>7 DEF MeetsAncestors, Around, U
  <2> QED
    BY <2>1 DEF V, AnyInChain, pos, N
<1> QED
  BY <1>6, <1>7
=============================================================================
