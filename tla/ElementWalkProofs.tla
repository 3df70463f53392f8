------------------------- MODULE ElementWalkProofs --------------------------
(***************************************************************************)
(* Proof that the loop of any_in_chain() answers right on every parent map *)
(* of any finite set of elements, cycles included.                         *)
(***************************************************************************)
EXTENDS ElementWalk, ElementHierarchyProofs

\* The set MeetsAncestors quantifies over, and the parent-closed sets in it
\* that contain the start.
Universe == {start} \cup DOMAIN parents \cup {parents[e] : e \in DOMAIN parents}
Closed(S) == start \in S /\ \A e \in S \cap DOMAIN parents : parents[e] \in S

\* S is the set of elements the loop has been on and has left: none of them is
\* off, each has its parent among them or under the loop now, and as long as
\* the loop has met no element twice there are as many as it has counted.
Left(S) ==
  /\ S \subseteq DOMAIN parents
  /\ S \cap off = {}
  /\ start \in S \cup {elementNumber}
  /\ \A e \in S : parents[e] \in S \cup {elementNumber}
  /\ Cardinality(S) = visited \/ elementNumber \in S

IInv ==
  /\ TypeOK
  /\ elementNumber \in Universe
  /\ \A T \in SUBSET Universe : Closed(T) => elementNumber \in T
  /\ answer = "none" => \E S \in SUBSET Elements : Left(S)
  /\ AnswerIsRight

\* What the definition of a parent map says of one.
LEMMA ParentMapFact ==
  ASSUME NEW p \in ParentMaps
  PROVE  /\ DOMAIN p \subseteq Elements
         /\ IsFiniteSet(DOMAIN p)
         /\ Cardinality(DOMAIN p) \in Nat
         /\ \A e \in DOMAIN p : p[e] \in Elements
<1>1. PICK D \in SUBSET Elements : p \in [D -> Elements]
  BY DEF ParentMaps
<1>2. DOMAIN p = D /\ \A e \in DOMAIN p : p[e] \in Elements
  BY <1>1
<1>3. IsFiniteSet(DOMAIN p)
  BY <1>2, ElementsAssumption, FS_Subset
<1>4. Cardinality(DOMAIN p) \in Nat
  BY <1>3, FS_CardinalityType
<1>5. QED
  BY <1>2, <1>3, <1>4

\* A parent-closed set around the start that avoids the elements that are off
\* refutes MeetsAncestors.
LEMMA Refutes ==
  ASSUME NEW S \in SUBSET Universe, Closed(S), S \cap off = {}
  PROVE  ~MeetsAncestors(parents, start, off)
<1>1. S \in SUBSET ({start} \cup DOMAIN parents \cup {parents[e] : e \in DOMAIN parents})
  BY DEF Universe
<1>2. start \in S /\ \A e \in S \cap DOMAIN parents : parents[e] \in S
  BY DEF Closed
<1>3. QED
  BY <1>1, <1>2, Zenon DEF MeetsAncestors

\* The loop starts on the start, having left nothing.
LEMMA InitIInv == Init => IInv
<1> SUFFICES ASSUME Init PROVE IInv
  OBVIOUS
<1> USE DEF Init
<1>1. Cardinality(DOMAIN parents) \in Nat
  BY ParentMapFact
<1>2. TypeOK
  BY <1>1 DEF TypeOK
<1>3. elementNumber \in Universe /\ \A T \in SUBSET Universe : Closed(T) => elementNumber \in T
  BY DEF Universe, Closed
<1>4. Left({})
  BY FS_EmptySet DEF Left
<1>5. \E S \in SUBSET Elements : Left(S)
  BY <1>4
<1>6. QED
  BY <1>2, <1>3, <1>5 DEF IInv, AnswerIsRight

\* One pass of the loop.
LEMMA VisitIInv == IInv /\ Visit => IInv'
<1> SUFFICES ASSUME IInv, Visit PROVE IInv'
  OBVIOUS
<1>a. parents' = parents /\ start' = start /\ off' = off /\ answer = "none" /\ MayVisit
  BY DEF Visit
<1>b. Universe' = Universe /\ \A T : Closed(T)' <=> Closed(T)
  BY <1>a DEF Universe, Closed
<1>c. parents \in ParentMaps /\ elementNumber \in Elements /\ visited \in Nat
  <2>1. Cardinality(DOMAIN parents) \in Nat
    BY ParentMapFact DEF IInv, TypeOK
  <2>2. QED
    BY <2>1 DEF IInv, TypeOK
<1>d. /\ DOMAIN parents \subseteq Elements
      /\ IsFiniteSet(DOMAIN parents) /\ Cardinality(DOMAIN parents) \in Nat
      /\ \A e \in DOMAIN parents : parents[e] \in Elements
  BY <1>c, ParentMapFact
<1>e. PICK S \in SUBSET Elements : Left(S)
  BY <1>a DEF IInv
<1>1. CASE elementNumber \in off
  <2>1. answer' = "true" /\ elementNumber' = elementNumber /\ visited' = visited
    BY <1>1 DEF Visit
  <2>2. MeetsAncestors(parents, start, off)
    BY <1>1 DEF IInv, MeetsAncestors, Universe, Closed
  <2>3. MeetsAncestors(parents, start, off)'
    BY <2>2, <1>a DEF MeetsAncestors
  <2>4. QED
    BY <2>1, <2>3, <1>a, <1>b DEF IInv, TypeOK, AnswerIsRight
<1>2. CASE elementNumber \notin off /\ elementNumber \notin DOMAIN parents
  <2>1. answer' = "false" /\ elementNumber' = elementNumber /\ visited' = visited
    BY <1>2 DEF Visit
  <2> DEFINE T == S \cup {elementNumber}
  <2>2. T \in SUBSET Universe /\ T \cap off = {}
    BY <1>e, <1>2 DEF Left, IInv, Universe
  <2>3. Closed(T)
    BY <1>e, <1>2 DEF Left, Closed
  <2>4. ~MeetsAncestors(parents, start, off)
    BY <2>2, <2>3, Refutes
  <2>5. ~MeetsAncestors(parents, start, off)'
    BY <2>4, <1>a DEF MeetsAncestors
  <2>6. QED
    BY <2>1, <2>5, <1>a, <1>b DEF IInv, TypeOK, AnswerIsRight
<1>3. CASE elementNumber \notin off /\ elementNumber \in DOMAIN parents
  <2>1. answer' = "none" /\ elementNumber' = parents[elementNumber] /\ visited' = visited + 1
    BY <1>3, <1>a DEF Visit
  <2>2. TypeOK'
    <3>1. visited + 1 \in 0..(Cardinality(DOMAIN parents) + 1)
      BY <1>a, <1>c, <1>d DEF MayVisit
    <3>2. parents[elementNumber] \in Elements
      BY <1>3, <1>d
    <3>3. QED
      BY <3>1, <3>2, <2>1, <1>a DEF TypeOK, IInv
  <2>3. (elementNumber \in Universe)'
    BY <2>1, <1>b, <1>3 DEF Universe
  <2>4. (\A T \in SUBSET Universe : Closed(T) => elementNumber \in T)'
    <3>1. \A T \in SUBSET Universe : Closed(T) => parents[elementNumber] \in T
      BY <1>3 DEF IInv, Closed
    <3>2. QED
      BY <3>1, <2>1, <1>b
  <2>r. PICK R : R = S \cup {elementNumber}
    OBVIOUS
  <2>5. Left(R)'
    <3>1. /\ R \subseteq DOMAIN parents /\ R \cap off = {}
          /\ start \in R \cup {parents[elementNumber]}
          /\ \A e \in R : parents[e] \in R \cup {parents[elementNumber]}
      BY <1>e, <1>3, <2>r DEF Left
    <3>2. Cardinality(R) = visited + 1 \/ parents[elementNumber] \in R
      <4>1. CASE elementNumber \in S
        BY <4>1, <1>e, <2>r DEF Left
      <4>2. CASE elementNumber \notin S
        <5>1. IsFiniteSet(S) /\ Cardinality(S) = visited
          BY <4>2, <1>e, <1>d, FS_Subset DEF Left
        <5>2. Cardinality(R) = Cardinality(S) + 1
          BY <5>1, <4>2, <2>r, FS_AddElement
        <5>3. QED
          BY <5>1, <5>2
      <4>3. QED
        BY <4>1, <4>2
    <3>3. QED
      BY <3>1, <3>2, <2>1, <1>a DEF Left
  <2>6. (\E U \in SUBSET Elements : Left(U))'
    <3>1. R \in SUBSET Elements
      BY <1>c, <2>r
    <3>2. QED
      BY <3>1, <2>5
  <2>7. AnswerIsRight'
    BY <2>1 DEF AnswerIsRight
  <2>8. QED
    BY <2>2, <2>3, <2>4, <2>6, <2>7 DEF IInv
<1>4. QED
  BY <1>1, <1>2, <1>3

\* The return behind the loop: more passes than the map has entries, so the
\* loop stands on an element it has left before, and all it left is closed.
LEMMA GiveUpIInv == IInv /\ GiveUp => IInv'
<1> SUFFICES ASSUME IInv, GiveUp PROVE IInv'
  OBVIOUS
<1>a. /\ parents' = parents /\ start' = start /\ off' = off
      /\ elementNumber' = elementNumber /\ visited' = visited
      /\ answer = "none" /\ answer' = "false" /\ ~MayVisit
  BY DEF GiveUp
<1>b. Universe' = Universe /\ \A T : Closed(T)' <=> Closed(T)
  BY <1>a DEF Universe, Closed
<1>c. IsFiniteSet(DOMAIN parents) /\ Cardinality(DOMAIN parents) \in Nat
  BY ParentMapFact DEF IInv, TypeOK
<1>d. visited \in Nat /\ visited > Cardinality(DOMAIN parents)
  BY <1>a, <1>c DEF IInv, TypeOK, MayVisit
<1>e. PICK S \in SUBSET Elements : Left(S)
  BY <1>a DEF IInv
<1>1. elementNumber \in S
  <2>1. IsFiniteSet(S) /\ Cardinality(S) <= Cardinality(DOMAIN parents) /\ Cardinality(S) \in Nat
    BY <1>c, <1>e, FS_Subset, FS_CardinalityType DEF Left
  <2>2. Cardinality(S) # visited
    BY <2>1, <1>c, <1>d
  <2>3. QED
    BY <2>2, <1>e DEF Left
<1>2. S \in SUBSET Universe /\ S \cap off = {} /\ Closed(S)
  BY <1>1, <1>e DEF Left, Universe, Closed
<1>3. ~MeetsAncestors(parents, start, off)
  BY <1>2, Refutes
<1>4. ~MeetsAncestors(parents, start, off)'
  BY <1>3, <1>a DEF MeetsAncestors
<1>5. QED
  BY <1>4, <1>a, <1>b DEF IInv, TypeOK, AnswerIsRight

\* The invariant holds throughout.
LEMMA Invariance == Spec => []IInv
<1>1. IInv /\ [Next]_vars => IInv'
  <2> SUFFICES ASSUME IInv, [Next]_vars PROVE IInv'
    OBVIOUS
  <2>1. CASE Visit
    BY <2>1, VisitIInv
  <2>2. CASE GiveUp
    BY <2>2, GiveUpIInv
  <2>3. CASE UNCHANGED vars
    BY <2>3 DEF vars, IInv, TypeOK, AnswerIsRight, MeetsAncestors, Universe, Closed, Left
  <2>4. QED
    BY <2>1, <2>2, <2>3 DEF Next
<1>2. QED
  BY <1>1, InitIInv, PTL DEF Spec

\* any_in_chain() answers "true" exactly if the element or an ancestor of it is
\* off: on every parent map of every finite set of elements.
THEOREM WalkIsRight == Spec => []AnswerIsRight
<1>1. IInv => AnswerIsRight
  BY DEF IInv
<1>2. QED
  BY <1>1, Invariance, PTL

\* The operator AnyInChain, by which the server's model answers the call, gives
\* the answer of the loop: both are right.
THEOREM LoopIsOperator == Spec => []OperatorIsLoop
<1>1. IInv => OperatorIsLoop
  <2> SUFFICES ASSUME IInv PROVE OperatorIsLoop
    OBVIOUS
  <2>1. IsFiniteSet(DOMAIN parents)
    BY ParentMapFact DEF IInv, TypeOK
  <2>2. AnyInChain(parents, start, off) <=> MeetsAncestors(parents, start, off)
    BY <2>1, ChainMeetsAncestors
  <2> QED
    BY <2>2 DEF IInv, AnswerIsRight, OperatorIsLoop
<1>2. QED
  BY <1>1, Invariance, PTL
=============================================================================
