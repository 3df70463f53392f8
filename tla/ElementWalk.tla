---------------------------- MODULE ElementWalk -----------------------------
(***************************************************************************)
(* The loop of any_in_chain() in include/element_hierarchy.hpp as it runs, *)
(* on every parent map build_parent_map() can return for the elements of a *)
(* pool, those with cycles included.  MyTCServer uses the operator         *)
(* AnyInChain of ElementHierarchy for the same call.                       *)
(***************************************************************************)
EXTENDS ElementHierarchy

CONSTANT Elements   \* element numbers of the pool

ASSUME ElementsAssumption == Elements \subseteq Nat /\ IsFiniteSet(Elements)

VARIABLES
  parents,        \* the parent map
  start,          \* the element the call was made for
  off,            \* the elements the predicate holds for
  elementNumber,  \* the element the loop stands on
  visited,        \* the loop's counter
  answer          \* "none" while the loop runs, then the returned value

vars == <<parents, start, off, elementNumber, visited, answer>>

\* build_parent_map() never makes an element its own parent.
ParentMaps ==
  {p \in UNION {[D -> Elements] : D \in SUBSET Elements} : \A e \in DOMAIN p : p[e] # e}

Init ==
  /\ parents \in ParentMaps
  /\ start \in Elements
  /\ off \in SUBSET Elements
  /\ elementNumber = start
  /\ visited = 0
  /\ answer = "none"

\* Slip: the last element of the longest chain is not visited.
VisitsFewer == visited < Cardinality(DOMAIN parents)

MayVisit == visited <= Cardinality(DOMAIN parents)

\* Slip: the counter is not counted up.
VisitUncounted ==
  /\ answer = "none" /\ MayVisit
  /\ \/ elementNumber \in off /\ answer' = "true" /\ UNCHANGED elementNumber
     \/ /\ elementNumber \notin off /\ elementNumber \notin DOMAIN parents
        /\ answer' = "false" /\ UNCHANGED elementNumber
     \/ /\ elementNumber \notin off /\ elementNumber \in DOMAIN parents
        /\ elementNumber' = parents[elementNumber] /\ UNCHANGED answer
  /\ UNCHANGED <<parents, start, off, visited>>

\* Slip: the parent is looked at before the element.
VisitParentFirst ==
  /\ answer = "none" /\ MayVisit
  /\ \/ /\ elementNumber \notin DOMAIN parents
        /\ answer' = "false" /\ UNCHANGED <<elementNumber, visited>>
     \/ /\ elementNumber \in DOMAIN parents
        /\ elementNumber' = parents[elementNumber]
        /\ visited' = visited + 1
        /\ answer' = IF parents[elementNumber] \in off THEN "true" ELSE "none"
  /\ UNCHANGED <<parents, start, off>>

\* One pass of the loop.
Visit ==
  /\ answer = "none" /\ MayVisit
  /\ \/ /\ elementNumber \in off
        /\ answer' = "true" /\ UNCHANGED <<elementNumber, visited>>
     \/ /\ elementNumber \notin off /\ elementNumber \notin DOMAIN parents
        /\ answer' = "false" /\ UNCHANGED <<elementNumber, visited>>
     \/ /\ elementNumber \notin off /\ elementNumber \in DOMAIN parents
        /\ elementNumber' = parents[elementNumber]
        /\ visited' = visited + 1
        /\ UNCHANGED answer
  /\ UNCHANGED <<parents, start, off>>

\* The return behind the loop.
GiveUp ==
  /\ answer = "none" /\ ~MayVisit
  /\ answer' = "false"
  /\ UNCHANGED <<parents, start, off, elementNumber, visited>>

Next == Visit \/ GiveUp
Spec == Init /\ [][Next]_vars /\ WF_vars(Next)

---------------------------------------------------------------------------

\* The type invariant; the counter passes the size of the map by one at most.
TypeOK ==
  /\ parents \in ParentMaps
  /\ start \in Elements /\ elementNumber \in Elements /\ off \subseteq Elements
  /\ visited \in 0..(Cardinality(DOMAIN parents) + 1)
  /\ answer \in {"none", "true", "false"}

\* The walk answers right on every map, trees and cycles alike: "true" exactly
\* if some element in every parent-closed set around the start is off.  The
\* bound on the visits is as small as it can be without missing an ancestor.
AnswerIsRight ==
  answer # "none" => (answer = "true" <=> MeetsAncestors(parents, start, off))

\* The operator the server's model uses for any_in_chain() is the loop.
OperatorIsLoop ==
  answer # "none" => (answer = "true" <=> AnyInChain(parents, start, off))

\* A malformed pool with a parent cycle cannot make the loop run for ever.
WalkEnds == <>(answer # "none")
=============================================================================
