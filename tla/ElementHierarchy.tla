-------------------------- MODULE ElementHierarchy --------------------------
(***************************************************************************)
(* include/element_hierarchy.hpp: the parent map of the device elements of *)
(* a DDOP and the walk up that map.  An element object is a record         *)
(* [id, number, parent, children]: its object id, its element number, the  *)
(* object id of its parent and the ids of the process data it lists.  A    *)
(* parent map is a partial function from element number to element number. *)
(***************************************************************************)
EXTENDS Integers, Sequences, FiniteSets, FiniteSetsExt

\* The positions of the device element objects with this object id.
ElementsById(elements, id) == {j \in DOMAIN elements : elements[j].id = id}

\* The position of the parent of element object i (get_object_by_id).
ParentPosition(elements, i) == Min(ElementsById(elements, elements[i].parent))

\* The positions of the elements that contribute an entry to the parent map:
\* the parent is a device element and carries another element number.
LinkedElements(elements) ==
  {i \in DOMAIN elements :
     /\ ElementsById(elements, elements[i].parent) # {}
     /\ elements[ParentPosition(elements, i)].number # elements[i].number}

\* build_parent_map(): the pool is scanned in order, so of several elements
\* with one number the last linked one leaves its parent in the map.
BuildParentMap(elements) ==
  [e \in {elements[i].number : i \in LinkedElements(elements)} |->
     LET i == Max({k \in LinkedElements(elements) : elements[k].number = e})
     IN  elements[ParentPosition(elements, i)].number]

\* The element the walk of any_in_chain() stands on after k steps up; at an
\* element without a parent the walk has ended and the position stays.
ChainPosition(parents, start, steps) ==
  LET at[k \in 0..steps] ==
        IF k = 0 THEN start
        ELSE IF at[k - 1] \in DOMAIN parents THEN parents[at[k - 1]] ELSE at[k - 1]
  IN  at[steps]

\* Slip: one element less is visited.
AnyInShortChain(parents, start, Hits) ==
  \E k \in 0..(Cardinality(DOMAIN parents) - 1) : ChainPosition(parents, start, k) \in Hits

\* any_in_chain(): visits at most parents.size() + 1 elements and answers
\* whether one of them satisfies the predicate, here membership of `Hits'.
AnyInChain(parents, start, Hits) ==
  \E k \in 0..Cardinality(DOMAIN parents) : ChainPosition(parents, start, k) \in Hits

\* What the walk is meant to answer, stated without a walk: `Hits' meets every
\* set of elements that contains `start' and is closed under the parent map.
MeetsAncestors(parents, start, Hits) ==
  \A S \in SUBSET ({start} \cup DOMAIN parents \cup {parents[e] : e \in DOMAIN parents}) :
     (start \in S /\ \A e \in S \cap DOMAIN parents : parents[e] \in S) => S \cap Hits # {}
=============================================================================
