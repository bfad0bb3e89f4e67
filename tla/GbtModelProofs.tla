---------------------------- MODULE GbtModelProofs ----------------------------
(* The walk stays inside its tree, for every ensemble that scikit-learn fits. *)
EXTENDS GbtModel, TLAPS

Ind == fitted \in Ensembles /\ k \in Nat \ {0} /\ IndexInTree

\* The walk of Rust goes on at a node only if the exported node has the children
\* of the fitted one.
LEMMA Children ==
  ASSUME Ind, Descend
  PROVE idx' \in DOMAIN fitted[k]
<1>1. k \in 1..Len(fitted) /\ idx \in DOMAIN fitted[k]
  BY EnsemblesAssumption DEF Ind, Descend, IndexInTree
<1>2. WellFormed(fitted[k]) BY <1>1, EnsemblesAssumption DEF Ind
<1>3. node = ToNode(fitted[k][idx]) BY <1>1 DEF node, nodes
<1>4. fitted[k][idx].feature # -2 BY <1>3 DEF Descend, ToNode
<1>5. node.left = fitted[k][idx].left /\ node.right = fitted[k][idx].right
  BY <1>3, <1>4 DEF ToNode
<1> QED BY <1>1, <1>2, <1>4, <1>5 DEF Descend, WellFormed

LEMMA NextInd == Ind /\ [Next]_vars => Ind'
<1> SUFFICES ASSUME Ind, [Next]_vars PROVE Ind' OBVIOUS
<1>1. CASE Descend
  BY <1>1, Children DEF Descend, Ind, IndexInTree, input
<1>2. CASE AtLeaf
  <2>1. fitted' = fitted /\ k' = k + 1 /\ idx' = 0 BY <1>2 DEF AtLeaf, input
  <2>2. k' <= Len(fitted) => WellFormed(fitted[k'])
    BY <2>1, EnsemblesAssumption DEF Ind
  <2> QED BY <2>1, <2>2 DEF Ind, IndexInTree, WellFormed
<1>3. CASE Return
  BY <1>3 DEF Return, Ind, IndexInTree, input
<1>4. CASE UNCHANGED vars
  BY <1>4 DEF vars, input, Ind, IndexInTree
<1> QED BY <1>1, <1>2, <1>3, <1>4 DEF Next, Terminating

LEMMA InitInd == Init => Ind
<1> SUFFICES ASSUME Init PROVE Ind OBVIOUS
<1>1. 1 <= Len(fitted) => WellFormed(fitted[1]) BY EnsemblesAssumption DEF Init
<1> QED BY <1>1 DEF Init, Ind, IndexInTree, WellFormed

\* predict_proba indexes no tree out of bounds, whatever ensemble was exported
\* and whatever features the plan has.
THEOREM WalkInBounds == Spec => []IndexInTree
<1>1. Ind => IndexInTree BY DEF Ind
<1> QED BY InitInd, NextInd, <1>1, PTL DEF Spec
===============================================================================
