------------------------------- MODULE GbtModel -------------------------------
(****************************************************************************)
(* The boosted trees between training and planning: _tree_to_nodes exports  *)
(* the fitted trees, predict_proba walks the exported ones.  Numbers are    *)
(* integers (the walk only compares, the score only adds); the sigmoid is   *)
(* monotone and left out.  A fitted tree is a function from node numbers,   *)
(* from 0, to scikit-learn's node arrays: leaves have feature -2, and every *)
(* node, inner ones too, has a value.                                       *)
(****************************************************************************)
EXTENDS Integers, Sequences

CONSTANTS Ensembles, Vectors, InitScore, LearningRate

\* What scikit-learn guarantees of a fitted tree: a node is stored before its
\* children.
WellFormed(tree) ==
  /\ 0 \in DOMAIN tree
  /\ \A i \in DOMAIN tree :
       /\ i \in Nat
       /\ tree[i].value \in Int
       /\ tree[i].feature = -2 \/
            /\ tree[i].feature \in Nat
            /\ tree[i].left \in DOMAIN tree /\ tree[i].left > i
            /\ tree[i].right \in DOMAIN tree /\ tree[i].right > i

ASSUME EnsemblesAssumption ==
  /\ \A e \in Ensembles : Len(e) \in Nat /\ \A k \in 1..Len(e) : WellFormed(e[k])
  /\ InitScore \in Int /\ LearningRate \in Int

VARIABLES fitted, features,  \* the trees as fitted, the input
          pc, k, idx, score  \* the loops of predict_proba and walk_tree

input == <<fitted, features>>
vars == <<input, pc, k, idx, score>>

\* Option<f64>.
None == {}
Some(v) == {v}
UnwrapOrZero(o) == IF o = None THEN 0 ELSE CHOOSE v \in o : TRUE

\* _tree_to_nodes for one node (mutant: scikit-learn's own mark of a leaf).
ToNodeRaw(n) == [n EXCEPT !.threshold = Some(@), !.value = Some(@)]
ToNode(n) ==
  IF n.feature = -2
    THEN [feature |-> -1, threshold |-> None, left |-> -1, right |-> -1, value |-> Some(n.value)]
    ELSE [feature |-> n.feature, threshold |-> Some(n.threshold),
          left |-> n.left, right |-> n.right, value |-> None]

nodes == [i \in DOMAIN fitted[k] |-> ToNode(fitted[k][i])]
node == nodes[idx]

FeatureValue(f) == IF f \in DOMAIN features THEN features[f] ELSE 0

Init ==
  /\ fitted \in Ensembles /\ features \in Vectors
  /\ pc = "walk" /\ k = 1 /\ idx = 0 /\ score = InitScore

\* feat_val <= threshold (mutant: <).
GoesLeftStrict(n) == FeatureValue(n.feature) < UnwrapOrZero(n.threshold)
GoesLeft(n) == FeatureValue(n.feature) <= UnwrapOrZero(n.threshold)

\* The loop of walk_tree goes down (mutant: it waits at a value that is equal to
\* the threshold).
DescendUnlessEqual ==
  /\ pc = "walk" /\ k <= Len(fitted)
  /\ node.feature # -1
  /\ idx' = IF GoesLeftStrict(node) THEN node.left
            ELSE IF GoesLeft(node) THEN idx ELSE node.right
  /\ UNCHANGED <<input, pc, k, score>>
Descend ==
  /\ pc = "walk" /\ k <= Len(fitted)
  /\ node.feature # -1
  /\ idx' = IF GoesLeft(node) THEN node.left ELSE node.right
  /\ UNCHANGED <<input, pc, k, score>>

AtLeaf ==
  /\ pc = "walk" /\ k <= Len(fitted)
  /\ node.feature = -1
  /\ score' = score + LearningRate * UnwrapOrZero(node.value)
  /\ k' = k + 1 /\ idx' = 0
  /\ UNCHANGED <<input, pc>>

Return ==
  /\ pc = "walk" /\ k > Len(fitted)
  /\ pc' = "done"
  /\ UNCHANGED <<input, k, idx, score>>

Terminating == pc = "done" /\ UNCHANGED vars

Next == Descend \/ AtLeaf \/ Return \/ Terminating

Spec == Init /\ [][Next]_vars
FairSpec == Spec /\ WF_vars(Next)   \* a loop of one thread goes on
-------------------------------------------------------------------------------
\* nodes[idx] in walk_tree is in bounds, so planning a query does not panic: the
\* cast of a child to usize never meets a leaf's -1.
IndexInTree == pc = "walk" /\ k <= Len(fitted) => idx \in DOMAIN fitted[k]

\* predict_proba leaves its loops: the walk meets no cycle.
Returns == <>(pc = "done")
===============================================================================
