------------------------------ MODULE MCGbtModel ------------------------------
(* Up to two trees of at most two levels of tests over two features, and the *)
(* leaf that scikit-learn's decision rule reaches, from the fitted trees.    *)
EXTENDS GbtModel, SequencesExt, FiniteSetsExt

SkLeaf(v) == [feature |-> -2, threshold |-> -2, left |-> -1, right |-> -1, value |-> v]
SkTest(f, t, l, r) == [feature |-> f, threshold |-> t, left |-> l, right |-> r, value |-> 7]

Tree(ns) == [i \in 0..(Len(ns) - 1) |-> ns[i + 1]]

Trees ==
  {Tree(<<SkLeaf(5)>>)}
  \cup {Tree(<<SkTest(f, t, 1, 2), SkLeaf(1), SkLeaf(-2)>>) : f \in 0..1, t \in 0..1}
  \cup {Tree(<<SkTest(f, t, 1, 4), SkTest(1 - f, 1, 2, 3), SkLeaf(1), SkLeaf(-2), SkLeaf(3)>>)
          : f \in 0..1, t \in 0..1}
  \cup {Tree(<<SkTest(f, 1, 1, 2), SkLeaf(1), SkTest(1 - f, t, 3, 4), SkLeaf(-2), SkLeaf(3)>>)
          : f \in 0..1, t \in 0..1}

MCEnsembles == BoundedSeq(Trees, 2)
MCVectors == [0..1 -> 0..2]

\* scikit-learn: from node i, the value of the leaf for x.
Decide(tree, x) ==
  LET at[i \in DOMAIN tree] ==
        IF tree[i].feature = -2 THEN tree[i].value
        ELSE at[IF x[tree[i].feature] <= tree[i].threshold THEN tree[i].left ELSE tree[i].right]
  IN at[0]

\* The Rust planner scores a candidate as the classifier that was trained does:
\* init_score plus the scaled leaf of every tree.
ScoreIsClassifiers ==
  pc = "done" =>
    score = InitScore + MapThenSumSet(
      LAMBDA n : LearningRate * Decide(fitted[n], features), DOMAIN fitted)
===============================================================================
