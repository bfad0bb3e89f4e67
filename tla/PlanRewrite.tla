----------------------------- MODULE PlanRewrite -----------------------------
(****************************************************************************)
(* MultiHopBloomFilterRule::optimize: which joins of a plan get a Bloom     *)
(* filter, and on which columns.  A plan is the sequence of its hash joins  *)
(* in the order in which collecting and inserting reach them: left subtree, *)
(* right subtree, join.  Wrapping a child changes no schema, so both passes *)
(* see the same schemas.  w_cap = 0 stands for a budget of 0 bytes.         *)
(*                                                                          *)
(* A join is a record: inner, the schemas left and right (sequences of      *)
(* field names), kb (the scaled filter size) and on, a sequence of pairs    *)
(* of key expressions.  An expression is a record: contained, the field     *)
(* names that occur in its printed form, and col, the index of the column   *)
(* it denotes (0 if it is computed).                                        *)
(****************************************************************************)
EXTENDS Naturals, SequencesExt, FiniteSetsExt

CONSTANTS Plans, Capacities

VARIABLES
  plan, policy, modelLoaded, w_cap,  \* the input
  pc, pos,     \* where the rewrite is
  candidates,  \* Vec<MlCandidate>, with the place of the key for the properties
  picked,      \* the indices that knapsack_select returned
  filters      \* the inserted filters: place, build and probe column

input == <<plan, policy, modelLoaded, w_cap>>
vars == <<input, pc, pos, candidates, picked, filters>>

\* The keys of the inner joins, in the order of the traversal.
KeysOf(p) == FlattenSeq([j \in DOMAIN p |->
  IF p[j].inner THEN [k \in DOMAIN p[j].on |-> <<j, k>>] ELSE <<>>])
Keys == KeysOf(plan)

\* schema.fields().iter().find(|f| text.contains(f.name())) and then
\* position(|f| f.name() == name): the first field whose name occurs in the
\* printed expression, or 0.
Resolve(e, schema) ==
  LET found == {n \in DOMAIN schema : schema[n] \in e.contained}
  IN IF found = {} THEN 0 ELSE Min(found)

BuildCol(at) == Resolve(plan[at[1]].on[at[2]].l, plan[at[1]].left)
ProbeCol(at) == Resolve(plan[at[1]].on[at[2]].r, plan[at[1]].right)
Resolvable(at) == BuildCol(at) # 0 /\ ProbeCol(at) # 0

\* The pair of names by which a selected candidate is looked up again.
Pair(at) == <<plan[at[1]].left[BuildCol(at)], plan[at[1]].right[ProbeCol(at)]>>

Filter(at) == [at |-> at, build |-> BuildCol(at), probe |-> ProbeCol(at)]

Init ==
  /\ plan \in Plans
  /\ policy \in {"always_build", "ml_guided"}
  /\ modelLoaded \in BOOLEAN
  /\ w_cap \in Capacities
  /\ pc = "optimize" /\ pos = 1
  /\ candidates = <<>> /\ picked = {} /\ filters = {}

UseModel ==
  /\ pc = "optimize"
  /\ policy = "ml_guided" /\ modelLoaded
  /\ pc' = "collect"
  /\ UNCHANGED <<input, pos, candidates, picked, filters>>

\* always_build, also the fallback when load_model_once returns None (mutant:
\* no fallback, the plan is returned as it is).
AlwaysBuildOnly ==
  /\ pc = "optimize"
  /\ ~(policy = "ml_guided" /\ modelLoaded)
  /\ pc' = IF policy = "ml_guided" \/ Keys = <<>> THEN "done" ELSE "insert_all"
  /\ UNCHANGED <<input, pos, candidates, picked, filters>>
AlwaysBuild ==
  /\ pc = "optimize"
  /\ ~(policy = "ml_guided" /\ modelLoaded)
  /\ pc' = IF Keys = <<>> THEN "done" ELSE "insert_all"
  /\ UNCHANGED <<input, pos, candidates, picked, filters>>

\* One key of insert_bloom_filters.
InsertKey ==
  /\ pc = "insert_all" /\ pos <= Len(Keys)
  /\ filters' = filters \cup {Filter(at) : at \in {x \in {Keys[pos]} : Resolvable(x)}}
  /\ pos' = pos + 1
  /\ UNCHANGED <<input, pc, candidates, picked>>

\* One key of collect_ml_candidates.
CollectKey ==
  /\ pc = "collect" /\ pos <= Len(Keys)
  /\ candidates' = IF Resolvable(Keys[pos]) THEN Append(candidates, Keys[pos])
                                            ELSE candidates
  /\ pos' = pos + 1
  /\ UNCHANGED <<input, pc, picked, filters>>

\* What knapsack_select may return: Knapsack shows that it fits the capacity.
Selections ==
  {S \in SUBSET DOMAIN candidates :
     MapThenSumSet(LAMBDA c : plan[candidates[c][1]].kb, S) <= w_cap}

\* insert_bloom_filters_ml between its two passes.
Select ==
  /\ pc = "collect" /\ pos > Len(Keys)
  /\ picked' \in Selections
  /\ pc' = IF picked' = {} THEN "done" ELSE "insert_selected"
  /\ pos' = 1
  /\ UNCHANGED <<input, candidates, filters>>

\* selected.contains(&(build_col, probe_col)) (mutants: the pair is swapped; the
\* build column alone is looked up).
IsSelectedSwapped(at) == \E c \in picked : Pair(candidates[c]) = Reverse(Pair(at))
IsSelectedByBuild(at) == \E c \in picked : Pair(candidates[c])[1] = Pair(at)[1]
IsSelected(at) == \E c \in picked : Pair(candidates[c]) = Pair(at)

\* One key of insert_bloom_filters_selected.
InsertSelectedKey ==
  LET at == Keys[pos]
  IN /\ pc = "insert_selected" /\ pos <= Len(Keys)
     /\ filters' = IF Resolvable(at) /\ IsSelected(at)
                     THEN filters \cup {Filter(at)} ELSE filters
     /\ pos' = pos + 1
     /\ UNCHANGED <<input, pc, candidates, picked>>

Finish ==
  /\ pc \in {"insert_all", "insert_selected"} /\ pos > Len(Keys)
  /\ pc' = "done"
  /\ UNCHANGED <<input, pos, candidates, picked, filters>>

Terminating == pc = "done" /\ UNCHANGED vars

Next == \/ UseModel \/ AlwaysBuild \/ InsertKey \/ CollectKey \/ Select
        \/ InsertSelectedKey \/ Finish \/ Terminating

Spec == Init /\ [][Next]_vars
------------------------------------------------------------------------------
Guided == policy = "ml_guided" /\ modelLoaded

\* Every candidate that knapsack_select picked has its filter in the plan: the
\* second pass resolves the same columns as the first.
SelectedInserted ==
  pc = "done" => \A c \in picked : Filter(candidates[c]) \in filters

\* Without a model, or with BF_POLICY unset, every key that resolves gets a
\* filter: ml_guided falls back to always_build.
FallbackComplete ==
  pc = "done" /\ ~Guided =>
    {f.at : f \in filters} = {at \in ToSet(Keys) : Resolvable(at)}

OnlySelectedHere == {f.at : f \in filters} \subseteq {candidates[c] : c \in picked}

\* A filter whose columns are the two sides of its join key removes no row the
\* join needs.
OnItsKey(f) ==
  LET key == plan[f.at[1]].on[f.at[2]] IN f.build = key.l.col /\ f.probe = key.r.col

\* Where no two candidates have the same pair of column names, only selected
\* candidates get a filter.
DistinctPairsExact ==
  (pc = "done" /\ Guided /\ IsInjective([c \in DOMAIN candidates |-> Pair(candidates[c])]))
    => OnlySelectedHere

\* Every filter is on the columns of a join key, as results that match those of
\* the plan without filters require: not so when a field's name occurs in the
\* printed form of another column or of a computed key.
FiltersOnKeys == pc = "done" => \A f \in filters : OnItsKey(f)
==============================================================================
