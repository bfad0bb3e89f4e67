---------------------------- MODULE BudgetPolicies ----------------------------
(***************************************************************************)
(* Both selection policies on the same candidates, one after the other, as *)
(* the tests of ml/knapsack.py run them: the exact one (Knapsack) and then *)
(* the greedy one (GreedySelect).  Each is compared with what it promises, *)
(* and they are compared with each other.                                  *)
(***************************************************************************)
EXTENDS Knapsack, FiniteSetsExt

VARIABLES todo, remaining, taken, greedyPc

greedyVars == <<todo, remaining, taken, greedyPc>>
Greedy == INSTANCE GreedySelect WITH
  weight <- weight_bytes, value <- pred_prob, selected <- taken, pc <- greedyPc

\* Both calls get the same arguments.
BothInit == Init /\ Greedy!Init

\* select_filters_exact runs to its end, then select_filters_greedy.
BothNext ==
  \/ Next /\ UNCHANGED greedyVars
  \/ pc = "done" /\ Greedy!Next /\ UNCHANGED vars

BothSpec == BothInit /\ [][BothNext]_<<vars, greedyVars>>
-------------------------------------------------------------------------------
Value(j) == pred_prob[j]
TotalKb(S) == MapThenSumSet(Ws, S)
TotalValue(S) == MapThenSumSet(Value, S)

\* The exact selection is a best one among all subsets that fit, as the names
\* "0/1 knapsack" and select_filters_exact promise.
MatchesReference ==
  (pc = "done" /\ budget_bytes # 0) =>
    /\ TotalKb(selected) <= WCap
    /\ \A C \in SUBSET Items :
         TotalKb(C) <= WCap => TotalValue(C) <= TotalValue(selected)

\* select_filters_greedy fits the budget to the byte, unlike the KB-scaled
\* select_filters_exact.
GreedyWithinBudget == Greedy!GreedyWithinBudget

\* select_filters_greedy leaves out only what did not fit beside candidates that
\* are worth at least as much per byte.
LosesToBetter == Greedy!LosesToBetter

\* "Exact beats greedy": where no filter is smaller than the KB it is counted
\* as, rounding to KB never makes select_filters_exact choose worse than
\* select_filters_greedy, which counts bytes.  (Four filters of 500 bytes under a
\* budget of 2048 all fit in bytes, and only two in KB.)
ExactBeatsGreedy ==
  (greedyPc = "done" /\ \A j \in Items : weight_bytes[j] >= Kilo) =>
    TotalValue(taken) <= TotalValue(selected)
===============================================================================
