----------------------------- MODULE GreedySelect -----------------------------
(***************************************************************************)
(* select_filters_greedy: the candidates are sorted by value per byte and  *)
(* taken in that order whenever they still fit.  Weights are bytes here,   *)
(* not KB as in Knapsack.                                                  *)
(***************************************************************************)
EXTENDS Integers, FiniteSetsExt

CONSTANTS N, WeightChoices, ValueChoices, BudgetChoices

VARIABLES
  weight, value, budget_bytes,  \* the input
  todo,       \* candidates the loop has not reached
  remaining,  \* bytes left
  selected,   \* candidates taken
  pc          \* "start", "loop" or "done"

input == <<weight, value, budget_bytes>>
vars == <<input, todo, remaining, selected, pc>>

Items == 1..N

Init ==
  /\ weight \in [Items -> WeightChoices]
  /\ value \in [Items -> ValueChoices]
  /\ budget_bytes \in BudgetChoices
  /\ todo = Items /\ remaining = 0 /\ selected = {}
  /\ pc = "start"

Return ==
  /\ pc = "start"
  /\ N = 0 \/ budget_bytes <= 0
  /\ pc' = "done"
  /\ UNCHANGED <<input, todo, remaining, selected>>

Start ==
  /\ pc = "start"
  /\ N # 0 /\ budget_bytes > 0
  /\ remaining' = budget_bytes
  /\ pc' = "loop"
  /\ UNCHANGED <<input, todo, selected>>

\* sorted(..., reverse=True) is stable: ties keep their order.  The ratios
\* value / max(weight, 1) are compared by cross multiplication (mutant: the
\* sort is ascending).
AtLeastOne(n) == IF n >= 1 THEN n ELSE 1
AheadAscending(a, b) ==
  LET va == value[a] * AtLeastOne(weight[b])
      vb == value[b] * AtLeastOne(weight[a])
  IN va < vb \/ (va = vb /\ a < b)
Ahead(a, b) ==
  LET va == value[a] * AtLeastOne(weight[b])
      vb == value[b] * AtLeastOne(weight[a])
  IN va > vb \/ (va = vb /\ a < b)

\* The test of the loop (mutant: none).
FitsAlways(c) == TRUE
Fits(c) == weight[c] <= remaining

\* One iteration of the loop.
Consider(c) ==
  /\ pc = "loop"
  /\ \A d \in todo \ {c} : Ahead(c, d)
  /\ todo' = todo \ {c}
  /\ IF Fits(c)
       THEN selected' = selected \cup {c} /\ remaining' = remaining - weight[c]
       ELSE UNCHANGED <<selected, remaining>>
  /\ UNCHANGED <<input, pc>>

Finish ==
  /\ pc = "loop" /\ todo = {}
  /\ pc' = "done"
  /\ UNCHANGED <<input, todo, remaining, selected>>

Terminating == pc = "done" /\ UNCHANGED vars

Next == Return \/ Start \/ (\E c \in todo : Consider(c)) \/ Finish \/ Terminating

Spec == Init /\ [][Next]_vars
------------------------------------------------------------------------------
Bytes(S) == MapThenSumSet(LAMBDA c : weight[c], S)

\* The greedy selection fits the budget to the byte, unlike the KB-scaled one.
GreedyWithinBudget == selected # {} => Bytes(selected) <= budget_bytes

\* A candidate loses only to better ones: what was left out did not fit beside
\* the selected candidates that are worth at least as much per byte.  The loop
\* goes on after a candidate that does not fit, so the selection is maximal.
LosesToBetter ==
  (pc = "done" /\ budget_bytes > 0) =>
    \A c \in Items \ selected :
      Bytes({d \in selected : value[d] * AtLeastOne(weight[c])
                                >= value[c] * AtLeastOne(weight[d])})
        + weight[c] > budget_bytes
==============================================================================
