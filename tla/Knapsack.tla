------------------------------- MODULE Knapsack -------------------------------
(***************************************************************************)
(* knapsack_select of the Bloom filter rule (and its Python twin           *)
(* select_filters_exact): a 0/1 knapsack over one rolling row dp, filled   *)
(* from the largest capacity down, and a traceback over chosen.  One step  *)
(* is one iteration of a loop.                                             *)
(*                                                                         *)
(* Predicted probabilities are naturals in an arbitrary unit, so their     *)
(* sums are exact; the code adds f64.                                      *)
(***************************************************************************)
EXTENDS Integers, FiniteSets

CONSTANTS
  N,              \* number of candidates
  WeightChoices,  \* what MlCandidate.weight_bytes may be
  ValueChoices,   \* what MlCandidate.pred_prob may be
  BudgetChoices   \* what BF_MEMORY_BUDGET may be

ASSUME SizeAssumption == N \in Nat
ASSUME ChoiceAssumption ==
  WeightChoices \subseteq Nat /\ ValueChoices \subseteq Nat /\ BudgetChoices \subseteq Nat

VARIABLES
  weight_bytes, pred_prob, budget_bytes,  \* the input
  pc,        \* "start", "fill", "trace" or "done"
  i, w,      \* the loop variables
  dp,        \* dp[x]: best value seen for capacity x
  chosen,    \* chosen[j]: the capacities x with chosen[j][x] = true
  selected   \* the indices of the selected candidates

\* History, read by no guard: dp after each candidate, the weight and value of
\* an arbitrary competing choice, and the totals of the selection.
VARIABLES rows, rival, load, gain, bytes

input == <<weight_bytes, pred_prob, budget_bytes>>
totals == <<load, gain, bytes>>
vars == <<input, pc, i, w, dp, chosen, selected, rows, rival, totals>>

Items == 1..N

\* Bytes to KB, rounded down, at least 1 (mutant: bytes are not scaled).
Kilo == 1024
ToKbUnscaled(b) == b
ToKb(b) == IF b \div Kilo >= 1 THEN b \div Kilo ELSE 1

WCap == ToKb(budget_bytes)
Ws(j) == ToKb(weight_bytes[j])
Zeros == [x \in 0..WCap |-> 0]

Init ==
  /\ weight_bytes \in [Items -> WeightChoices]
  /\ pred_prob \in [Items -> ValueChoices]
  /\ budget_bytes \in BudgetChoices
  /\ pc = "start"
  /\ i = 0 /\ w = 0
  /\ dp = Zeros
  /\ chosen = [j \in Items |-> {}]
  /\ selected = {}
  /\ rows = [j \in 0..N |-> Zeros]
  /\ rival = [weight |-> 0, value |-> 0]
  /\ load = 0 /\ gain = 0 /\ bytes = 0

\* The early return for no candidates or no budget.
Return ==
  /\ pc = "start"
  /\ N = 0 \/ budget_bytes = 0
  /\ pc' = "done"
  /\ UNCHANGED <<input, i, w, dp, chosen, selected, rows, rival, totals>>

\* A row is filled from w_cap down (mutant: the range excludes w_cap).
TopCellExclusive == WCap - 1
TopCell == WCap

Start ==
  /\ pc = "start"
  /\ N # 0 /\ budget_bytes # 0
  /\ pc' = "fill"
  /\ i' = 1 /\ w' = TopCell
  /\ UNCHANGED <<input, dp, chosen, selected, rows, rival, totals>>

\* One iteration of the inner loop.
FillCell ==
  LET candidate == dp[w - Ws(i)] + pred_prob[i]
  IN /\ pc = "fill"
     /\ w >= Ws(i)
     /\ IF candidate > dp[w]
          THEN /\ dp' = [dp EXCEPT ![w] = candidate]
               /\ chosen' = [chosen EXCEPT ![i] = @ \cup {w}]
          ELSE UNCHANGED <<dp, chosen>>
     /\ w' = w - 1
     /\ UNCHANGED <<input, pc, i, selected, rows, rival, totals>>

\* The inner loop ends; the competing choice takes candidate i or leaves it.
EndRow ==
  /\ pc = "fill"
  /\ w < Ws(i)
  /\ rows' = [rows EXCEPT ![i] = dp]
  /\ \E take \in BOOLEAN :
       rival' = IF take THEN [weight |-> rival.weight + Ws(i),
                              value |-> rival.value + pred_prob[i]] ELSE rival
  /\ IF i < N THEN i' = i + 1 /\ w' = TopCell /\ pc' = "fill"
              ELSE i' = N /\ w' = WCap /\ pc' = "trace"
  /\ UNCHANGED <<input, dp, chosen, selected, totals>>

\* How far the traceback moves to the left (mutant: not at all).
NoShift(j) == 0
Shift(j) == Ws(j)

\* One iteration of the traceback.
Trace ==
  /\ pc = "trace"
  /\ i >= 1
  /\ IF w \in chosen[i]
       THEN /\ selected' = selected \cup {i}
            /\ w' = w - Shift(i)
            /\ load' = load + Ws(i)
            /\ gain' = gain + pred_prob[i]
            /\ bytes' = bytes + weight_bytes[i]
       ELSE UNCHANGED <<selected, w, totals>>
  /\ i' = i - 1
  /\ UNCHANGED <<input, pc, dp, chosen, rows, rival>>

Finish ==
  /\ pc = "trace"
  /\ i = 0
  /\ pc' = "done"
  /\ UNCHANGED <<input, i, w, dp, chosen, selected, rows, rival, totals>>

Terminating == pc = "done" /\ UNCHANGED vars

Next == Return \/ Start \/ FillCell \/ EndRow \/ Trace \/ Finish \/ Terminating

Spec == Init /\ [][Next]_vars
------------------------------------------------------------------------------
\* The indices stay inside dp and chosen: no usize of knapsack_select underflows
\* and no Vec is indexed past its end.
TypeOK ==
  /\ weight_bytes \in [Items -> Nat] /\ pred_prob \in [Items -> Nat]
  /\ budget_bytes \in Nat
  /\ pc \in {"start", "fill", "trace", "done"}
  /\ i \in 0..N /\ w \in 0..WCap
  /\ pc = "fill" => i \in Items
  /\ dp \in [0..WCap -> Nat]
  /\ chosen \in [Items -> SUBSET (0..WCap)]
  /\ selected \subseteq Items
  /\ rows \in [0..N -> [0..WCap -> Nat]]
  /\ rival \in [weight : Nat, value : Nat]
  /\ load \in Nat /\ gain \in Nat /\ bytes \in Nat

\* The selection fits the capacity that knapsack_select computes.
Feasible == pc = "done" => load <= WCap

\* No other choice that fits has more value: the rolling row uses no candidate
\* twice, and the traceback finds the choice whose value dp holds.
RivalNeverWins == pc = "done" /\ rival.weight <= WCap /\ budget_bytes # 0
                    => rival.value <= gain

\* Rounding to KB lets the selected filters exceed the budget by less than one
\* KB each (and a budget below one KB count as one).
OvershootBounded ==
  pc = "done" =>
    bytes <= (IF budget_bytes >= Kilo THEN budget_bytes ELSE Kilo)
               + (Kilo - 1) * Cardinality(selected)
==============================================================================
