---------------------------- MODULE KnapsackProofs ----------------------------
(***************************************************************************)
(* Knapsack for any number of candidates, weights, values and budgets.     *)
(* rows[j] is dp after j candidates; the invariant says that dp, read from *)
(* both sides of the loop variable w, is made of rows[i - 1] and rows[i],  *)
(* and that the traceback walks along the cells whose values add up.       *)
(***************************************************************************)
EXTENDS Knapsack, TLAPS, FiniteSetTheorems

\* Candidate j improves capacity x of the row before it.
Improves(j, x) ==
  x >= Ws(j) /\ rows[j - 1][x - Ws(j)] + pred_prob[j] > rows[j - 1][x]

\* What row j holds for capacity x, from row j - 1.
Cell(j, x) ==
  IF Improves(j, x) THEN rows[j - 1][x - Ws(j)] + pred_prob[j] ELSE rows[j - 1][x]

\* The rows that are complete.
Complete == IF pc = "fill" THEN 1..(i - 1) ELSE IF pc = "trace" THEN Items ELSE {}

\* A complete row is made from the row before it, and chosen says how.
RowsRight ==
  /\ rows[0] = Zeros
  /\ \A j \in Complete, x \in 0..WCap :
       rows[j][x] = Cell(j, x) /\ (x \in chosen[j] <=> Improves(j, x))

\* Inside a row, the cells above w are new and the others are old.
RowInProgress ==
  pc = "fill" =>
    \A x \in 0..WCap :
      /\ x > w => dp[x] = Cell(i, x) /\ (x \in chosen[i] <=> Improves(i, x))
      /\ x <= w => dp[x] = rows[i - 1][x]

\* Nothing is chosen ahead of the loops.
NotAhead ==
  /\ pc = "start" => dp = Zeros /\ \A j \in Items : chosen[j] = {}
  /\ pc = "fill" => \A j \in Items : \A x \in chosen[j] : j < i \/ (j = i /\ x > w)

\* The best row so far beats the competing choice at every capacity it fits.
RivalBeaten ==
  LET last == IF pc = "fill" THEN i - 1 ELSE N
  IN /\ pc = "start" => rival.value = 0
     /\ pc \in {"fill", "trace"} =>
          \A x \in 0..WCap : x >= rival.weight => rows[last][x] >= rival.value

\* The traceback stands on a cell whose value is still to be collected.
OnTrack ==
  /\ pc \in {"start", "fill"} => load = 0 /\ gain = 0 /\ bytes = 0 /\ selected = {}
  /\ pc = "trace" => load + w = WCap /\ gain + rows[i][w] = rows[N][WCap]
  /\ pc = "trace" => \A j \in selected : j > i

\* Bytes against KB.
Rounded == bytes <= Kilo * load + (Kilo - 1) * Cardinality(selected)

\* What holds at the end.
Result ==
  pc = "done" => /\ load <= WCap
                 /\ budget_bytes # 0 /\ rival.weight <= WCap => rival.value <= gain

IndInv == /\ TypeOK /\ RowsRight /\ RowInProgress /\ NotAhead
          /\ RivalBeaten /\ OnTrack /\ Rounded /\ Result

\* A scaled weight is positive, and rounds down by less than one KB.
LEMMA ToKbType ==
  ASSUME NEW b \in Nat
  PROVE  ToKb(b) \in Nat /\ ToKb(b) >= 1 /\ b <= Kilo * ToKb(b) + (Kilo - 1)
BY DEF ToKb, Kilo

\* The budget in KB is at most the budget in bytes, or one KB.
LEMMA WCapBound ==
  ASSUME NEW b \in Nat
  PROVE  Kilo * ToKb(b) <= (IF b >= Kilo THEN b ELSE Kilo)
BY DEF ToKb, Kilo

\* The capacity and the scaled weights are positive numbers.
LEMMA Weights ==
  ASSUME TypeOK PROVE WCap \in Nat /\ WCap >= 1 /\ \A j \in Items : Ws(j) \in Nat /\ Ws(j) >= 1
BY SMTT(20), ToKbType DEF WCap, Ws, TypeOK

\* The selection is finite.
LEMMA SelectedFinite ==
  ASSUME selected \subseteq Items
  PROVE  IsFiniteSet(selected) /\ Cardinality(selected) \in Nat
<1>1. IsFiniteSet(Items)
  BY SizeAssumption, FS_Interval DEF Items
<1>2. IsFiniteSet(selected)
  BY <1>1, FS_Subset
<1> QED
  BY <1>2, FS_CardinalityType

\* The inductive invariant holds initially.
LEMMA InitInd == Init => IndInv
<1> SUFFICES ASSUME Init PROVE IndInv
  OBVIOUS
<1> USE SizeAssumption, ChoiceAssumption
<1>1. budget_bytes \in Nat
  BY DEF Init
<1>2. WCap \in Nat /\ WCap >= 1
  BY <1>1, ToKbType DEF WCap
<1>3. Zeros \in [0..WCap -> Nat]
  BY <1>2 DEF Zeros
<1>4. TypeOK
  <2>1. rows \in [0..N -> [0..WCap -> Nat]]
    BY <1>3 DEF Init
  <2>2. weight_bytes \in [Items -> Nat] /\ pred_prob \in [Items -> Nat]
    BY Zenon DEF Init
  <2> QED
    BY <1>1, <1>2, <1>3, <2>1, <2>2 DEF TypeOK, Init
<1>5. RowsRight /\ RowInProgress /\ NotAhead /\ RivalBeaten /\ OnTrack /\ Result
  BY DEF Init, RowsRight, RowInProgress, NotAhead, RivalBeaten, OnTrack, Result, Complete
<1>6. Rounded
  BY FS_EmptySet DEF Init, Rounded, Kilo
<1> QED
  BY <1>4, <1>5, <1>6 DEF IndInv

\* The scaled weights and the capacity do not change.
LEMMA SameWeights ==
  ASSUME UNCHANGED input PROVE WCap' = WCap /\ Zeros' = Zeros /\ \A j : Ws(j)' = Ws(j)
BY DEF input, WCap, Ws, Zeros

\* FillCell writes the cell at w from two cells the row has not reached yet.
LEMMA FillCellStep == ASSUME IndInv, FillCell PROVE IndInv'
<1> USE SizeAssumption
<1>1. UNCHANGED <<input, pc, i, selected, rows, rival, totals>> /\ pc = "fill"
  BY DEF FillCell
<1>2. WCap' = WCap /\ Zeros' = Zeros /\ \A j : Ws(j)' = Ws(j)
  BY <1>1, SameWeights
<1>3. WCap \in Nat /\ \A j \in Items : Ws(j) \in Nat /\ Ws(j) >= 1
  BY Weights DEF IndInv
<1>n. i \in Items /\ w \in 0..WCap /\ w >= Ws(i) /\ w' = w - 1
  BY <1>1 DEF IndInv, TypeOK, FillCell
<1>t. /\ dp \in [0..WCap -> Nat] /\ pred_prob \in [Items -> Nat]
      /\ rows \in [0..N -> [0..WCap -> Nat]] /\ chosen \in [Items -> SUBSET (0..WCap)]
  BY SMTT(20), <1>1 DEF IndInv, TypeOK
<1>5. /\ i - 1 \in 0..N /\ w - Ws(i) \in 0..WCap /\ w - Ws(i) < w
      /\ Ws(i) \in Nat /\ pred_prob[i] \in Nat
  <2>1. Ws(i) \in Nat /\ Ws(i) >= 1 /\ pred_prob[i] \in Nat
    BY <1>3, <1>n, <1>t
  <2>2. i - 1 \in 0..N
    BY <1>n DEF Items
  <2>3. w - Ws(i) \in 0..WCap /\ w - Ws(i) < w
    BY <1>3, <1>n, <2>1
  <2> QED
    BY <2>1, <2>2, <2>3
<1>6. dp[w] = rows[i - 1][w] /\ dp[w - Ws(i)] = rows[i - 1][w - Ws(i)]
  <2>1. \A x \in 0..WCap : x <= w => dp[x] = rows[i - 1][x]
    BY <1>1 DEF IndInv, RowInProgress
  <2> QED
    BY <1>n, <1>5, <2>1
<1>7. /\ dp' = [dp EXCEPT ![w] = Cell(i, w)]
      /\ chosen' = IF Improves(i, w) THEN [chosen EXCEPT ![i] = @ \cup {w}] ELSE chosen
  <2>1. Improves(i, w) <=> dp[w - Ws(i)] + pred_prob[i] > dp[w]
    BY <1>n, <1>6 DEF Improves
  <2>2. CASE Improves(i, w)
    BY <1>6, <2>1, <2>2 DEF FillCell, Cell
  <2>3. CASE ~Improves(i, w)
    <3>1. dp' = dp /\ chosen' = chosen
      BY <2>1, <2>3 DEF FillCell
    <3>2. Cell(i, w) = dp[w]
      BY <1>6, <2>3 DEF Cell
    <3> QED
      BY <1>n, <1>t, <2>3, <3>1, <3>2
  <2> QED
    BY <2>2, <2>3
<1>8. Cell(i, w) \in Nat
  <2>1. rows[i - 1][w] \in Nat /\ rows[i - 1][w - Ws(i)] \in Nat
    BY Zenon, <1>n, <1>t, <1>5
  <2> QED
    BY <1>5, <2>1 DEF Cell, Improves
<1>9. TypeOK'
  <2>1. w' \in 0..WCap /\ dp' \in [0..WCap -> Nat]
    <3>1. Ws(i) >= 1 /\ Ws(i) \in Nat
      BY <1>3, <1>n
    <3>2. w - 1 \in 0..WCap
      BY <1>3, <1>n, <3>1
    <3> QED
      BY <1>n, <1>t, <1>7, <1>8, <3>2
  <2>2. chosen' \in [Items -> SUBSET (0..WCap)]
    BY <1>n, <1>t, <1>7
  <2> QED
    BY SMTT(20), <1>1, <1>2, <2>1, <2>2 DEF IndInv, TypeOK, input, totals
<1>10. \A j, x : Improves(j, x)' = Improves(j, x) /\ Cell(j, x)' = Cell(j, x)
  BY <1>1, <1>2 DEF Improves, Cell, input
<1>11. RowsRight'
  BY SMTT(20), <1>1, <1>2, <1>n, <1>t, <1>7, <1>10 DEF IndInv, RowsRight, Complete, Items
<1>12. w \notin chosen[i]
  BY <1>1, <1>n DEF IndInv, NotAhead, Items
<1>13. RowInProgress'
  <2> SUFFICES ASSUME NEW x \in 0..WCap
      PROVE /\ x > w' => /\ dp'[x] = Cell(i, x)
                         /\ (x \in chosen'[i] <=> Improves(i, x))
            /\ x <= w' => dp'[x] = rows[i - 1][x]
    BY <1>1, <1>2, <1>10 DEF RowInProgress
  <2>1. CASE x = w
    BY <1>n, <1>t, <1>7, <1>12, <2>1
  <2>2. CASE x # w
    <3>1. dp'[x] = dp[x] /\ (x \in chosen'[i] <=> x \in chosen[i])
      BY <1>n, <1>t, <1>7, <2>2
    <3> QED
      BY <1>1, <1>n, <2>2, <3>1 DEF IndInv, RowInProgress
  <2> QED
    BY <2>1, <2>2
<1>14. NotAhead'
  BY <1>1, <1>n, <1>t, <1>7 DEF IndInv, NotAhead
<1>15. RivalBeaten' /\ OnTrack' /\ Rounded' /\ Result'
  BY <1>1, <1>2 DEF IndInv, RivalBeaten, OnTrack, Rounded, Result, input, totals
<1> QED
  BY <1>9, <1>11, <1>13, <1>14, <1>15 DEF IndInv

\* EndRow: the cells below the scaled weight were right before the row began.
LEMMA EndRowStep == ASSUME IndInv, EndRow PROVE IndInv'
<1> USE SizeAssumption
<1>1. UNCHANGED <<input, dp, chosen, selected, totals>> /\ pc = "fill" /\ w < Ws(i)
  BY DEF EndRow
<1>2. WCap' = WCap /\ Zeros' = Zeros /\ \A j : Ws(j)' = Ws(j)
  BY <1>1, SameWeights
<1>3. WCap \in Nat /\ \A j \in Items : Ws(j) \in Nat /\ Ws(j) >= 1
  BY Weights DEF IndInv
<1>n. i \in Items /\ w \in 0..WCap
  BY <1>1 DEF IndInv, TypeOK
<1>t. /\ dp \in [0..WCap -> Nat] /\ pred_prob \in [Items -> Nat]
      /\ rows \in [0..N -> [0..WCap -> Nat]] /\ chosen \in [Items -> SUBSET (0..WCap)]
      /\ rival \in [weight : Nat, value : Nat]
  BY SMTT(20), <1>1 DEF IndInv, TypeOK
<1>4. Ws(i) \in Nat /\ i - 1 \in 0..N /\ i \in 0..N /\ pred_prob[i] \in Nat
  BY <1>3, <1>n, <1>t DEF Items
<1>5. ASSUME NEW x \in 0..WCap
      PROVE dp[x] = Cell(i, x) /\ (x \in chosen[i] <=> Improves(i, x))
  <2>1. CASE x > w
    BY <1>1, <1>5, <2>1 DEF IndInv, RowInProgress
  <2>2. CASE ~(x > w)
    <3>1. x <= w /\ x < Ws(i)
      BY <1>1, <1>3, <1>4, <1>n, <2>2
    <3>2. ~Improves(i, x)
      BY <1>4, <3>1 DEF Improves
    <3>3. dp[x] = rows[i - 1][x]
      BY <1>1, <3>1 DEF IndInv, RowInProgress
    <3>4. x \notin chosen[i]
      BY <1>1, <1>n, <2>2 DEF IndInv, NotAhead, Items
    <3> QED
      BY <3>2, <3>3, <3>4 DEF Cell
  <2> QED
    BY <2>1, <2>2
<1>6. /\ rows' = [rows EXCEPT ![i] = dp]
      /\ \/ i < N /\ i' = i + 1 /\ w' = WCap /\ pc' = "fill"
         \/ i = N /\ i' = N /\ w' = WCap /\ pc' = "trace"
  BY <1>n DEF EndRow, TopCell, Items
<1>7. /\ rows' \in [0..N -> [0..WCap -> Nat]] /\ rows'[i] = dp
      /\ \A j \in 0..N : j # i => rows'[j] = rows[j]
  BY SMTT(20), <1>4, <1>t, <1>6
<1>8. /\ rival' \in [weight : Nat, value : Nat]
      /\ \/ rival' = rival
         \/ /\ rival'.weight = rival.weight + Ws(i)
            /\ rival'.value = rival.value + pred_prob[i]
  BY SMTT(20), <1>4, <1>t DEF EndRow
<1>9. TypeOK'
  <2>1. i' \in 0..N /\ w' \in 0..WCap /\ (pc' = "fill" => i' \in Items)
    BY <1>3, <1>6, <1>n DEF Items
  <2> QED
    BY Zenon, <1>1, <1>2, <1>6, <1>7, <1>8, <2>1 DEF IndInv, TypeOK, input, totals
<1>10. ASSUME NEW j \in 1..i
       PROVE \A x : Improves(j, x)' = Improves(j, x) /\ Cell(j, x)' = Cell(j, x)
  <2>1. rows'[j - 1] = rows[j - 1]
    BY SMTT(20), <1>7, <1>n DEF Items
  <2> QED
    BY <1>1, <1>2, <2>1 DEF Improves, Cell, input
<1>11. RowsRight'
  <2>1. Complete' = 1..i
    BY <1>6, <1>n DEF Complete, Items
  <2>2. rows'[0] = Zeros
    BY <1>7, <1>n DEF IndInv, RowsRight, Items
  <2>3. ASSUME NEW j \in 1..i, NEW x \in 0..WCap
        PROVE rows'[j][x] = Cell(j, x) /\ (x \in chosen[j] <=> Improves(j, x))
    <3>1. CASE j = i
      BY <1>5, <1>7, <3>1
    <3>2. CASE j # i
      <4>1. j \in Complete /\ j \in 0..N
        BY <1>1, <1>n, <3>2 DEF Complete, Items
      <4> QED
        BY <1>7, <3>2, <4>1 DEF IndInv, RowsRight
    <3> QED
      BY <3>1, <3>2
  <2> QED
    BY <1>1, <1>2, <1>10, <2>1, <2>2, <2>3 DEF RowsRight
<1>12. RowInProgress'
  <2>1. pc' = "fill" => i' - 1 = i /\ w' = WCap
    BY <1>6, <1>n DEF Items
  <2> QED
    BY SMTT(20), <1>1, <1>2, <1>3, <1>7, <2>1 DEF RowInProgress
<1>13. NotAhead'
  BY <1>1, <1>6, <1>n DEF IndInv, NotAhead, Items
<1>r. rows[i - 1] \in [0..WCap -> Nat]
  <2>1. rows \in [0..N -> [0..WCap -> Nat]] /\ i - 1 \in 0..N
    BY SMTT(20), <1>4, <1>t
  <2> QED
    BY <2>1
<1>14. ASSUME NEW x \in 0..WCap, x >= rival'.weight
       PROVE rows'[i][x] >= rival'.value
  <2>1. rows[i - 1][x] \in Nat
    BY Zenon, <1>r
  <2>2. rows'[i][x] = Cell(i, x)
    BY <1>5, <1>7
  <2>3. \A y \in 0..WCap : y >= rival.weight => rows[i - 1][y] >= rival.value
    BY <1>1 DEF IndInv, RivalBeaten
  <2>4. CASE rival' = rival
    <3>1. rows[i - 1][x] >= rival.value
      BY <1>14, <2>3, <2>4
    <3>2. CASE Improves(i, x)
      <4>1. x - Ws(i) \in 0..WCap
        BY <1>3, <1>4, <3>2 DEF Improves
      <4>2. rows[i - 1][x - Ws(i)] \in Nat
        BY Zenon, <1>r, <4>1
      <4> QED
        BY SMTT(20), <1>4, <1>t, <2>1, <2>2, <2>4, <3>1, <3>2, <4>2 DEF Cell, Improves
    <3>3. CASE ~Improves(i, x)
      BY <2>2, <2>4, <3>1, <3>3 DEF Cell
    <3> QED
      BY <3>2, <3>3
  <2>5. CASE /\ rival'.weight = rival.weight + Ws(i)
             /\ rival'.value = rival.value + pred_prob[i]
    <3> DEFINE y == x - Ws(i)
    <3>0. rival.weight \in Nat /\ rival.value \in Nat
      BY <1>t
    <3>1. y \in 0..WCap /\ y >= rival.weight /\ x >= Ws(i)
      BY <1>3, <1>4, <1>14, <2>5, <3>0
    <3>2. rows[i - 1][y] >= rival.value /\ rows[i - 1][y] \in Nat
      BY Zenon, <1>4, <1>t, <2>3, <3>1
    <3>3. Cell(i, x) >= rows[i - 1][y] + pred_prob[i]
      BY <1>4, <2>1, <3>1, <3>2 DEF Cell, Improves
    <3>4. Cell(i, x) \in Nat
      BY <1>4, <2>1, <3>2 DEF Cell
    <3> QED
      BY <1>4, <2>2, <2>5, <3>0, <3>2, <3>3, <3>4
  <2> QED
    BY <1>8, <2>4, <2>5
<1>15. RivalBeaten'
  <2>1. (IF pc' = "fill" THEN i' - 1 ELSE N) = i /\ pc' # "start"
    BY <1>6, <1>n DEF Items
  <2> QED
    BY <1>2, <1>14, <2>1 DEF RivalBeaten
<1>16. OnTrack' /\ Rounded' /\ Result'
  <2>1. load = 0 /\ gain = 0 /\ bytes = 0 /\ selected = {}
    BY <1>1 DEF IndInv, OnTrack
  <2>2. rows'[N][WCap] \in Nat
    BY <1>3, <1>7
  <2> QED
    BY <1>1, <1>2, <1>3, <1>6, <2>1, <2>2 DEF IndInv, OnTrack, Rounded, Result, totals
<1> QED
  BY <1>9, <1>11, <1>12, <1>13, <1>15, <1>16 DEF IndInv

\* Trace moves to the cell that the chosen one was made from.
LEMMA TraceStep == ASSUME IndInv, Trace PROVE IndInv'
<1> USE SizeAssumption
<1>1. UNCHANGED <<input, pc, dp, chosen, rows, rival>> /\ pc = "trace" /\ i' = i - 1
  BY DEF Trace
<1>2. WCap' = WCap /\ Zeros' = Zeros /\ \A j : Ws(j)' = Ws(j)
  BY <1>1, SameWeights
<1>3. WCap \in Nat /\ \A j \in Items : Ws(j) \in Nat /\ Ws(j) >= 1
  BY Weights DEF IndInv
<1>n. i \in Items /\ i - 1 \in 0..N /\ w \in 0..WCap /\ load \in Nat /\ gain \in Nat /\ bytes \in Nat
  BY <1>1 DEF IndInv, TypeOK, Trace, Items
<1>t. /\ pred_prob \in [Items -> Nat] /\ weight_bytes \in [Items -> Nat]
      /\ rows \in [0..N -> [0..WCap -> Nat]] /\ selected \subseteq Items
  BY <1>1 DEF IndInv, TypeOK
<1>4. /\ Ws(i) \in Nat /\ pred_prob[i] \in Nat /\ weight_bytes[i] \in Nat
      /\ rows[i][w] = Cell(i, w) /\ (w \in chosen[i] <=> Improves(i, w))
  BY Zenon, <1>1, <1>3, <1>n, <1>t DEF IndInv, RowsRight, Complete
<1>5. /\ load + w = WCap /\ gain + rows[i][w] = rows[N][WCap]
      /\ \A j \in selected : j > i
      /\ bytes <= Kilo * load + (Kilo - 1) * Cardinality(selected)
  BY <1>1 DEF IndInv, OnTrack, Rounded
<1>6. RowsRight' /\ RowInProgress' /\ NotAhead' /\ RivalBeaten' /\ Result'
  <2>1. Complete' = Complete
    BY <1>1 DEF Complete
  <2>2. \A j, x : Improves(j, x)' = Improves(j, x) /\ Cell(j, x)' = Cell(j, x)
    BY <1>1, <1>2 DEF Improves, Cell, input
  <2> QED
    BY <1>1, <1>2, <2>1, <2>2
       DEF IndInv, RowsRight, RowInProgress, NotAhead, RivalBeaten, Result
<1>7. CASE w \in chosen[i]
  <2>1. /\ selected' = selected \cup {i} /\ w' = w - Ws(i) /\ load' = load + Ws(i)
        /\ gain' = gain + pred_prob[i] /\ bytes' = bytes + weight_bytes[i]
    BY <1>7 DEF Trace, Shift
  <2>2. w >= Ws(i) /\ rows[i][w] = rows[i - 1][w - Ws(i)] + pred_prob[i]
    BY <1>4, <1>7 DEF Improves, Cell
  <2>3. w' \in 0..WCap /\ load' \in Nat /\ gain' \in Nat /\ bytes' \in Nat
    BY <1>3, <1>4, <1>n, <2>1, <2>2
  <2>4. TypeOK'
    BY Zenon, <1>1, <1>2, <1>n, <1>t, <2>1, <2>3 DEF IndInv, TypeOK, input
  <2>5. rows[i - 1][w'] \in Nat
    BY Zenon, <1>n, <1>t, <2>3
  <2>6. OnTrack'
    <3>1. load' + w' = WCap
      BY SMTT(20), <1>3, <1>4, <1>5, <1>n, <2>1
    <3>2. gain' + rows[i - 1][w'] = rows[N][WCap]
      BY SMTT(20), <1>4, <1>5, <1>n, <2>1, <2>2, <2>5
    <3>3. \A j \in selected' : j > i - 1
      BY SMTT(20), <1>5, <1>n, <1>t, <2>1 DEF Items
    <3> QED
      BY <1>1, <1>2, <3>1, <3>2, <3>3 DEF OnTrack
  <2>7. Rounded'
    <3>1. IsFiniteSet(selected) /\ Cardinality(selected) \in Nat
      BY <1>t, SelectedFinite
    <3>0. i \notin selected
      BY <1>5, <1>n DEF Items
    <3>2. Cardinality(selected') = Cardinality(selected) + 1
      BY SMTT(20), <2>1, <3>0, <3>1, FS_AddElement
    <3>3. weight_bytes[i] <= Kilo * Ws(i) + (Kilo - 1)
      BY <1>4, ToKbType DEF Ws
    <3> QED
      BY SMTT(20), <1>4, <1>5, <1>n, <2>1, <3>1, <3>2, <3>3 DEF Rounded, Kilo
  <2> QED
    BY <1>6, <2>4, <2>6, <2>7 DEF IndInv
<1>8. CASE w \notin chosen[i]
  <2>1. UNCHANGED <<selected, w, load, gain, bytes>>
    BY <1>8 DEF Trace, totals
  <2>2. rows[i][w] = rows[i - 1][w]
    BY <1>4, <1>8 DEF Cell
  <2>3. TypeOK'
    BY SMTT(20), <1>1, <1>2, <1>n, <2>1 DEF IndInv, TypeOK, input
  <2>4. OnTrack'
    <3>1. \A j \in selected : j > i - 1
      BY <1>5, <1>n, <1>t DEF Items
    <3> QED
      BY SMTT(20), <1>1, <1>2, <1>5, <2>1, <2>2, <3>1 DEF OnTrack
  <2>5. Rounded'
    BY <1>5, <2>1 DEF Rounded
  <2> QED
    BY <1>6, <2>3, <2>4, <2>5 DEF IndInv
<1> QED
  BY <1>7, <1>8

\* Entering the loops, and the two ways of ending.
LEMMA ControlStep == ASSUME IndInv, Return \/ Start \/ Finish PROVE IndInv'
<1> USE SizeAssumption
<1>1. UNCHANGED <<input, dp, chosen, selected, rows, rival, totals>>
  BY DEF Return, Start, Finish
<1>2. WCap' = WCap /\ Zeros' = Zeros /\ \A j : Ws(j)' = Ws(j)
  BY <1>1, SameWeights
<1>3. WCap \in Nat /\ WCap >= 1
  BY Weights DEF IndInv
<1>4. Rounded'
  BY <1>1 DEF IndInv, Rounded, totals
<1>5. CASE Return
  <2>1. pc = "start" /\ pc' = "done" /\ UNCHANGED <<i, w>>
    BY <1>5 DEF Return
  <2>2. TypeOK'
    BY SMTT(20), <1>1, <1>2, <2>1 DEF IndInv, TypeOK, input, totals
  <2>3. Result'
    BY SMTT(20), <1>1, <1>2, <1>3, <2>1 DEF IndInv, Result, RivalBeaten, OnTrack, input, totals
  <2>4. RowsRight' /\ RowInProgress' /\ NotAhead' /\ RivalBeaten' /\ OnTrack'
    BY <1>1, <1>2, <2>1
       DEF IndInv, RowsRight, RowInProgress, NotAhead, RivalBeaten, OnTrack, Complete
  <2> QED
    BY <1>4, <2>2, <2>3, <2>4 DEF IndInv
<1>6. CASE Start
  <2>1. pc = "start" /\ pc' = "fill" /\ i' = 1 /\ w' = WCap /\ N >= 1
    BY <1>6 DEF Start, TopCell
  <2>2. TypeOK'
    <3>1. i' \in 0..N /\ w' \in 0..WCap /\ i' \in Items
      BY <1>3, <2>1 DEF Items
    <3> QED
      BY Zenon, <1>1, <1>2, <2>1, <3>1 DEF IndInv, TypeOK, input, totals
  <2>3. rows[0] = Zeros /\ dp = Zeros /\ rival.value = 0 /\ \A j \in Items : chosen[j] = {}
    BY <2>1 DEF IndInv, RowsRight, NotAhead, RivalBeaten
  <2>4. RowsRight' /\ RowInProgress' /\ NotAhead'
    BY <1>1, <1>2, <1>3, <2>1, <2>3 DEF RowsRight, RowInProgress, NotAhead, Complete
  <2>5. RivalBeaten'
    BY <1>1, <1>2, <1>3, <2>1, <2>3 DEF RivalBeaten, Zeros
  <2>6. OnTrack' /\ Result'
    BY <1>1, <2>1 DEF IndInv, OnTrack, Result, totals
  <2> QED
    BY <1>4, <2>2, <2>4, <2>5, <2>6 DEF IndInv
<1>7. CASE Finish
  <2>1. pc = "trace" /\ i = 0 /\ pc' = "done" /\ UNCHANGED <<i, w>>
    BY <1>7 DEF Finish
  <2>2. TypeOK'
    BY <1>1, <1>2, <2>1 DEF IndInv, TypeOK, input, totals
  <2>3. w \in 0..WCap /\ load \in Nat /\ gain \in Nat /\ rival.weight \in Nat
    BY DEF IndInv, TypeOK
  <2>4. load + w = WCap /\ gain + rows[0][w] = rows[N][WCap] /\ rows[0] = Zeros
    BY <2>1 DEF IndInv, OnTrack, RowsRight
  <2>5. gain = rows[N][WCap]
    BY SMTT(20), <1>3, <2>3, <2>4 DEF Zeros
  <2>6. rival.weight <= WCap => rival.value <= gain
    BY SMTT(20), <1>3, <2>1, <2>3, <2>5 DEF IndInv, RivalBeaten
  <2>7. Result'
    BY SMTT(20), <1>1, <1>2, <1>3, <2>3, <2>4, <2>6 DEF Result, totals
  <2>8. RowsRight' /\ RowInProgress' /\ NotAhead' /\ RivalBeaten' /\ OnTrack'
    BY <1>1, <1>2, <2>1, <2>4
       DEF RowsRight, RowInProgress, NotAhead, RivalBeaten, OnTrack, Complete
  <2> QED
    BY <1>4, <2>2, <2>7, <2>8 DEF IndInv
<1> QED
  BY <1>5, <1>6, <1>7

\* The invariant is inductive.
LEMMA NextInd == IndInv /\ [Next]_vars => IndInv'
<1> SUFFICES ASSUME IndInv, [Next]_vars PROVE IndInv'
  OBVIOUS
<1>1. CASE UNCHANGED vars
  <2>1. WCap' = WCap /\ Zeros' = Zeros /\ \A j : Ws(j)' = Ws(j)
    BY SMTT(20), <1>1, SameWeights DEF vars
  <2>2. TypeOK' /\ NotAhead' /\ RivalBeaten' /\ OnTrack' /\ Rounded' /\ Result'
    BY SMTT(20), <1>1, <2>1 DEF vars, input, totals, IndInv, TypeOK, NotAhead, RivalBeaten,
       OnTrack, Rounded, Result
  <2>3. \A j, x : Improves(j, x)' = Improves(j, x) /\ Cell(j, x)' = Cell(j, x)
    BY <1>1, <2>1 DEF vars, input, Improves, Cell
  <2>4. Complete' = Complete
    BY SMTT(20), <1>1 DEF vars, Complete
  <2>5. RowsRight' /\ RowInProgress'
    BY <1>1, <2>1, <2>3, <2>4 DEF vars, IndInv, RowsRight, RowInProgress
  <2> QED
    BY <2>2, <2>5 DEF IndInv
<1> QED
  BY <1>1, FillCellStep, EndRowStep, TraceStep, ControlStep DEF Next, Terminating

\* The invariant holds in every reachable state.
LEMMA Invariance == Spec => []IndInv
BY InitInd, NextInd, PTL DEF Spec

\* No index of knapsack_select leaves its array, whatever the input.
THEOREM IndicesInRange == Spec => []TypeOK
<1>1. IndInv => TypeOK
  BY DEF IndInv
<1> QED
  BY <1>1, Invariance, PTL

\* The selected filters fit the capacity in KB.
THEOREM SelectionFits == Spec => []Feasible
<1>1. IndInv => Feasible
  BY DEF IndInv, Result, Feasible
<1> QED
  BY <1>1, Invariance, PTL

\* The selection is worth as much as any choice that fits: the history variable
\* rival is an arbitrary subset of the candidates.
THEOREM SelectionOptimal == Spec => []RivalNeverWins
<1>1. IndInv => RivalNeverWins
  BY DEF IndInv, Result, RivalNeverWins
<1> QED
  BY <1>1, Invariance, PTL

\* The selected filters exceed the budget in bytes by less than one KB each.
THEOREM OvershootSmall == Spec => []OvershootBounded
<1>1. IndInv => OvershootBounded
  <2> SUFFICES ASSUME IndInv, pc = "done" PROVE
        bytes <= (IF budget_bytes >= Kilo THEN budget_bytes ELSE Kilo)
                   + (Kilo - 1) * Cardinality(selected)
    BY DEF OvershootBounded
  <2>1. bytes <= Kilo * load + (Kilo - 1) * Cardinality(selected) /\ load <= WCap
    BY DEF IndInv, Rounded, Result
  <2>2. load \in Nat /\ bytes \in Nat /\ budget_bytes \in Nat /\ WCap \in Nat
    BY Weights DEF IndInv, TypeOK
  <2>3. Kilo * WCap <= (IF budget_bytes >= Kilo THEN budget_bytes ELSE Kilo)
    BY <2>2, WCapBound DEF WCap
  <2>4. Cardinality(selected) \in Nat
    BY SelectedFinite DEF IndInv, TypeOK
  <2> QED
    BY <2>1, <2>2, <2>3, <2>4 DEF Kilo
<1> QED
  BY <1>1, Invariance, PTL
==============================================================================
