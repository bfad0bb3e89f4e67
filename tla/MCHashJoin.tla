------------------------------- MODULE MCHashJoin -------------------------------
(* Two partitions, up to three build rows with a duplicate and a null key, hash   *)
(* collisions, lookups that cut a batch, and all join types.                      *)
EXTENDS HashJoin

MCTypes == {"Inner", "Left", "Right", "Full", "LeftSemi", "LeftAnti", "LeftMark",
            "RightSemi", "RightAnti", "RightMark"}

Join(type, mode, nulls_equal, null_aware, pushed, batch_size, fetch) ==
  [type |-> type, mode |-> mode, nulls_equal |-> nulls_equal, null_aware |-> null_aware,
   pushed |-> pushed, batch_size |-> batch_size, fetch |-> fetch]

\* A null-aware join is LeftAnti and CollectLeft.  SafePush is a premise: the filter is
\* not pushed down where nulls decide the result.
MCJoins ==
  {Join(t, m, FALSE, FALSE, x, n, NoLimit) :
     t \in MCTypes, m \in {"CollectLeft", "Partitioned"}, x \in BOOLEAN, n \in {1, 2}}
  \cup {Join(t, "CollectLeft", FALSE, FALSE, FALSE, 2, f) : t \in MCTypes, f \in {1, 2}}
  \cup {Join(t, "Partitioned", TRUE, FALSE, x, 1, NoLimit) :
           t \in {"Full", "RightSemi"}, x \in BOOLEAN}
  \cup {Join("LeftAnti", "CollectLeft", FALSE, TRUE, x, 1, NoLimit) : x \in BOOLEAN}
SafePush(j) == j.pushed => ~j.null_aware /\ ~j.nulls_equal
MCJoinChoices == {j \in MCJoins : SafePush(j)}

K(k, n) == [key |-> k, id |-> n]

MCHash == [k \in Values |-> IF k = Null THEN 0 ELSE 1]
MCRoute == [k \in Values |-> IF k = 2 THEN 1 ELSE 0]

MCLeft(mode) ==
  IF mode = "CollectLeft"
  THEN {[b \in Parts |-> IF b = 0 THEN keys ELSE <<>>] : keys \in {<<1, 2, 1>>, <<2, Null>>, <<>>}}
  ELSE {[b \in Parts |-> IF b = 0 THEN keys ELSE <<2>>] : keys \in {<<1, Null, 1>>, <<>>}}

\* In Partitioned mode a row lies where its key is routed.
MCProbe(mode) ==
  {[p \in Parts |-> IF p = 0 THEN <<<<K(1, 1), K(Null, 2), K(1, 5)>>>> ELSE <<<<K(2, 3)>>>>],
   [p \in Parts |-> IF p = 0 THEN <<>> ELSE <<<<K(2, 3)>>, <<K(2, 4)>>>>]}
  \cup (IF mode = "CollectLeft"
        THEN {[p \in Parts |-> IF p = 0 THEN <<<<K(2, 1), K(1, 2)>>>> ELSE <<<<K(1, 3)>>>>]} ELSE {})

MCRejects == {{}, {<<1, 1>>, <<1, 2>>, <<1, 3>>}}
=================================================================================
