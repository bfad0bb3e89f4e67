--------------------------- MODULE MCBloomTransfer ---------------------------
(* Small instances of BloomTransfer: two partitions, two keys.              *)
EXTENDS BloomTransfer, TLC

CONSTANTS p1, p2, k1, k2, s1, s2

\* PartitionMode::Partitioned and PartitionMode::CollectLeft.
Own == [p \in Parts |-> p]
Shared == [p \in Parts |-> p1]

Plan(d, of, s) == [driver |-> d, buildOf |-> of, supported |-> s]
OwnOrShared == {Plan("tasks", Own, TRUE), Plan("eager", Shared, TRUE),
                Plan("merge", Shared, TRUE), Plan("merge", Shared, FALSE)}
LatePlan == {Plan("tasks", Shared, TRUE)}
OwnPlan == {Plan("tasks", Own, TRUE)}

\* Two keys with different strings; s1 is also a possible false positive.
Distinct == (k1 :> s1) @@ (k2 :> s2)

\* Build sides: one key each, a null key, nothing.
SomeLeft == {{k1}, {k2, Null}, {}}
OneLeft == {{k1, Null}}
OneOrNoLeft == {{k1, Null}, {}}

\* Probe sides: every kind of row at once, or keys that are not null.
OneRight == {{k1, k2}}
AllRight == {{k1, k2, Null}}
==============================================================================
