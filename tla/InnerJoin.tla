------------------------------ MODULE InnerJoin ------------------------------
(***************************************************************************)
(* What an inner HashJoinExec promises its consumer, filters or not: every *)
(* output partition joins each probe row against that partition's build    *)
(* side once, and ends only when its probe side is exhausted.  A row is    *)
(* represented by its join key.                                            *)
(***************************************************************************)
CONSTANTS Parts,          \* output partitions of the join
          Keys,           \* non-null join keys
          Null,           \* the null join key
          NullEqualsNull  \* HashJoinExec.null_equality

VARIABLES build,   \* build[p]: keys of the build side partition p joins with
          rest,    \* rest[p]: probe rows of partition p not joined yet
          out,     \* out[p]: probe rows of partition p emitted as matches
          status,  \* status[p]: "running", "done" or "dropped"
          failed   \* the query returned an error

vars == <<build, rest, out, status, failed>>

Rows == Keys \cup {Null}

\* The rows of S that join with the build rows B.
Matching(S, B) == {r \in S : r \in B /\ (r # Null \/ NullEqualsNull)}

Init == /\ build \in [Parts -> SUBSET Rows]
        /\ rest \in [Parts -> SUBSET Rows]
        /\ out = [p \in Parts |-> {}]
        /\ status = [p \in Parts |-> "running"]
        /\ failed = FALSE

\* Partition p joins one batch S of its probe rows.
Join(p, S) == /\ ~failed
              /\ status[p] = "running"
              /\ S # {}
              /\ rest' = [rest EXCEPT ![p] = @ \ S]
              /\ out' = [out EXCEPT ![p] = @ \cup Matching(S, build[p])]
              /\ UNCHANGED <<build, status, failed>>

\* The probe side of p is exhausted and its output stream ends.
Finish(p) == /\ ~failed
             /\ status[p] = "running"
             /\ rest[p] = {}
             /\ status' = [status EXCEPT ![p] = "done"]
             /\ UNCHANGED <<build, rest, out, failed>>

\* The consumer drops the stream of p.
Drop(p) == /\ ~failed
           /\ status[p] = "running"
           /\ status' = [status EXCEPT ![p] = "dropped"]
           /\ UNCHANGED <<build, rest, out, failed>>

\* An input reports an error, which becomes the result of the query.
Fail == /\ ~failed
        /\ failed' = TRUE
        /\ UNCHANGED <<build, rest, out, status>>

Next == \/ \E p \in Parts : \/ \E S \in SUBSET rest[p] : Join(p, S)
                            \/ Finish(p)
                            \/ Drop(p)
        \/ Fail

Spec == Init /\ [][Next]_vars
==============================================================================
