----------------------------- MODULE MCModelCache -----------------------------
(* Two threads, two model files, two models.  With two changes a file can  *)
(* be truncated and written again while a thread loads it.                   *)
EXTENDS ModelCache

CONSTANTS t1, t2, p1, p2, m1, m2

MCPaths == {p1, p2}
MCModels == {m1, m2}
===============================================================================
