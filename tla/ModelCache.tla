------------------------------ MODULE ModelCache ------------------------------
(****************************************************************************)
(* bf_model::load_model_once: one process-wide OnceLock that holds the      *)
(* parsed model, or None.  Queries are planned by several threads; the file *)
(* is rewritten meanwhile by ml/bf_model.py, which truncates it and then    *)
(* writes it, so that a reader may meet an unparseable one.                 *)
(****************************************************************************)
EXTENDS Naturals

CONSTANTS Threads, Paths, Models, MaxChanges

ASSUME ChangesAssumption == MaxChanges \in Nat

Missing == "missing"
Broken == "broken"
None == "none"     \* Option::None, as a value of the cell or an answer
Unset == "unset"   \* the OnceLock is not initialised
Nobody == "nobody"

ASSUME NamesAssumption ==
  /\ Models \cap {Missing, Broken, None, Unset} = {}
  /\ Nobody \notin Threads

VARIABLES
  disk,         \* what is at each path
  MODEL_CACHE,  \* the cell of the OnceLock
  owner,        \* the thread that runs the closure of get_or_init
  pc, path, text, answer,  \* per thread
  changes       \* how often the disk has changed

vars == <<disk, MODEL_CACHE, owner, pc, path, text, answer, changes>>

Init ==
  /\ disk \in [Paths -> Models \cup {Missing, Broken}]
  /\ MODEL_CACHE = Unset /\ owner = Nobody
  /\ pc = [t \in Threads |-> "idle"]
  /\ path \in [Threads -> Paths]
  /\ text = [t \in Threads |-> Missing]
  /\ answer = [t \in Threads |-> None]
  /\ changes = 0

\* optimize reads BF_MODEL_PATH and calls load_model_once.
Call(t) ==
  /\ pc[t] \in {"idle", "returned"}
  /\ \E p \in Paths : path' = [path EXCEPT ![t] = p]
  /\ pc' = [pc EXCEPT ![t] = "get"]
  /\ UNCHANGED <<disk, MODEL_CACHE, owner, text, answer, changes>>

\* get_or_init finds a value, also after it waited for the thread that sets it.
Get(t) ==
  /\ pc[t] = "get" /\ MODEL_CACHE # Unset
  /\ answer' = [answer EXCEPT ![t] = MODEL_CACHE]
  /\ pc' = [pc EXCEPT ![t] = "returned"]
  /\ UNCHANGED <<disk, MODEL_CACHE, owner, path, text, changes>>

\* get_or_init lets one thread run the closure (mutant: a check of the cell
\* without the lock).
BeginUnlocked(t) ==
  /\ pc[t] = "get" /\ MODEL_CACHE = Unset
  /\ owner' = t
  /\ pc' = [pc EXCEPT ![t] = "read"]
  /\ UNCHANGED <<disk, MODEL_CACHE, path, text, answer, changes>>
Begin(t) ==
  /\ pc[t] = "get" /\ MODEL_CACHE = Unset /\ owner = Nobody
  /\ owner' = t
  /\ pc' = [pc EXCEPT ![t] = "read"]
  /\ UNCHANGED <<disk, MODEL_CACHE, path, text, answer, changes>>

Read(t) ==
  /\ pc[t] = "read"
  /\ text' = [text EXCEPT ![t] = disk[path[t]]]
  /\ pc' = [pc EXCEPT ![t] = "parse"]
  /\ UNCHANGED <<disk, MODEL_CACHE, owner, path, answer, changes>>

\* serde_json::from_str; a file that cannot be read gives None as well.
Parsed(s) == IF s \in Models THEN s ELSE None

\* The closure returns: the cell is set and the waiting threads go on (mutant: a
\* failure leaves the cell unset and is tried again).
StoreRetries(t) ==
  LET ok == text[t] \in Models
  IN /\ pc[t] = "parse"
     /\ MODEL_CACHE' = IF ok THEN text[t] ELSE MODEL_CACHE
     /\ owner' = Nobody
     /\ answer' = IF ok THEN [answer EXCEPT ![t] = text[t]] ELSE answer
     /\ pc' = [pc EXCEPT ![t] = IF ok THEN "returned" ELSE "get"]
     /\ UNCHANGED <<disk, path, text, changes>>
Store(t) ==
  /\ pc[t] = "parse"
  /\ MODEL_CACHE' = Parsed(text[t])
  /\ owner' = Nobody
  /\ answer' = [answer EXCEPT ![t] = Parsed(text[t])]
  /\ pc' = [pc EXCEPT ![t] = "returned"]
  /\ UNCHANGED <<disk, path, text, changes>>

\* MODEL_JSON.write_text: a rewrite passes through a truncated file.
Rewrite(p) ==
  /\ changes < MaxChanges
  /\ disk' \in {[disk EXCEPT ![p] = c] :
                  c \in IF disk[p] = Broken THEN Models ELSE {Broken}}
  /\ changes' = changes + 1
  /\ UNCHANGED <<MODEL_CACHE, owner, pc, path, text, answer>>

Step(t) == Get(t) \/ Begin(t) \/ Read(t) \/ Store(t)

Next == (\E t \in Threads : Call(t) \/ Step(t)) \/ (\E p \in Paths : Rewrite(p))

Spec == Init /\ [][Next]_vars

\* A thread that plans a query is scheduled until its call has returned.
FairSpec == Spec /\ \A t \in Threads : WF_vars(Step(t))
-------------------------------------------------------------------------------
\* Every variable stays in its range: the cell of load_model_once and its answers
\* hold parsed models or None, never the text of a file that does not parse.
TypeOK ==
  /\ disk \in [Paths -> Models \cup {Missing, Broken}]
  /\ MODEL_CACHE \in Models \cup {None, Unset}
  /\ owner \in Threads \cup {Nobody}
  /\ pc \in [Threads -> {"idle", "get", "read", "parse", "returned"}]
  /\ path \in [Threads -> Paths]
  /\ text \in [Threads -> Models \cup {Missing, Broken}]
  /\ answer \in [Threads -> Models \cup {None}]
  /\ changes \in 0..MaxChanges

\* "Load and parse the GBT model from `path` exactly once per process": whatever
\* the threads do and however the file changes meanwhile, any two queries are
\* planned with the same model, or both without one.
AnswersAgree ==
  \A t, u \in Threads :
    pc[t] = "returned" /\ pc[u] = "returned" => answer[t] = answer[u]

\* The file is read and parsed once: when the cell of load_model_once is set, no
\* step gives it another value and no thread is about to read or to parse again.
LoadedOnce ==
  [][MODEL_CACHE # Unset =>
       /\ MODEL_CACHE' = MODEL_CACHE
       /\ \A t \in Threads : pc[t] \notin {"read", "parse"}]_vars

\* A call returns, also one that waits for another thread to load the model.
CallReturns == \A t \in Threads : pc[t] = "get" ~> pc[t] = "returned"
===============================================================================
