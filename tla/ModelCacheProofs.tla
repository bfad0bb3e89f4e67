--------------------------- MODULE ModelCacheProofs ---------------------------
(* Every thread plans with the same model, for any number of threads, paths  *)
(* and rewrites of the file.                                                 *)
EXTENDS ModelCache, TLAPS

\* The closure runs in one thread at a time and only while the cell is unset; a
\* call that has returned holds what the cell holds.
Single ==
  /\ \A t \in Threads : pc[t] \in {"read", "parse"} => owner = t /\ MODEL_CACHE = Unset
  /\ \A t \in Threads : pc[t] = "returned" =>
       MODEL_CACHE # Unset /\ answer[t] = MODEL_CACHE

Ind == TypeOK /\ Single

LEMMA InitInd == Init => Ind
  BY ChangesAssumption DEF Init, Ind, TypeOK, Single

LEMMA ParsedType ==
  ASSUME NEW s PROVE Parsed(s) \in Models \cup {None} /\ Parsed(s) # Unset
  BY NamesAssumption DEF Parsed, None, Unset

LEMMA NextType == TypeOK /\ [Next]_vars => TypeOK'
<1> SUFFICES ASSUME TypeOK, [Next]_vars PROVE TypeOK' OBVIOUS
<1>1. CASE \E t \in Threads : Call(t)
  BY <1>1 DEF Call, TypeOK
<1>2. CASE \E t \in Threads : Get(t)
  BY <1>2, NamesAssumption DEF Get, TypeOK
<1>3. CASE \E t \in Threads : Begin(t)
  BY <1>3 DEF Begin, TypeOK
<1>4. CASE \E t \in Threads : Read(t)
  BY <1>4 DEF Read, TypeOK
<1>5. CASE \E t \in Threads : Store(t)
  BY <1>5, ParsedType DEF Store, TypeOK
<1>6. CASE \E p \in Paths : Rewrite(p)
  <2> PICK p \in Paths : Rewrite(p) BY <1>6
  <2>1. changes' \in 0..MaxChanges
    BY ChangesAssumption DEF Rewrite, TypeOK
  <2>2. disk' \in [Paths -> Models \cup {Missing, Broken}]
    BY DEF Rewrite, TypeOK
  <2> QED BY <2>1, <2>2 DEF Rewrite, TypeOK
<1>7. CASE UNCHANGED vars
  BY <1>7 DEF vars, TypeOK
<1> QED BY <1>1, <1>2, <1>3, <1>4, <1>5, <1>6, <1>7 DEF Next, Step

LEMMA NextSingle == Ind /\ [Next]_vars => Single'
<1> SUFFICES ASSUME Ind, [Next]_vars PROVE Single' OBVIOUS
<1>1. CASE \E t \in Threads : Call(t)
  BY <1>1 DEF Call, Ind, TypeOK, Single
<1>2. CASE \E t \in Threads : Get(t)
  BY <1>2 DEF Get, Ind, TypeOK, Single
\* Nobody else is in the closure: the lock was free.
<1>3. CASE \E t \in Threads : Begin(t)
  BY <1>3, NamesAssumption DEF Begin, Ind, TypeOK, Single
<1>4. CASE \E t \in Threads : Read(t)
  BY <1>4 DEF Read, Ind, TypeOK, Single
\* Nobody has returned: the cell was unset.
<1>5. CASE \E t \in Threads : Store(t)
  BY <1>5, ParsedType DEF Store, Ind, TypeOK, Single
<1>6. CASE \E p \in Paths : Rewrite(p)
  BY <1>6 DEF Rewrite, Ind, Single
<1>7. CASE UNCHANGED vars
  BY <1>7 DEF vars, Ind, Single
<1> QED BY <1>1, <1>2, <1>3, <1>4, <1>5, <1>6, <1>7 DEF Next, Step

LEMMA Invariance == Spec => []Ind
<1>1. Ind /\ [Next]_vars => Ind' BY NextType, NextSingle DEF Ind
<1> QED BY InitInd, <1>1, PTL DEF Spec

\* All the queries of a process are planned with the same model, or all without
\* one, whatever the threads do and however the file changes meanwhile.
THEOREM OneModel == Spec => []AnswersAgree
<1>1. Ind => AnswersAgree BY DEF Ind, Single, AnswersAgree
<1> QED BY Invariance, <1>1, PTL

\* load_model_once reads its file once: no step replaces the model or the None that
\* the first call stored, and nobody reads or parses after it.
THEOREM SetOnce == Spec => LoadedOnce
<1>1. Ind /\ [Next]_vars =>
        [MODEL_CACHE # Unset =>
           /\ MODEL_CACHE' = MODEL_CACHE
           /\ \A t \in Threads : pc[t] \notin {"read", "parse"}]_vars
  BY DEF Ind, Single, Next, Step, Call, Get, Begin, Read, Store, Rewrite, vars
<1> QED BY Invariance, <1>1, PTL DEF Spec, LoadedOnce
===============================================================================
