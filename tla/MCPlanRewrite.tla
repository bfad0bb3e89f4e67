---------------------------- MODULE MCPlanRewrite ----------------------------
(* Plans of up to two hash joins over three column names, "a", "ab" and     *)
(* "c"; the first occurs in the second.                                     *)
EXTENDS PlanRewrite

Contained(name) == IF name = "ab" THEN {"a", "ab"} ELSE {name}
Col(schema, n) == [contained |-> Contained(schema[n]), col |-> n]

\* A computed key such as c + 1 prints the name of a column, a literal none.
Computed(name) == [contained |-> Contained(name), col |-> 0]
Literal == [contained |-> {}, col |-> 0]

Wide == <<"a", "ab", "c">>
Turned == <<"ab", "c", "a">>

Join(inner, left, right, kb, on) ==
  [inner |-> inner, left |-> left, right |-> right, kb |-> kb, on |-> on]
Key(l, r) == [l |-> l, r |-> r]

OnA == <<Key(Col(Wide, 1), Col(Wide, 1))>>
OnC == <<Key(Col(Wide, 3), Col(Turned, 2))>>
OnBoth == <<Key(Col(Wide, 1), Col(Turned, 3)), Key(Col(Wide, 3), Col(Turned, 2))>>
OnLong == <<Key(Col(Turned, 1), Col(Turned, 1))>>
OnHidden == <<Key(Col(Wide, 2), Col(Turned, 1))>>
OnComputed == <<Key(Col(Wide, 3), Computed("c")), Key(Literal, Col(Turned, 1))>>

Sound == {Join(TRUE, Wide, Wide, 1, OnA), Join(TRUE, Wide, Turned, 2, OnC),
          Join(TRUE, Wide, Turned, 1, OnBoth), Join(TRUE, Turned, Turned, 2, OnLong)}
Odd == {Join(FALSE, Wide, Turned, 1, OnC), Join(TRUE, Wide, Turned, 1, OnHidden),
        Join(TRUE, Wide, Turned, 1, OnComputed)}

AllPlans == BoundedSeq(Sound \cup Odd, 2)
==============================================================================
