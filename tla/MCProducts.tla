----------------------------- MODULE MCProducts -----------------------------
(* TLC instance of Products: three questions, one edit at a time. *)
EXTENDS Products, TLC

CONSTANTS g1, g2, g3, c1, c2, r1

MCRequests == {r1}
MCGroups == {g1, g2, g3}
MCCodes == {c1, c2}

Question(input, required, options, rule) ==
    [exists |-> TRUE, input |-> input, required |-> required, options |-> options,
     rule |-> rule]
When(g, c) == [group |-> g, equals |-> c]
First == Question("SELECT", TRUE, {c1, c2}, Always)

\* A chain of three, and a required follow-up next to a choice list without
\* choices.
MCDrafts ==
    {g1 :> First
     @@ g2 :> Question("SELECT", TRUE, {c1}, When(g1, c1))
     @@ g3 :> Question("MULTI_SELECT", FALSE, {c1}, When(g2, c1)),
     g1 :> First
     @@ g2 :> Question("TEXT", TRUE, {}, When(g1, c2))
     @@ g3 :> Question("SELECT", FALSE, {}, Always)}
\* A question that was always asked hangs on another; one that was picked from
\* is typed, or becomes required.
MCGroupForms ==
    {[group |-> g3, input |-> "SELECT", required |-> TRUE, rule |-> When(g1, c2)],
     [group |-> g2, input |-> "NUMBER", required |-> TRUE, rule |-> Always]}
=============================================================================
