---------------------------- MODULE MCCategories ----------------------------
(* TLC instance of Categories. *)
EXTENDS Categories, TLC

CONSTANTS c1, c2, c3, p1, r1, r2

MCCategories == {c1, c2, c3}
MCProducts == {p1}
MCCalls == {r1, r2}
Symmetry == Permutations(MCCategories) \cup Permutations(MCCalls)
=============================================================================
