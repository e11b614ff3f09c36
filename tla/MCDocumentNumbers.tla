------------------------- MODULE MCDocumentNumbers --------------------------
(* TLC instance of DocumentNumbers: three requests around two New Years. *)
EXTENDS DocumentNumbers, TLC

CONSTANTS r1, r2, r3

MCCreations == {r1, r2, r3}
CreationSymmetry == Permutations(MCCreations)
=============================================================================
