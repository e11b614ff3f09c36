------------------------------ MODULE MCSignIn ------------------------------
(* TLC instance of SignIn: three sessions, two requests at once. *)
EXTENDS SignIn, TLC

CONSTANTS s1, s2, s3, p1, p2, f1, f2, l1, r1, r2

MCSessions == {s1, s2, s3}
MCPasswords == {p1, p2}
MCFactors == {f1, f2}
MCLinks == {l1}
MCRequests == {r1, r2}
IdSymmetry == Permutations(MCSessions) \cup Permutations(MCFactors)
                  \cup Permutations(MCRequests) \cup Permutations(MCPasswords)
=============================================================================
