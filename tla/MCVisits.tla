------------------------------ MODULE MCVisits ------------------------------
(* TLC instance of Visits. *)
EXTENDS Visits

CONSTANTS s1, s2, s3, p1, f1, f2

MCSessions == {s1, s2, s3}
MCOnePassword == {p1}
MCFactors == {f1, f2}
=============================================================================
