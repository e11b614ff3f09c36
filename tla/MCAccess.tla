------------------------------ MODULE MCAccess ------------------------------
(* TLC instance of Access: a limit of one, and room to exceed it by two. *)
EXTENDS Access, TLC

CONSTANTS ro1, ro2, ro3, m1, m2, k1, k2, k3, q1, q2

MCRoles == {ro1, ro2, ro3}
MCMembers == {m1, m2}
MCKeys == {k1, k2, k3}
MCRequests == {q1, q2}
MCPermissions == {Manage, Settings}
IdSymmetry == Permutations(MCRoles) \cup Permutations(MCKeys) \cup Permutations(MCRequests)
=============================================================================
