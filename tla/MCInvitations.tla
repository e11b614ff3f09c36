--------------------------- MODULE MCInvitations ---------------------------
(* TLC instance of Invitations: three invitations, two people. *)
EXTENDS Invitations, TLC

CONSTANTS i1, i2, i3, p1, p2, r1, r2

MCIds == {i1, i2, i3}
MCPeople == {p1, p2}
MCRequests == {r1, r2}
MCRoles == {"owner", "sales"}
MCSymmetry == Permutations(MCIds) \cup Permutations(MCPeople) \cup Permutations(MCRequests)
=============================================================================
