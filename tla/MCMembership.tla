---------------------------- MODULE MCMembership ----------------------------
(* TLC instance of Membership: three memberships, two requests at once. *)
EXTENDS Membership, TLC

CONSTANTS m1, m2, m3, r1, r2

MCMembers == {m1, m2, m3}
MCRequests == {r1, r2}
MCRoles == {"owner", "admin", "sales"}
MCManagerRoles == {"owner", "admin"}
MCSymmetry == Permutations(MCMembers) \cup Permutations(MCRequests)
=============================================================================
