------------------------------ MODULE MCLeads ------------------------------
(* TLC instance of Leads: one lead, one account, a seller and a manager. *)
EXTENDS Leads, TLC

CONSTANTS l1, a1, seller, manager, r1, r2

MCLeads == {l1}
MCAccounts == {a1}
MCPeople == {seller, manager}
MCAssigners == {manager}
MCRequests == {r1, r2}
RequestSymmetry == Permutations(MCRequests)
=============================================================================
