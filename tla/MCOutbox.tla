------------------------------ MODULE MCOutbox ------------------------------
(* TLC instance of Outbox: one event somebody listens to, one nobody does. *)
EXTENDS Outbox, TLC

CONSTANTS joined, assigned, w1, w2

MCWorkers == {w1, w2}
WorkerSymmetry == Permutations(MCWorkers)

MCEvents == {joined, assigned}
MCOneEvent == {joined}
MCOneType == joined :> "member.joined"
MCType == joined :> "member.joined" @@ assigned :> "lead.assigned"
=============================================================================
