---------------------------- MODULE EventDelivery ----------------------------
(***************************************************************************)
(* What the outbox promises to the code that writes events into it, with   *)
(* no workers, claims, clocks or crashes: an event that was committed is   *)
(* tried, a try may tell its recipients, and the event is closed as done   *)
(* only after they were told (or when nobody listens to its type), and as  *)
(* parked only after `Limit` tries.  Delivery is at least once: an event   *)
(* may be told again, and a closed event may be opened again, but each     *)
(* telling belongs to a try of its own and no event is forgotten.          *)
(*                                                                         *)
(* docs/architecture/data-flow.md:47 and packages/db/src/platform/         *)
(* outbox.ts:5-9 promise this; module Outbox is shown to keep it.          *)
(***************************************************************************)
EXTENDS Naturals, FiniteSets

CONSTANTS Events,     \* the events a behaviour may post
          Heard,      \* those of a type somebody listens to
          Limit       \* tries after which an event may be given up

VARIABLES fate,       \* fate[e]: "none", "open", "done" or "parked"
          tries,      \* how often e was taken up
          told        \* the tries in which e's recipients were told

delivery == <<fate, tries, told>>

DeliveryInit ==
    /\ fate = [e \in Events |-> "none"]
    /\ tries = [e \in Events |-> 0]
    /\ told = [e \in Events |-> {}]

Post(e) ==
    /\ fate[e] = "none"
    /\ fate' = [fate EXCEPT ![e] = "open"]
    /\ UNCHANGED <<tries, told>>

\* A worker takes up every event of a batch in one statement.
Take(S) ==
    /\ \A e \in S : fate[e] = "open"
    /\ tries' = [e \in Events |-> IF e \in S THEN tries[e] + 1 ELSE tries[e]]
    /\ UNCHANGED <<fate, told>>

\* Telling belongs to one try, and a try tells at most once.
Tell(e) ==
    /\ fate[e] # "none"
    /\ \E n \in (1..tries[e]) \ told[e] : told' = [told EXCEPT ![e] = @ \cup {n}]
    /\ UNCHANGED <<fate, tries>>

Finish(e) ==
    /\ tries[e] > 0
    /\ e \in Heard => told[e] # {}
    /\ fate' = [fate EXCEPT ![e] = "done"]
    /\ UNCHANGED <<tries, told>>

GiveUp(e) ==
    /\ tries[e] >= Limit
    /\ fate' = [fate EXCEPT ![e] = "parked"]
    /\ UNCHANGED <<tries, told>>

\* A try that went on after another had closed the event may open it again.
Reopen(e) ==
    /\ fate[e] \in {"done", "parked"}
    /\ tries[e] > 0
    /\ fate' = [fate EXCEPT ![e] = "open"]
    /\ UNCHANGED <<tries, told>>

DeliveryNext ==
    \/ \E e \in Events : Post(e) \/ Tell(e) \/ Finish(e) \/ GiveUp(e) \/ Reopen(e)
    \/ \E S \in SUBSET Events : Take(S)

\* The safety half of the promise.
Delivery == DeliveryInit /\ [][DeliveryNext]_delivery

\* The liveness half: what was posted is, in the end, closed for good.
EachPostedIsClosed ==
    \A e \in Events : (fate[e] # "none") ~> [](fate[e] \in {"done", "parked"})
==============================================================================
