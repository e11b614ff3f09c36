-------------------------------- MODULE Leads --------------------------------
(***************************************************************************)
(* The life of leads in one workspace (packages/db/src/crm/leads.ts,       *)
(* activities.ts, accounts.ts with packages/domain/src/crm/lead-policy.ts, *)
(* called from apps/web/src/features/crm/actions.ts).                      *)
(*                                                                         *)
(* Every request but a creation first reads the lead, applies the policy   *)
(* to what it read, and then writes by id alone in a statement or          *)
(* transaction of its own; others commit in between.  A refused request    *)
(* changes nothing and is no step.  Titles, amounts and dates are left     *)
(* out, except whether there is an estimated value.                        *)
(***************************************************************************)
EXTENDS Naturals, FiniteSets

CONSTANTS
    LeadIds,      \* bound: the leads a behaviour may create
    Accounts,
    People,       \* active members who hold crm.lead.write
    Assigners,    \* those of them who hold crm.lead.assign
    Requests,     \* server actions that may be in flight at once
    NoOne         \* no owner; nothing a lead is linked to

ASSUME LeadsAssumption ==
    /\ Assigners \subseteq People
    /\ NoOne \notin People \cup Accounts
    /\ IsFiniteSet(Requests)

VARIABLES
    lead,         \* lead[l]: the row
    archived,     \* accounts with an archivedAt
    req,          \* req[r]: what a request has decided to write
    closedEvent,  \* closedEvent[l]: the status in l's latest lead.closed event
    note,         \* note[l]: the outcome of l's latest transition note
    qualified,    \* history: leads that a qualification was ever written to
    late          \* history: accounts given an open lead after theirs were counted

vars == <<lead, archived, req, closedEvent, note, qualified, late>>

OPEN == {"NEW", "CONTACTED", "QUALIFIED", "PROPOSAL"}
Statuses == OPEN \cup {"WON", "LOST", "DISQUALIFIED"}
LeadActions == {"contact", "qualify", "propose", "win", "lose", "disqualify", "reopen"}

\* What a lead is linked to: nothing, only a contact, or an account.
Links == Accounts \cup {NoOne, "contact"}

\* responses counts the writes of firstResponseAt.
Lead == [exists : BOOLEAN, status : Statuses, owner : People \cup {NoOne}, link : Links,
         valued : BOOLEAN, lostReason : BOOLEAN, converted : BOOLEAN, responses : Nat]
NoLead == [exists |-> FALSE, status |-> "NEW", owner |-> NoOne, link |-> NoOne,
           valued |-> FALSE, lostReason |-> FALSE, converted |-> FALSE, responses |-> 0]

\* op is the request's repository call, "none" between calls; lead and the
\* other fields are its arguments, as far as its write uses them.
Ops == {"none", "transition", "update", "assign", "activity", "archive"}
Idle == [op |-> "none", lead |-> NoOne, action |-> "contact", to |-> "NEW",
         owner |-> NoOne, link |-> NoOne, valued |-> FALSE, contacted |-> FALSE]
End(r) == req' = [req EXCEPT ![r] = Idle]

IsOpen(l) == lead[l].exists /\ lead[l].status \in OPEN
OpenLeads(account) == {l \in LeadIds : IsOpen(l) /\ lead[l].link = account}

\* Accounts that are archived or about to be; the one of them that gets an open lead.
Counted == archived \cup {req[r].link : r \in {s \in Requests : req[s].op = "archive"}}
Belated(status, link) == IF status \in OPEN THEN {link} \cap Counted ELSE {}

Init ==
    /\ lead = [l \in LeadIds |-> NoLead]
    /\ archived = {}
    /\ req = [r \in Requests |-> Idle]
    /\ closedEvent = [l \in LeadIds |-> "none"]
    /\ note = [l \in LeadIds |-> "none"]
    /\ qualified = {}
    /\ late = {}

-----------------------------------------------------------------------------
(* leadMachine and the policy. *)

\* Mutant: a lead may be won from any open status.
FromWinAnywhere(action) ==
    CASE action = "contact" -> {"NEW"}
      [] action = "qualify" -> {"NEW", "CONTACTED"}
      [] action = "propose" -> {"QUALIFIED"}
      [] action \in {"win", "lose", "disqualify"} -> OPEN
      [] action = "reopen" -> {"LOST", "DISQUALIFIED"}

From(action) ==
    CASE action = "contact" -> {"NEW"}
      [] action = "qualify" -> {"NEW", "CONTACTED"}
      [] action = "propose" -> {"QUALIFIED"}
      [] action = "win" -> {"QUALIFIED", "PROPOSAL"}
      [] action \in {"lose", "disqualify"} -> OPEN
      [] action = "reopen" -> {"LOST", "DISQUALIFIED"}

To(action) ==
    CASE action \in {"contact", "reopen"} -> "CONTACTED"
      [] action = "qualify" -> "QUALIFIED"
      [] action = "propose" -> "PROPOSAL"
      [] action = "win" -> "WON"
      [] action = "lose" -> "LOST"
      [] action = "disqualify" -> "DISQUALIFIED"

\* Everyone on their own and on unassigned leads, who may reassign on any.
CanEditLead(l, actor) ==
    actor \in Assigners \/ lead[l].owner \in {NoOne, actor}

HasContact(l) == lead[l].link # NoOne

\* A loss always comes with a reason, or it is refused.
CanTransition(l, actor, action) ==
    /\ CanEditLead(l, actor)
    /\ lead[l].status \in From(action)
    /\ action = "qualify" => HasContact(l)
    /\ action = "propose" => lead[l].valued

-----------------------------------------------------------------------------
(* Reading and deciding. *)

\* A new count makes up for leads that an earlier one had missed.
Decide(r, decision) ==
    /\ req[r].op = "none"
    /\ req' = [req EXCEPT ![r] = decision]
    /\ late' = IF decision.op = "archive" THEN late \ {decision.link} ELSE late
    /\ UNCHANGED <<lead, archived, closedEvent, note, qualified>>

DecideTransition(r, l, actor, action) ==
    /\ lead[l].exists
    /\ CanTransition(l, actor, action)
    /\ Decide(r, [Idle EXCEPT !.op = "transition", !.lead = l, !.action = action,
                    !.to = To(action)])

\* The form sends every field, so the write replaces them all.
DecideUpdate(r, l, actor, link, valued) ==
    /\ lead[l].exists
    /\ CanEditLead(l, actor)
    /\ Decide(r, [Idle EXCEPT !.op = "update", !.lead = l, !.link = link, !.valued = valued])

\* Assigning to who owns the lead already does nothing.
DecideAssign(r, l, actor, owner) ==
    /\ lead[l].exists
    /\ actor \in Assigners
    /\ lead[l].owner # owner
    /\ Decide(r, [Idle EXCEPT !.op = "assign", !.lead = l, !.owner = owner])

\* Mutant: every activity but a note counts as the first response.
DecideActivityAgain(r, l, actor, isNote) ==
    /\ lead[l].exists
    /\ CanEditLead(l, actor)
    /\ Decide(r, [Idle EXCEPT !.op = "activity", !.lead = l, !.contacted = ~isNote])

\* The first activity that is not a note is the first response.
DecideActivity(r, l, actor, isNote) ==
    /\ lead[l].exists
    /\ CanEditLead(l, actor)
    /\ Decide(r, [Idle EXCEPT !.op = "activity", !.lead = l,
                    !.contacted = ~isNote /\ lead[l].responses = 0])

\* Mutant: the count's list of open statuses has forgotten one.
DecideArchiveWithProposals(r, account) ==
    /\ \A l \in OpenLeads(account) : lead[l].status = "PROPOSAL"
    /\ Decide(r, [Idle EXCEPT !.op = "archive", !.link = account])

\* "Close or reassign the open leads first."
DecideArchive(r, account) ==
    /\ OpenLeads(account) = {}
    /\ Decide(r, [Idle EXCEPT !.op = "archive", !.link = account])

-----------------------------------------------------------------------------
(* Writing. *)

\* createLead: the account is not looked at, an archived one is accepted.
CreateLead(l, actor, link, valued) ==
    /\ ~lead[l].exists
    /\ lead' = [lead EXCEPT ![l] = [NoLead EXCEPT !.exists = TRUE, !.owner = actor,
                                      !.link = link, !.valued = valued]]
    /\ late' = late \cup Belated("NEW", link)
    /\ UNCHANGED <<archived, req, closedEvent, note, qualified>>

\* Mutant: the fields are written in the branch of their action only.
TransitionLeadKeepsFields(r) ==
    /\ req[r].op = "transition"
    /\ LET l == req[r].lead
           to == req[r].to
       IN /\ lead' = [lead EXCEPT ![l] = [@ EXCEPT !.status = to,
                        !.lostReason = @ \/ to \in {"LOST", "DISQUALIFIED"},
                        !.converted = @ \/ to = "WON"]]
          /\ note' = [note EXCEPT ![l] = to]
          /\ closedEvent' = IF to \in {"WON", "LOST"} THEN [closedEvent EXCEPT ![l] = to]
                            ELSE closedEvent
          /\ qualified' = IF to = "QUALIFIED" THEN qualified \cup {l} ELSE qualified
          /\ late' = late \cup Belated(to, lead[l].link)
    /\ End(r)
    /\ UNCHANGED archived

\* Mutant: only a win is announced.
TransitionLeadTellsWins(r) ==
    /\ req[r].op = "transition"
    /\ LET l == req[r].lead
           to == req[r].to
       IN /\ lead' = [lead EXCEPT ![l] = [@ EXCEPT !.status = to,
                        !.lostReason = to \in {"LOST", "DISQUALIFIED"},
                        !.converted = (to = "WON")]]
          /\ note' = [note EXCEPT ![l] = to]
          /\ closedEvent' = IF to = "WON" THEN [closedEvent EXCEPT ![l] = to] ELSE closedEvent
          /\ qualified' = IF to = "QUALIFIED" THEN qualified \cup {l} ELSE qualified
          /\ late' = late \cup Belated(to, lead[l].link)
    /\ End(r)
    /\ UNCHANGED archived

\* One transaction: the row, the activity note, the audit row and, for a won
\* or lost lead, the outbox event.  The new status is that of the facts read
\* before; what the lead has become meanwhile is not looked at.
TransitionLead(r) ==
    /\ req[r].op = "transition"
    /\ LET l == req[r].lead
           to == req[r].to
       IN /\ lead' = [lead EXCEPT ![l] = [@ EXCEPT !.status = to,
                        !.lostReason = to \in {"LOST", "DISQUALIFIED"},
                        !.converted = (to = "WON")]]
          /\ note' = [note EXCEPT ![l] = to]
          /\ closedEvent' = IF to \in {"WON", "LOST"} THEN [closedEvent EXCEPT ![l] = to]
                            ELSE closedEvent
          /\ qualified' = IF to = "QUALIFIED" THEN qualified \cup {l} ELSE qualified
          /\ late' = late \cup Belated(to, lead[l].link)
    /\ End(r)
    /\ UNCHANGED archived

UpdateLead(r) ==
    /\ req[r].op = "update"
    /\ lead' = [lead EXCEPT ![req[r].lead] = [@ EXCEPT !.link = req[r].link,
                                                !.valued = req[r].valued]]
    /\ late' = late \cup Belated(lead[req[r].lead].status, req[r].link)
    /\ End(r)
    /\ UNCHANGED <<archived, closedEvent, note, qualified>>

\* The event lead.assigned that goes with it is modelled in Outbox.
AssignLead(r) ==
    /\ req[r].op = "assign"
    /\ lead' = [lead EXCEPT ![req[r].lead].owner = req[r].owner]
    /\ End(r)
    /\ UNCHANGED <<archived, closedEvent, note, qualified, late>>

LogActivity(r) ==
    /\ req[r].op = "activity"
    /\ lead' = IF req[r].contacted THEN [lead EXCEPT ![req[r].lead].responses = @ + 1] ELSE lead
    /\ End(r)
    /\ UNCHANGED <<archived, closedEvent, note, qualified, late>>

\* updateMany where archivedAt is null: an account is archived once.
ArchiveAccount(r) ==
    /\ req[r].op = "archive"
    /\ archived' = archived \cup {req[r].link}
    /\ End(r)
    /\ UNCHANGED <<lead, closedEvent, note, qualified, late>>

\* The write fails, or the process dies before it.
Abort(r) ==
    /\ req[r].op # "none"
    /\ End(r)
    /\ UNCHANGED <<lead, archived, closedEvent, note, qualified, late>>

-----------------------------------------------------------------------------
Next ==
    \/ \E l \in LeadIds, actor \in People, link \in Links, valued \in BOOLEAN :
          CreateLead(l, actor, link, valued)
    \/ \E r \in Requests, l \in LeadIds, actor \in People :
          \/ \E action \in LeadActions : DecideTransition(r, l, actor, action)
          \/ \E link \in Links, valued \in BOOLEAN : DecideUpdate(r, l, actor, link, valued)
          \/ \E owner \in People \cup {NoOne} : DecideAssign(r, l, actor, owner)
          \/ \E isNote \in BOOLEAN : DecideActivity(r, l, actor, isNote)
    \/ \E r \in Requests, account \in Accounts : DecideArchive(r, account)
    \/ \E r \in Requests :
          \/ TransitionLead(r) \/ UpdateLead(r) \/ AssignLead(r)
          \/ LogActivity(r) \/ ArchiveAccount(r) \/ Abort(r)

Spec == Init /\ [][Next]_vars

-----------------------------------------------------------------------------
Request == [op : Ops, lead : LeadIds \cup {NoOne}, action : LeadActions, to : Statuses,
            owner : People \cup {NoOne}, link : Links, valued : BOOLEAN, contacted : BOOLEAN]

TypeOK ==
    /\ lead \in [LeadIds -> Lead]
    /\ archived \subseteq Accounts
    /\ req \in [Requests -> Request]
    /\ closedEvent \in [LeadIds -> {"none", "WON", "LOST"}]
    /\ note \in [LeadIds -> Statuses \cup {"none"}]
    /\ qualified \subseteq LeadIds
    /\ late \subseteq Accounts

\* Reporting reads lostReason and convertedAt: whatever requests overtake each
\* other, a lead has a reason exactly when it is lost or disqualified and a
\* conversion date exactly when it is won (leads.ts:303-313).
RecordMatchesStatus ==
    \A l \in LeadIds :
       /\ lead[l].lostReason <=> lead[l].status \in {"LOST", "DISQUALIFIED"}
       /\ lead[l].converted <=> lead[l].status = "WON"

\* A won or lost lead's latest lead.closed event says how it was closed, and
\* its timeline ends in its status, also after reopening and after requests
\* that overtook each other (leads.ts:303-348).
ClosingIsTold ==
    \A l \in LeadIds :
       /\ lead[l].status \in {"WON", "LOST"} => closedEvent[l] = lead[l].status
       /\ note[l] = IF lead[l].status = "NEW" THEN "none" ELSE lead[l].status

\* No interleaving wins, or proposes to, a lead that nobody ever qualified
\* (lead-policy.ts:16-29).
WonWasQualified ==
    \A l \in LeadIds : lead[l].status \in {"QUALIFIED", "PROPOSAL", "WON"} => l \in qualified

\* "The first outbound touch ... is set once" (activities.ts:108), except by
\* activities that overlap: the date is written no more often than requests
\* can be in flight at once.
FirstResponseIsBounded ==
    \A l \in LeadIds : lead[l].responses <= Cardinality(Requests)

\* "Accounts with open leads can't be archived" (06-crm.md:154): nothing locks
\* the leads that were counted, but an archived account has an open lead only
\* if one was created, linked or reopened after the latest count
\* (accounts.ts:135-147).
ArchivedIsClosed == \A a \in archived \ late : OpenLeads(a) = {}
=============================================================================
