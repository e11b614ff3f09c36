----------------------------- MODULE LeadsProofs -----------------------------
(***************************************************************************)
(* Proofs about Leads, for any number of leads, people and requests.  The  *)
(* argument: a decision may be stale when it is written, but what it was   *)
(* decided on leaves traces that are never taken back (the lead exists, it *)
(* was once qualified, nobody had responded yet), and every write sets all *)
(* the fields that go with a status in one step.  What was counted for an  *)
(* archiving stays true until some lead is put to the account.             *)
(*                                                                         *)
(* And about DocumentNumbers, for any number of creations, years and       *)
(* values and for sequences with and without a yearly reset: the holder of *)
(* the row has read what is still in the row, and the row always says      *)
(* where the numbers of its own year end.                                  *)
(***************************************************************************)
EXTENDS Leads, DocumentNumbers, FiniteSetTheorems, TLAPS

\* What a decision rests on, as far as it cannot become false while the
\* request waits for its write.
Grounded(q) ==
    /\ q.op \in {"transition", "update", "assign", "activity"} =>
          q.lead \in LeadIds /\ lead[q.lead].exists
    /\ q.op = "transition" =>
          /\ q.to # "NEW"
          /\ q.to \in {"PROPOSAL", "WON"} => q.lead \in qualified
    /\ q.op = "archive" => q.link \in Accounts

DecisionsHaveGrounds == \A r \in Requests : Grounded(req[r])

LeadsBeginNew ==
    \A l \in LeadIds : ~lead[l].exists => lead[l].status = "NEW"

\* The requests about to write l's first response.
Responds(q, l) == q.op = "activity" /\ q.lead = l /\ q.contacted
Responding(l) == {r \in Requests : Responds(req[r], l)}

\* A response is decided on only while there is none, so what was written and
\* what waits to be written is together no more than the requests.
ResponsesAreCounted ==
    \A l \in LeadIds :
       lead[l].responses + Cardinality(Responding(l)) <= Cardinality(Requests)

\* What was counted stays so, for accounts about to be archived as for those
\* that are.
CountsHold == \A a \in Counted \ late : OpenLeads(a) = {}

IInv ==
    /\ TypeOK
    /\ DecisionsHaveGrounds
    /\ LeadsBeginNew
    /\ RecordMatchesStatus
    /\ ClosingIsTold
    /\ WonWasQualified
    /\ ResponsesAreCounted
    /\ CountsHold

-----------------------------------------------------------------------------
\* The requests that respond to a lead are finitely many.
LEMMA RespondingFinite ==
    \A l : /\ IsFiniteSet(Responding(l))
           /\ Cardinality(Responding(l)) \in Nat
           /\ Cardinality(Responding(l)) <= Cardinality(Requests)
  <1> TAKE l
  <1>1. Responding(l) \subseteq Requests
    BY DEF Responding
  <1>2. QED
    BY <1>1, LeadsAssumption, FS_Subset, FS_CardinalityType

\* leadMachine: every action leads to a status other than the first; to be
\* proposed to or won, a lead comes from a status that qualification precedes.
LEMMA Machine ==
    ASSUME NEW action \in LeadActions
    PROVE  /\ To(action) \in Statuses \ {"NEW"}
           /\ To(action) \in {"PROPOSAL", "WON"} => From(action) \subseteq {"QUALIFIED", "PROPOSAL"}
  BY DEF LeadActions, To, From, Statuses, OPEN

LEMMA IdleTyped == Idle \in Request /\ Idle.op = "none" /\ Grounded(Idle)
  BY DEF Idle, Request, Ops, LeadActions, Statuses, OPEN, Links, Grounded

\* A step that takes a decision: well-typed, with grounds, a first response
\* only where there is none yet, an archiving only where nothing is open.
DecisionStep ==
    \E r \in Requests, q \in Request :
       /\ Decide(r, q)
       /\ Grounded(q)
       /\ \A l \in LeadIds : Responds(q, l) => lead[l].responses = 0
       /\ q.op = "archive" => OpenLeads(q.link) = {}

LEMMA TransitionIsDecision ==
    ASSUME TypeOK, WonWasQualified, NEW r \in Requests, NEW l \in LeadIds,
           NEW actor \in People, NEW action \in LeadActions,
           DecideTransition(r, l, actor, action)
    PROVE  DecisionStep
  <1> DEFINE q == [Idle EXCEPT !.op = "transition", !.lead = l, !.action = action,
                     !.to = To(action)]
  <1>1. q \in Request
    BY Machine, IdleTyped DEF Idle, Request, Ops
  <1>2. q.op = "transition" /\ q.lead = l /\ q.to = To(action)
    BY DEF Idle
  <1>3. Decide(r, q) /\ lead[l].exists /\ lead[l].status \in From(action)
    BY DEF DecideTransition, CanTransition
  <1>4. To(action) \in {"PROPOSAL", "WON"} => l \in qualified
    BY <1>3, Machine DEF WonWasQualified
  <1> HIDE DEF q
  <1>5. Grounded(q)
    BY <1>2, <1>3, <1>4, Machine DEF Grounded
  <1>6. QED
    BY <1>1, <1>2, <1>3, <1>5 DEF DecisionStep, Responds

LEMMA OthersAreDecisions ==
    ASSUME TypeOK, NEW r \in Requests, NEW q \in Request, Decide(r, q),
           \/ /\ q.op \in {"update", "assign", "activity"}
              /\ q.lead \in LeadIds /\ lead[q.lead].exists
              /\ q.op = "activity" => (q.contacted => lead[q.lead].responses = 0)
           \/ q.op = "archive" /\ q.link \in Accounts /\ OpenLeads(q.link) = {}
    PROVE  DecisionStep
  BY DEF DecisionStep, Grounded, Responds

LEMMA Decisions ==
    ASSUME TypeOK, WonWasQualified, [Next]_vars
    PROVE  \/ DecisionStep
           \/ \E l \in LeadIds, actor \in People, link \in Links, valued \in BOOLEAN :
                 CreateLead(l, actor, link, valued)
           \/ \E r \in Requests :
                 \/ TransitionLead(r) \/ UpdateLead(r) \/ AssignLead(r)
                 \/ LogActivity(r) \/ ArchiveAccount(r) \/ Abort(r)
           \/ UNCHANGED vars
  <1>1. ASSUME NEW r \in Requests, NEW l \in LeadIds, NEW actor \in People,
               NEW link \in Links, NEW valued \in BOOLEAN,
               DecideUpdate(r, l, actor, link, valued)
        PROVE  DecisionStep
    <2> DEFINE q == [Idle EXCEPT !.op = "update", !.lead = l, !.link = link, !.valued = valued]
    <2>1. q \in Request /\ q.op = "update" /\ q.lead = l
      BY IdleTyped DEF Idle, Request, Ops
    <2>2. Decide(r, q) /\ lead[l].exists
      BY <1>1 DEF DecideUpdate
    <2> HIDE DEF q
    <2>3. QED
      BY <2>1, <2>2, OthersAreDecisions
  <1>2. ASSUME NEW r \in Requests, NEW l \in LeadIds, NEW actor \in People,
               NEW owner \in People \cup {NoOne}, DecideAssign(r, l, actor, owner)
        PROVE  DecisionStep
    <2> DEFINE q == [Idle EXCEPT !.op = "assign", !.lead = l, !.owner = owner]
    <2>1. q \in Request /\ q.op = "assign" /\ q.lead = l
      BY IdleTyped DEF Idle, Request, Ops
    <2>2. Decide(r, q) /\ lead[l].exists
      BY <1>2 DEF DecideAssign
    <2> HIDE DEF q
    <2>3. QED
      BY <2>1, <2>2, OthersAreDecisions
  <1>3. ASSUME NEW r \in Requests, NEW l \in LeadIds, NEW actor \in People,
               NEW isNote \in BOOLEAN, DecideActivity(r, l, actor, isNote)
        PROVE  DecisionStep
    <2> DEFINE q == [Idle EXCEPT !.op = "activity", !.lead = l,
                       !.contacted = ~isNote /\ lead[l].responses = 0]
    <2>1. /\ q \in Request /\ q.op = "activity" /\ q.lead = l
          /\ q.contacted => lead[l].responses = 0
      BY IdleTyped DEF Idle, Request, Ops
    <2>2. Decide(r, q) /\ lead[l].exists
      BY <1>3 DEF DecideActivity
    <2> HIDE DEF q
    <2>3. QED
      BY <2>1, <2>2, OthersAreDecisions
  <1>4. ASSUME NEW r \in Requests, NEW account \in Accounts, DecideArchive(r, account)
        PROVE  DecisionStep
    <2> DEFINE q == [Idle EXCEPT !.op = "archive", !.link = account]
    <2>1. q \in Request /\ q.op = "archive" /\ q.link = account
      BY IdleTyped DEF Idle, Request, Ops, Links
    <2>2. Decide(r, q) /\ OpenLeads(account) = {}
      BY <1>4 DEF DecideArchive
    <2> HIDE DEF q
    <2>3. QED
      BY <2>1, <2>2, OthersAreDecisions
  <1>5. QED
    BY <1>1, <1>2, <1>3, <1>4, TransitionIsDecision DEF Next

-----------------------------------------------------------------------------
LEMMA CountedAreAccounts ==
    ASSUME TypeOK, DecisionsHaveGrounds
    PROVE  Counted \subseteq Accounts
  BY DEF Counted, DecisionsHaveGrounds, Grounded, TypeOK

LEMMA TypeStep ==
    ASSUME TypeOK, DecisionsHaveGrounds, WonWasQualified, [Next]_vars
    PROVE  TypeOK'
  <1>1. ASSUME NEW l \in LeadIds, NEW actor \in People, NEW link \in Links,
               NEW valued \in BOOLEAN, CreateLead(l, actor, link, valued)
        PROVE  TypeOK'
    <2>1. late' \subseteq Accounts
      BY <1>1, CountedAreAccounts DEF CreateLead, Belated, TypeOK
    <2>2. QED
      BY <1>1, <2>1 DEF TypeOK, CreateLead, NoLead, Lead, Statuses, OPEN
  <1>2. CASE DecisionStep
    BY <1>2 DEF DecisionStep, Decide, TypeOK
  <1>3. ASSUME NEW r \in Requests, TransitionLead(r)
        PROVE  TypeOK'
    <2>1. req[r].lead \in LeadIds /\ req[r].to \in Statuses
      BY <1>3 DEF TransitionLead, DecisionsHaveGrounds, Grounded, TypeOK, Request
    <2>2. req' \in [Requests -> Request]
      BY <1>3, IdleTyped DEF TransitionLead, End, TypeOK
    <2> DEFINE l == req[r].lead
               written == [lead[l] EXCEPT !.status = req[r].to,
                         !.lostReason = req[r].to \in {"LOST", "DISQUALIFIED"},
                         !.converted = (req[r].to = "WON")]
    <2>3. written \in Lead
      <3>1. lead[l] \in Lead
        BY <2>1 DEF TypeOK
      <3>2. \A row1 \in Lead, to \in Statuses, a, b \in BOOLEAN :
               [row1 EXCEPT !.status = to, !.lostReason = a, !.converted = b] \in Lead
        BY DEF Lead
      <3>3. /\ (req[r].to \in {"LOST", "DISQUALIFIED"}) \in BOOLEAN
            /\ (req[r].to = "WON") \in BOOLEAN
        OBVIOUS
      <3>4. QED
        BY <2>1, <3>1, <3>2, <3>3
    <2>4. lead' = [lead EXCEPT ![l] = written]
      BY <1>3 DEF TransitionLead
    <2>5. lead' \in [LeadIds -> Lead]
      BY <2>3, <2>4 DEF TypeOK
    <2>6. /\ closedEvent' \in [LeadIds -> {"none", "WON", "LOST"}]
          /\ note' \in [LeadIds -> Statuses \cup {"none"}]
          /\ qualified' \subseteq LeadIds /\ late' \subseteq Accounts
      BY <1>3, <2>1, CountedAreAccounts DEF TransitionLead, Belated, TypeOK
    <2>7. archived' = archived
      BY <1>3 DEF TransitionLead
    <2>8. QED
      BY <2>2, <2>5, <2>6, <2>7 DEF TypeOK
  <1>4. ASSUME NEW r \in Requests, UpdateLead(r) \/ AssignLead(r) \/ LogActivity(r)
        PROVE  TypeOK'
    <2>1. req[r].lead \in LeadIds
      BY <1>4 DEF UpdateLead, AssignLead, LogActivity, DecisionsHaveGrounds, Grounded
    <2>2. req' \in [Requests -> Request]
      BY <1>4, IdleTyped DEF UpdateLead, AssignLead, LogActivity, End, TypeOK
    <2>3. /\ req[r].link \in Links /\ req[r].valued \in BOOLEAN
          /\ req[r].owner \in People \cup {NoOne}
      BY DEF TypeOK, Request
    <2>4. lead' \in [LeadIds -> Lead]
      <3>1. lead[req[r].lead] \in Lead
        BY <2>1 DEF TypeOK
      <3>2. /\ [lead[req[r].lead] EXCEPT !.link = req[r].link, !.valued = req[r].valued] \in Lead
            /\ [lead[req[r].lead] EXCEPT !.owner = req[r].owner] \in Lead
            /\ [lead[req[r].lead] EXCEPT !.responses = @ + 1] \in Lead
        <4>1. \A written \in Lead, link \in Links, valued \in BOOLEAN :
                 [written EXCEPT !.link = link, !.valued = valued] \in Lead
          BY DEF Lead
        <4>2. \A written \in Lead, owner \in People \cup {NoOne} :
                 [written EXCEPT !.owner = owner] \in Lead
          BY DEF Lead
        <4>3. \A written \in Lead : [written EXCEPT !.responses = @ + 1] \in Lead
          BY DEF Lead
        <4>4. QED
          BY <2>3, <3>1, <4>1, <4>2, <4>3
      <3>3. CASE UpdateLead(r)
        BY <2>1, <3>2, <3>3 DEF UpdateLead, TypeOK
      <3>4. CASE AssignLead(r)
        BY <2>1, <3>2, <3>4 DEF AssignLead, TypeOK
      <3>5. CASE LogActivity(r)
        BY <2>1, <3>2, <3>5 DEF LogActivity, TypeOK
      <3>6. QED
        BY <1>4, <3>3, <3>4, <3>5
    <2>5. UNCHANGED <<archived, closedEvent, note, qualified>> /\ late' \subseteq Accounts
      BY <1>4, CountedAreAccounts DEF UpdateLead, AssignLead, LogActivity, Belated, TypeOK
    <2>6. QED
      BY <2>2, <2>4, <2>5 DEF TypeOK
  <1>5. ASSUME NEW r \in Requests, ArchiveAccount(r) \/ Abort(r)
        PROVE  TypeOK'
    BY <1>5, IdleTyped DEF ArchiveAccount, Abort, End, TypeOK, DecisionsHaveGrounds, Grounded
  <1>6. CASE UNCHANGED vars
    BY <1>6 DEF vars, TypeOK
  <1>7. QED
    BY <1>1, <1>2, <1>3, <1>4, <1>5, <1>6, Decisions

-----------------------------------------------------------------------------
\* Leads stay, and so does that they were qualified: grounds outlive any step
\* that leaves their request alone.
LEMMA GroundsLast ==
    ASSUME NEW q, Grounded(q),
           qualified \subseteq qualified',
           \A l \in LeadIds : lead[l].exists => lead'[l].exists
    PROVE  Grounded(q)'
  BY DEF Grounded

\* No write but a transition changes a lead's status or what goes with it,
\* and none removes a lead.
LEMMA RowsKept ==
    ASSUME TypeOK, DecisionsHaveGrounds, NEW r \in Requests,
           \/ UpdateLead(r) \/ AssignLead(r) \/ LogActivity(r)
           \/ ArchiveAccount(r) \/ Abort(r),
           NEW l \in LeadIds
    PROVE  /\ lead'[l].exists = lead[l].exists /\ lead'[l].status = lead[l].status
           /\ lead'[l].lostReason = lead[l].lostReason
           /\ lead'[l].converted = lead[l].converted
  <1>1. lead[l] \in Lead
    BY DEF TypeOK
  <1>2. CASE UpdateLead(r)
    BY <1>1, <1>2 DEF UpdateLead, TypeOK, Lead
  <1>3. CASE AssignLead(r)
    BY <1>1, <1>3 DEF AssignLead, TypeOK, Lead
  <1>4. CASE LogActivity(r)
    BY <1>1, <1>4 DEF LogActivity, TypeOK, Lead
  <1>5. CASE ArchiveAccount(r) \/ Abort(r)
    BY <1>5 DEF ArchiveAccount, Abort
  <1>6. QED
    BY <1>2, <1>3, <1>4, <1>5

LEMMA GroundsStep ==
    ASSUME TypeOK, DecisionsHaveGrounds, WonWasQualified, [Next]_vars
    PROVE  DecisionsHaveGrounds'
  <1> USE DEF DecisionsHaveGrounds
  <1>1. CASE DecisionStep
    <2>1. PICK r \in Requests, q \in Request : Decide(r, q) /\ Grounded(q)
      BY <1>1 DEF DecisionStep
    <2>2. req' = [req EXCEPT ![r] = q] /\ lead' = lead /\ qualified' = qualified
      BY <2>1 DEF Decide
    <2>3. SUFFICES ASSUME NEW s \in Requests
                   PROVE  Grounded(req[s])'
      OBVIOUS
    <2>4. Grounded(req'[s])
      BY <2>1, <2>2 DEF TypeOK
    <2>5. QED
      BY <2>2, <2>4 DEF Grounded
  <1>2. ASSUME NEW l \in LeadIds, NEW actor \in People, NEW link \in Links,
               NEW valued \in BOOLEAN, CreateLead(l, actor, link, valued)
        PROVE  DecisionsHaveGrounds'
    <2>1. \A k \in LeadIds : lead[k].exists => lead'[k].exists
      BY <1>2 DEF CreateLead, TypeOK, NoLead
    <2>2. req' = req /\ qualified' = qualified
      BY <1>2 DEF CreateLead
    <2>3. QED
      BY <2>1, <2>2 DEF Grounded
  <1>3. ASSUME NEW r \in Requests,
               \/ TransitionLead(r) \/ UpdateLead(r) \/ AssignLead(r)
               \/ LogActivity(r) \/ ArchiveAccount(r) \/ Abort(r)
        PROVE  DecisionsHaveGrounds'
    <2>1. req' = [req EXCEPT ![r] = Idle]
      BY <1>3 DEF TransitionLead, UpdateLead, AssignLead, LogActivity, ArchiveAccount,
                  Abort, End
    <2>2. qualified \subseteq qualified'
      BY <1>3 DEF TransitionLead, UpdateLead, AssignLead, LogActivity, ArchiveAccount, Abort
    <2>3. \A k \in LeadIds : lead[k].exists => lead'[k].exists
      <3>1. \A k \in LeadIds : lead[k] \in Lead
        BY DEF TypeOK
      <3>2. CASE TransitionLead(r)
        BY <3>1, <3>2 DEF TransitionLead, TypeOK, Lead
      <3>3. QED
        BY <1>3, <3>2, RowsKept
    <2>4. ASSUME NEW s \in Requests
          PROVE  Grounded(req[s])'
      <3>1. Grounded(req'[s])
        BY <2>1, IdleTyped DEF TypeOK
      <3>2. QED
        BY <2>2, <2>3, <3>1 DEF Grounded
    <2>5. QED
      BY <2>4
  <1>4. CASE UNCHANGED vars
    BY <1>4 DEF vars, Grounded
  <1>5. QED
    BY <1>1, <1>2, <1>3, <1>4, Decisions

\* What a lead is, was told to be and was once: the parts of the invariant
\* that only the creation and the transition of a lead can disturb.
Chronicle ==
    /\ LeadsBeginNew
    /\ RecordMatchesStatus
    /\ ClosingIsTold
    /\ WonWasQualified

LEMMA ChronicleStep ==
    ASSUME TypeOK, DecisionsHaveGrounds, Chronicle, [Next]_vars
    PROVE  Chronicle'
  <1> USE DEF Chronicle, LeadsBeginNew, RecordMatchesStatus, ClosingIsTold, WonWasQualified
  <1>0. ASSUME UNCHANGED <<closedEvent, note, qualified>>,
               \A l \in LeadIds :
                  /\ lead'[l].exists = lead[l].exists /\ lead'[l].status = lead[l].status
                  /\ lead'[l].lostReason = lead[l].lostReason
                  /\ lead'[l].converted = lead[l].converted
        PROVE  Chronicle'
    BY <1>0
  <1>1. CASE DecisionStep
    BY <1>1 DEF DecisionStep, Decide
  <1>2. ASSUME NEW l \in LeadIds, NEW actor \in People, NEW link \in Links,
               NEW valued \in BOOLEAN, CreateLead(l, actor, link, valued)
        PROVE  Chronicle'
    <2>1. /\ lead'[l].exists /\ lead'[l].status = "NEW" /\ ~lead'[l].lostReason
          /\ ~lead'[l].converted /\ lead[l].status = "NEW"
      BY <1>2 DEF CreateLead, NoLead, TypeOK
    <2>2. \A k \in LeadIds \ {l} : lead'[k] = lead[k]
      BY <1>2 DEF CreateLead, TypeOK
    <2>3. UNCHANGED <<closedEvent, note, qualified>>
      BY <1>2 DEF CreateLead
    <2>4. QED
      BY <2>1, <2>2, <2>3
  <1>3. ASSUME NEW r \in Requests, TransitionLead(r)
        PROVE  Chronicle'
    <2> DEFINE l == req[r].lead
               to == req[r].to
    <2>1. /\ l \in LeadIds /\ lead[l].exists /\ to \in Statuses \ {"NEW"}
          /\ to \in {"PROPOSAL", "WON"} => l \in qualified
      BY <1>3 DEF TransitionLead, DecisionsHaveGrounds, Grounded, TypeOK, Request
    <2>2. lead[l] \in Lead
      BY <2>1 DEF TypeOK
    <2>3. /\ lead'[l].exists /\ lead'[l].status = to
          /\ lead'[l].lostReason = (to \in {"LOST", "DISQUALIFIED"})
          /\ lead'[l].converted = (to = "WON")
      BY <1>3, <2>1, <2>2 DEF TransitionLead, TypeOK, Lead
    <2>4. \A k \in LeadIds \ {l} :
             /\ lead'[k] = lead[k] /\ note'[k] = note[k]
             /\ closedEvent'[k] = closedEvent[k]
      BY <1>3, <2>1 DEF TransitionLead, TypeOK
    <2>5. /\ note'[l] = to
          /\ to \in {"WON", "LOST"} => closedEvent'[l] = to
          /\ qualified \subseteq qualified'
          /\ to = "QUALIFIED" => l \in qualified'
      BY <1>3, <2>1 DEF TransitionLead, TypeOK
    <2> HIDE DEF l, to
    <2>6. LeadsBeginNew' /\ RecordMatchesStatus'
      BY <2>1, <2>3, <2>4
    <2>7. ClosingIsTold'
      BY <2>1, <2>3, <2>4, <2>5
    <2>8. WonWasQualified'
      BY <2>1, <2>3, <2>4, <2>5 DEF Statuses, OPEN
    <2>9. QED
      BY <2>6, <2>7, <2>8
  <1>4. ASSUME NEW r \in Requests,
               \/ UpdateLead(r) \/ AssignLead(r) \/ LogActivity(r)
               \/ ArchiveAccount(r) \/ Abort(r)
        PROVE  Chronicle'
    <2>1. UNCHANGED <<closedEvent, note, qualified>>
      BY <1>4 DEF UpdateLead, AssignLead, LogActivity, ArchiveAccount, Abort
    <2>2. QED
      BY <1>0, <1>4, <2>1, RowsKept
  <1>5. CASE UNCHANGED vars
    BY <1>5 DEF vars
  <1>6. QED
    BY <1>1, <1>2, <1>3, <1>4, <1>5, Decisions

-----------------------------------------------------------------------------
\* Where fewer respond and no more was written, the count still holds.
LEMMA FewerRespond ==
    ASSUME NEW l \in LeadIds, lead[l].responses \in Nat,
           lead[l].responses + Cardinality(Responding(l)) <= Cardinality(Requests),
           lead'[l].responses = lead[l].responses,
           Responding(l)' \subseteq Responding(l)
    PROVE  lead'[l].responses + Cardinality(Responding(l)') <= Cardinality(Requests)
  <1>1. Cardinality(Responding(l)') <= Cardinality(Responding(l))
    BY RespondingFinite, FS_Subset
  <1>2. /\ Cardinality(Responding(l)) \in Nat /\ Cardinality(Responding(l)') \in Nat
        /\ Cardinality(Requests) \in Nat
    BY RespondingFinite, LeadsAssumption, FS_Subset, FS_CardinalityType
  <1>3. QED
    BY <1>1, <1>2

\* A request that goes idle responds to nothing any more.
LEMMA IdleRespondsNot ==
    ASSUME TypeOK, NEW r \in Requests, End(r)
    PROVE  \A l : Responding(l)' = Responding(l) \ {r}
  BY IdleTyped DEF End, Responding, Responds, TypeOK

LEMMA ResponsesStep ==
    ASSUME TypeOK, TypeOK', DecisionsHaveGrounds, WonWasQualified,
           ResponsesAreCounted, [Next]_vars
    PROVE  ResponsesAreCounted'
  <1> SUFFICES ASSUME NEW l \in LeadIds
               PROVE  lead'[l].responses + Cardinality(Responding(l)') <= Cardinality(Requests)
    BY DEF ResponsesAreCounted
  <1>1. /\ lead[l].responses \in Nat /\ lead'[l].responses \in Nat
        /\ lead[l].responses + Cardinality(Responding(l)) <= Cardinality(Requests)
        /\ lead[l] \in Lead
    BY DEF TypeOK, Lead, ResponsesAreCounted
  <1>2. /\ Cardinality(Responding(l)) \in Nat /\ Cardinality(Requests) \in Nat
        /\ IsFiniteSet(Responding(l))
    BY RespondingFinite, LeadsAssumption, FS_CardinalityType
  <1>3. /\ Cardinality(Responding(l)') \in Nat
        /\ Cardinality(Responding(l)') <= Cardinality(Requests)
    <2>1. Responding(l)' \subseteq Requests
      BY DEF Responding
    <2>2. QED
      BY <2>1, LeadsAssumption, FS_Subset, FS_CardinalityType
  <1>4. CASE DecisionStep
    <2>1. PICK r \in Requests, q \in Request :
             /\ Decide(r, q)
             /\ Responds(q, l) => lead[l].responses = 0
      BY <1>4 DEF DecisionStep
    <2>2. lead' = lead /\ req' = [req EXCEPT ![r] = q]
      BY <2>1 DEF Decide
    <2>3. CASE Responds(q, l)
      BY <1>3, <2>1, <2>2, <2>3
    <2>4. CASE ~Responds(q, l)
      <3>1. Responding(l)' \subseteq Responding(l)
        BY <2>2, <2>4 DEF Responding, Responds, TypeOK
      <3>2. QED
        BY <1>1, <2>2, <3>1, FewerRespond
    <2>5. QED
      BY <2>3, <2>4
  <1>5. ASSUME NEW k \in LeadIds, NEW actor \in People, NEW link \in Links,
               NEW valued \in BOOLEAN, CreateLead(k, actor, link, valued)
        PROVE  lead'[l].responses + Cardinality(Responding(l)') <= Cardinality(Requests)
    <2>1. CASE k = l
      <3>1. lead'[l].responses = 0
        BY <1>5, <2>1 DEF CreateLead, NoLead, TypeOK
      <3>2. QED
        BY <1>2, <1>3, <3>1
    <2>2. CASE k # l
      <3>1. lead'[l].responses = lead[l].responses
        BY <1>5, <2>2 DEF CreateLead, TypeOK
      <3>2. Responding(l)' = Responding(l)
        BY <1>5 DEF CreateLead, Responding, Responds
      <3>3. QED
        BY <1>1, <3>1, <3>2
    <2>3. QED
      BY <2>1, <2>2
  <1>6. ASSUME NEW r \in Requests, LogActivity(r)
        PROVE  lead'[l].responses + Cardinality(Responding(l)') <= Cardinality(Requests)
    <2>1. Responding(l)' = Responding(l) \ {r}
      BY <1>6, IdleRespondsNot DEF LogActivity
    <2>2. CASE Responds(req[r], l)
      <3>1. lead'[l].responses = lead[l].responses + 1
        BY <1>1, <1>6, <2>2 DEF LogActivity, Responds, TypeOK, Lead
      <3>2. r \in Responding(l)
        BY <2>2 DEF Responding
      <3>3. Cardinality(Responding(l)') = Cardinality(Responding(l)) - 1
        BY <1>2, <2>1, <3>2, FS_RemoveElement
      <3>4. QED
        BY <1>1, <1>2, <3>1, <3>3
    <2>3. CASE ~Responds(req[r], l)
      <3>1. lead'[l].responses = lead[l].responses
        BY <1>1, <1>6, <2>3 DEF LogActivity, Responds, TypeOK, Lead, DecisionsHaveGrounds, Grounded
      <3>2. QED
        BY <1>1, <2>1, <3>1, FewerRespond
    <2>4. QED
      BY <2>2, <2>3
  <1>7. ASSUME NEW r \in Requests,
               \/ TransitionLead(r) \/ UpdateLead(r) \/ AssignLead(r)
               \/ ArchiveAccount(r) \/ Abort(r)
        PROVE  lead'[l].responses + Cardinality(Responding(l)') <= Cardinality(Requests)
    <2>1. lead'[l].responses = lead[l].responses
      <3>1. CASE TransitionLead(r)
        BY <1>1, <3>1 DEF TransitionLead, TypeOK, Lead
      <3>2. CASE UpdateLead(r)
        BY <1>1, <3>2 DEF UpdateLead, TypeOK, Lead
      <3>3. CASE AssignLead(r)
        BY <1>1, <3>3 DEF AssignLead, TypeOK, Lead
      <3>4. CASE ArchiveAccount(r) \/ Abort(r)
        BY <3>4 DEF ArchiveAccount, Abort
      <3>5. QED
        BY <1>7, <3>1, <3>2, <3>3, <3>4
    <2>2. Responding(l)' \subseteq Responding(l)
      BY <1>7, IdleRespondsNot DEF TransitionLead, UpdateLead, AssignLead, ArchiveAccount, Abort
    <2>3. QED
      BY <1>1, <2>1, <2>2, FewerRespond
  <1>8. CASE UNCHANGED vars
    BY <1>1, <1>8 DEF vars, Responding, Responds
  <1>9. QED
    BY <1>4, <1>5, <1>6, <1>7, <1>8, Decisions

-----------------------------------------------------------------------------
\* A request that ends was about to archive what is archived now, or nothing is.
LEMMA CountedEnds ==
    ASSUME TypeOK, NEW r \in Requests, End(r),
           archived' = archived \/ ArchiveAccount(r)
    PROVE  Counted' \subseteq Counted
  BY IdleTyped DEF End, Counted, ArchiveAccount, TypeOK

\* Where one lead at most changes, and what it opens for is called late.
LEMMA CountsKept ==
    ASSUME CountsHold, Counted' \subseteq Counted, NEW status, NEW link,
           \A l \in LeadIds : IsOpen(l)' =>
              \/ IsOpen(l) /\ lead'[l].link = lead[l].link
              \/ status \in OPEN /\ lead'[l].link = link,
           late' = late \cup Belated(status, link)
    PROVE  CountsHold'
  <1> SUFFICES ASSUME NEW a \in Counted', a \notin late', NEW l \in OpenLeads(a)'
               PROVE  FALSE
    BY DEF CountsHold
  <1>1. a \in Counted \ late /\ l \in LeadIds /\ IsOpen(l)' /\ lead'[l].link = a
    BY DEF OpenLeads
  <1>2. CASE IsOpen(l) /\ lead[l].link = a
    BY <1>1, <1>2 DEF CountsHold, OpenLeads
  <1>3. CASE status \in OPEN /\ link = a
    BY <1>1, <1>3 DEF Belated
  <1>4. QED
    BY <1>1, <1>2, <1>3

LEMMA CountsStep ==
    ASSUME TypeOK, DecisionsHaveGrounds, WonWasQualified, CountsHold, [Next]_vars
    PROVE  CountsHold'
  <1>0. /\ \A l \in LeadIds : lead[l] \in Lead
        /\ Belated("WON", NoOne) = {}
    BY DEF TypeOK, Belated, OPEN
  <1>1. CASE DecisionStep
    <2>1. PICK r \in Requests, q \in Request :
             Decide(r, q) /\ (q.op = "archive" => OpenLeads(q.link) = {})
      BY <1>1 DEF DecisionStep
    <2>2. \A a : OpenLeads(a)' = OpenLeads(a)
      BY <2>1 DEF Decide, OpenLeads, IsOpen
    <2>3. Counted' \subseteq Counted \cup (IF q.op = "archive" THEN {q.link} ELSE {})
      BY <2>1 DEF Decide, Counted, TypeOK
    <2>4. QED
      BY <2>1, <2>2, <2>3 DEF Decide, CountsHold
  <1>2. ASSUME NEW l \in LeadIds, NEW actor \in People, NEW link \in Links,
               NEW valued \in BOOLEAN, CreateLead(l, actor, link, valued)
        PROVE  CountsHold'
    <2>1. Counted' = Counted
      BY <1>2 DEF CreateLead, Counted
    <2>2. \A k \in LeadIds : IsOpen(k)' =>
             \/ IsOpen(k) /\ lead'[k].link = lead[k].link
             \/ "NEW" \in OPEN /\ lead'[k].link = link
      BY <1>2 DEF CreateLead, NoLead, IsOpen, OPEN, TypeOK
    <2>3. QED
      BY <1>2, <2>1, <2>2, CountsKept DEF CreateLead
  <1>3. ASSUME NEW r \in Requests, TransitionLead(r)
        PROVE  CountsHold'
    <2> DEFINE l == req[r].lead
    <2>1. l \in LeadIds
      BY <1>3 DEF TransitionLead, DecisionsHaveGrounds, Grounded
    <2>2. Counted' \subseteq Counted
      BY <1>3, CountedEnds DEF TransitionLead
    <2>3. \A k \in LeadIds : IsOpen(k)' =>
             \/ IsOpen(k) /\ lead'[k].link = lead[k].link
             \/ req[r].to \in OPEN /\ lead'[k].link = lead[l].link
      <3>1. lead'[l].status = req[r].to /\ lead'[l].link = lead[l].link
        BY <1>0, <1>3, <2>1 DEF TransitionLead, TypeOK, Lead
      <3>2. \A k \in LeadIds \ {l} : lead'[k] = lead[k]
        BY <1>3, <2>1 DEF TransitionLead, TypeOK
      <3>3. QED
        BY <3>1, <3>2 DEF IsOpen
    <2>4. late' = late \cup Belated(req[r].to, lead[l].link)
      BY <1>3 DEF TransitionLead
    <2>5. QED
      BY <2>2, <2>3, <2>4, CountsKept
  <1>4. ASSUME NEW r \in Requests, UpdateLead(r)
        PROVE  CountsHold'
    <2> DEFINE l == req[r].lead
    <2>1. l \in LeadIds
      BY <1>4 DEF UpdateLead, DecisionsHaveGrounds, Grounded
    <2>2. Counted' \subseteq Counted
      BY <1>4, CountedEnds DEF UpdateLead
    <2>3. \A k \in LeadIds : IsOpen(k)' =>
             \/ IsOpen(k) /\ lead'[k].link = lead[k].link
             \/ lead[l].status \in OPEN /\ lead'[k].link = req[r].link
      <3>1. lead'[l].status = lead[l].status /\ lead'[l].link = req[r].link
        BY <1>0, <1>4, <2>1 DEF UpdateLead, TypeOK, Lead
      <3>2. \A k \in LeadIds \ {l} : lead'[k] = lead[k]
        BY <1>4, <2>1 DEF UpdateLead, TypeOK
      <3>3. QED
        BY <3>1, <3>2 DEF IsOpen
    <2>4. late' = late \cup Belated(lead[l].status, req[r].link)
      BY <1>4 DEF UpdateLead
    <2>5. QED
      BY <2>2, <2>3, <2>4, CountsKept
  <1>5. ASSUME NEW r \in Requests,
               AssignLead(r) \/ LogActivity(r) \/ ArchiveAccount(r) \/ Abort(r)
        PROVE  CountsHold'
    <2>1. Counted' \subseteq Counted /\ late' = late
      BY <1>5, CountedEnds DEF AssignLead, LogActivity, ArchiveAccount, Abort
    <2>2. \A l \in LeadIds : lead'[l].link = lead[l].link
      <3>1. CASE AssignLead(r)
        BY <1>0, <3>1 DEF AssignLead, TypeOK, Lead
      <3>2. CASE LogActivity(r)
        BY <1>0, <3>2 DEF LogActivity, TypeOK, Lead
      <3>3. CASE ArchiveAccount(r) \/ Abort(r)
        BY <3>3 DEF ArchiveAccount, Abort
      <3>4. QED
        BY <1>5, <3>1, <3>2, <3>3
    <2>3. \A l \in LeadIds : IsOpen(l)' => IsOpen(l)
      BY <1>5, RowsKept DEF IsOpen
    <2>4. QED
      BY <1>0, <2>1, <2>2, <2>3, CountsKept
  <1>6. CASE UNCHANGED vars
    BY <1>6 DEF vars, CountsHold, Counted, OpenLeads, IsOpen
  <1>7. QED
    BY <1>1, <1>2, <1>3, <1>4, <1>5, <1>6, Decisions

-----------------------------------------------------------------------------
LEMMA InitHolds == Init => IInv
  <1> SUFFICES ASSUME Init
               PROVE  IInv
    OBVIOUS
  <1>1. TypeOK
    BY IdleTyped DEF Init, TypeOK, Lead, NoLead, Statuses, OPEN, Links
  <1>2. DecisionsHaveGrounds
    BY IdleTyped DEF Init, DecisionsHaveGrounds
  <1>3. LeadsBeginNew /\ RecordMatchesStatus /\ ClosingIsTold /\ WonWasQualified
    BY DEF Init, NoLead, LeadsBeginNew, RecordMatchesStatus, ClosingIsTold, WonWasQualified
  <1>4. ResponsesAreCounted
    <2>1. ASSUME NEW l \in LeadIds
          PROVE  lead[l].responses = 0
      BY DEF Init, NoLead
    <2>2. Cardinality(Requests) \in Nat
      BY LeadsAssumption, FS_CardinalityType
    <2>3. QED
      BY <2>1, <2>2, RespondingFinite DEF ResponsesAreCounted
  <1>5. CountsHold
    BY DEF Init, NoLead, CountsHold, OpenLeads, IsOpen
  <1>6. QED
    BY <1>1, <1>2, <1>3, <1>4, <1>5 DEF IInv

LEMMA StepHolds == IInv /\ [Next]_vars => IInv'
  <1> SUFFICES ASSUME IInv, [Next]_vars
               PROVE  IInv'
    OBVIOUS
  <1>1. Chronicle
    BY DEF IInv, Chronicle
  <1>2. TypeOK'
    BY TypeStep DEF IInv
  <1>3. DecisionsHaveGrounds'
    BY GroundsStep DEF IInv
  <1>4. Chronicle'
    BY <1>1, ChronicleStep DEF IInv
  <1>5. ResponsesAreCounted'
    BY <1>2, ResponsesStep DEF IInv
  <1>6. CountsHold'
    BY CountsStep DEF IInv
  <1>7. QED
    BY <1>2, <1>3, <1>4, <1>5, <1>6 DEF IInv, Chronicle

\* The inductive invariant holds in every behaviour of the leads' requests
\* (leads.ts:206-395).
THEOREM Inductive == Spec => []IInv
  BY InitHolds, StepHolds, PTL DEF Spec

\* Rows, requests and what was told about leads keep their types, whatever
\* overtakes what (leads.ts:206-395).
THEOREM TypeCorrect == Spec => []TypeOK
  <1>1. IInv => TypeOK
    BY DEF IInv
  <1>2. QED
    BY <1>1, Inductive, PTL

\* A lead has a reason exactly when it is lost or disqualified and a
\* conversion date exactly when it is won (leads.ts:303-313).
THEOREM RecordsMatch == Spec => []RecordMatchesStatus
  <1>1. IInv => RecordMatchesStatus
    BY DEF IInv
  <1>2. QED
    BY <1>1, Inductive, PTL

\* The latest closing event and the timeline agree with the status of the
\* lead (leads.ts:303-353).
THEOREM ClosingsAreTold == Spec => []ClosingIsTold
  <1>1. IInv => ClosingIsTold
    BY DEF IInv
  <1>2. QED
    BY <1>1, Inductive, PTL

\* Only a lead that was qualified at some time is proposed to or won, although
\* transitions may be written late (lead-policy.ts:16-29).
THEOREM WinsWereQualified == Spec => []WonWasQualified
  <1>1. IInv => WonWasQualified
    BY DEF IInv
  <1>2. QED
    BY <1>1, Inductive, PTL

\* The date of the first response is written no more often than requests can
\* overlap (activities.ts:107-116).
THEOREM FirstResponsesAreBounded == Spec => []FirstResponseIsBounded
  <1>1. IInv => FirstResponseIsBounded
    <2> SUFFICES ASSUME IInv, NEW l \in LeadIds
                 PROVE  lead[l].responses <= Cardinality(Requests)
      BY DEF FirstResponseIsBounded
    <2>1. /\ lead[l].responses \in Nat
          /\ lead[l].responses + Cardinality(Responding(l)) <= Cardinality(Requests)
      BY DEF IInv, TypeOK, Lead, ResponsesAreCounted
    <2>2. Cardinality(Responding(l)) \in Nat /\ Cardinality(Requests) \in Nat
      BY RespondingFinite, LeadsAssumption, FS_CardinalityType
    <2>3. QED
      BY <2>1, <2>2
  <1>2. QED
    BY <1>1, Inductive, PTL

\* An archived account has open leads only of those that were created, linked
\* or reopened after its leads were last counted (accounts.ts:135-147).
THEOREM ArchivedAreClosed == Spec => []ArchivedIsClosed
  <1>1. IInv => ArchivedIsClosed
    BY DEF IInv, CountsHold, ArchivedIsClosed, Counted
  <1>2. QED
    BY <1>1, Inductive, PTL

-----------------------------------------------------------------------------
(* DocumentNumbers: the row, and the numbers it has issued. *)

\* The first part of the numbers the row is about to issue.
Series(state) == IF ResetYearly THEN state.year ELSE NoYear

RowIsExclusive ==
    \A r, s \in Creations : At(r, "numbered") /\ At(s, "numbered") => r = s

HolderIsCurrent ==
    \A r \in Creations : At(r, "numbered") => creation[r].state = row

\* The numbers of the row's own series are exactly those below next_value.
RowEndsItsSeries ==
    /\ \A n \in issued : n[1] = Series(row) => n[2] < row.nextValue
    /\ \A v \in 1..(row.nextValue - 1) : <<Series(row), v>> \in issued

NumbersIInv ==
    /\ NumbersTypeOK
    /\ RowIsExclusive
    /\ HolderIsCurrent
    /\ RowEndsItsSeries
    /\ GapFree

-----------------------------------------------------------------------------
\* What allocate makes of a locked row is a row again, and a number.
LEMMA AllocateTypes ==
    ASSUME NEW state \in SequenceState, NEW now \in Years
    PROVE  /\ Value(state, now) \in Nat \ {0}
           /\ NextState(state, now) \in SequenceState
           /\ Number(state, now) \in (Years \cup {NoYear}) \X (Nat \ {0})
  BY NumbersAssumption DEF Value, Rollover, NextState, Number, SequenceState

LEMMA NoCreationType ==
    NoCreation \in Creation /\ Fresh \in SequenceState /\ FirstYear \in Years
  BY NumbersAssumption DEF NoCreation, Fresh, Creation, SequenceState, Years, NoYear

LEMMA NumbersTypeStep == NumbersTypeOK /\ [NumbersNext]_numbersVars => NumbersTypeOK'
  <1> SUFFICES ASSUME NumbersTypeOK, [NumbersNext]_numbersVars
               PROVE  NumbersTypeOK'
    OBVIOUS
  <1> USE DEF NumbersTypeOK
  <1>1. ASSUME NEW r \in Creations, Begin(r)
        PROVE  NumbersTypeOK'
    BY <1>1, NoCreationType DEF Begin, Creation
  <1>2. ASSUME NEW r \in Creations, SelectForUpdate(r)
        PROVE  NumbersTypeOK'
    BY <1>2 DEF SelectForUpdate, Creation
  <1>3. ASSUME NEW r \in Creations, CommitLead(r)
        PROVE  NumbersTypeOK'
    BY <1>3, NoCreationType, AllocateTypes DEF CommitLead, NumberOf, Creation
  <1>4. ASSUME NEW r \in Creations, Collide(r) \/ RollBack(r)
        PROVE  NumbersTypeOK'
    BY <1>4, NoCreationType DEF Collide, RollBack
  <1>5. CASE NewYear
    BY <1>5, NumbersAssumption DEF NewYear, Years
  <1>6. CASE UNCHANGED numbersVars
    BY <1>6 DEF numbersVars
  <1>7. QED
    BY <1>1, <1>2, <1>3, <1>4, <1>5, <1>6 DEF NumbersNext

-----------------------------------------------------------------------------
\* The row has one holder at most, and changes only with its holder's end.
LEMMA HolderStep ==
    NumbersTypeOK /\ RowIsExclusive /\ HolderIsCurrent /\ [NumbersNext]_numbersVars
       => RowIsExclusive' /\ HolderIsCurrent'
  <1> SUFFICES ASSUME NumbersTypeOK, RowIsExclusive, HolderIsCurrent, [NumbersNext]_numbersVars
               PROVE  RowIsExclusive' /\ HolderIsCurrent'
    OBVIOUS
  <1> USE DEF NumbersTypeOK, RowIsExclusive, HolderIsCurrent, At
  <1>1. ASSUME NEW r \in Creations, Begin(r)
        PROVE  RowIsExclusive' /\ HolderIsCurrent'
    BY <1>1 DEF Begin
  <1>2. ASSUME NEW r \in Creations, SelectForUpdate(r)
        PROVE  RowIsExclusive' /\ HolderIsCurrent'
    BY <1>2 DEF SelectForUpdate
  <1>3. ASSUME NEW r \in Creations, CommitLead(r)
        PROVE  RowIsExclusive' /\ HolderIsCurrent'
    BY <1>3 DEF CommitLead, NoCreation
  <1>4. ASSUME NEW r \in Creations, Collide(r) \/ RollBack(r)
        PROVE  RowIsExclusive' /\ HolderIsCurrent'
    BY <1>4 DEF Collide, RollBack, NoCreation
  <1>5. CASE NewYear
    BY <1>5 DEF NewYear
  <1>6. CASE UNCHANGED numbersVars
    BY <1>6 DEF numbersVars
  <1>7. QED
    BY <1>1, <1>2, <1>3, <1>4, <1>5, <1>6 DEF NumbersNext

-----------------------------------------------------------------------------
(* The arithmetic: what a commit does to the numbers. *)

\* The number a holder commits is the next of the row's series, or the first
\* of a series that has none yet.
LEMMA CommitExtends ==
    ASSUME NumbersIInv, NEW r \in Creations, CommitLead(r)
    PROVE  /\ RowEndsItsSeries'
           /\ GapFree'
  <1> DEFINE now == creation[r].now
             n == Number(row, now)
  <1>1. /\ creation[r].state = row /\ n \notin issued
        /\ row' = NextState(row, now) /\ issued' = issued \cup {n}
    BY DEF CommitLead, NumbersIInv, HolderIsCurrent, NumberOf
  <1>2. /\ now \in Years /\ row \in SequenceState
        /\ \A m \in issued : m \in (Years \cup {NoYear}) \X (Nat \ {0})
    BY DEF NumbersIInv, NumbersTypeOK, Creation
  <1>3. /\ Value(row, now) \in Nat \ {0}
        /\ n = <<Series(row'), Value(row, now)>>
        /\ row'.nextValue = Value(row, now) + 1
    BY <1>1, <1>2, AllocateTypes DEF Number, NextState, Series
  <1>4. \A v \in 1..(Value(row, now) - 1) : <<Series(row'), v>> \in issued
    <2>1. CASE Rollover(row, now)
      BY <2>1 DEF Value
    <2>2. CASE ~Rollover(row, now)
      BY <1>1, <1>2, <2>2 DEF Value, Rollover, NextState, Series, NumbersIInv, RowEndsItsSeries
    <2>3. QED
      BY <2>1, <2>2
  <1>5. \A m \in issued : m[1] = Series(row') => m[2] < Value(row, now)
    <2>1. CASE Rollover(row, now)
      \* <<now, 1>> is not issued, so by GapFree nothing of that year is.
      <3>1. Value(row, now) = 1
        BY <2>1 DEF Value
      <3>2. ASSUME NEW m \in issued, m[1] = Series(row')
            PROVE  <<Series(row'), 1>> \in issued
        BY <1>2, <3>2 DEF NumbersIInv, GapFree
      <3>3. QED
        BY <1>1, <1>3, <3>1, <3>2
    <2>2. CASE ~Rollover(row, now)
      BY <1>1, <1>2, <2>2 DEF Value, Rollover, NextState, Series, NumbersIInv, RowEndsItsSeries
    <2>3. QED
      BY <2>1, <2>2
  <1>6. RowEndsItsSeries'
    <2>1. \A m \in issued' : m[1] = Series(row') => m[2] < row'.nextValue
      BY <1>1, <1>2, <1>3, <1>5
    <2>2. \A v \in 1..(row'.nextValue - 1) : <<Series(row'), v>> \in issued'
      BY <1>1, <1>3, <1>4
    <2>3. QED
      BY <2>1, <2>2 DEF RowEndsItsSeries, Series
  <1>7. GapFree'
    <2>1. ASSUME NEW m \in issued, NEW v \in 1..m[2]
          PROVE  <<m[1], v>> \in issued'
      BY <1>1, <2>1 DEF NumbersIInv, GapFree
    <2>2. ASSUME NEW v \in 1..n[2]
          PROVE  <<n[1], v>> \in issued'
      <3>1. n[1] = Series(row') /\ n[2] = Value(row, now)
        BY <1>3
      <3>2. v = Value(row, now) \/ v \in 1..(Value(row, now) - 1)
        BY <1>3, <2>2, <3>1
      <3>3. CASE v = Value(row, now)
        BY <1>1, <1>3, <3>1, <3>3
      <3>4. CASE v \in 1..(Value(row, now) - 1)
        BY <1>1, <1>4, <3>1, <3>4
      <3>5. QED
        BY <3>2, <3>3, <3>4
    <2>3. QED
      BY <1>1, <2>1, <2>2 DEF GapFree
  <1>8. QED
    BY <1>6, <1>7

LEMMA NumberingStep ==
    NumbersIInv /\ [NumbersNext]_numbersVars => RowEndsItsSeries' /\ GapFree'
  <1> SUFFICES ASSUME NumbersIInv, [NumbersNext]_numbersVars
               PROVE  RowEndsItsSeries' /\ GapFree'
    OBVIOUS
  <1>1. CASE \E r \in Creations : CommitLead(r)
    BY <1>1, CommitExtends
  <1>2. CASE UNCHANGED <<row, issued>>
    BY <1>2 DEF NumbersIInv, RowEndsItsSeries, GapFree, Series
  <1>3. QED
    BY <1>1, <1>2 DEF NumbersNext, Begin, SelectForUpdate, Collide, RollBack, NewYear, numbersVars

-----------------------------------------------------------------------------
LEMMA NumbersInitEstablishes == NumbersInit => NumbersIInv
  BY NoCreationType, NumbersAssumption
     DEF NumbersInit, NumbersIInv, NumbersTypeOK, RowIsExclusive, HolderIsCurrent,
         RowEndsItsSeries, GapFree, Fresh, NoCreation, At, Years, NoYear

\* Every reachable state satisfies the inductive invariant.
THEOREM NumbersInductive == NumbersSpec => []NumbersIInv
  <1>1. NumbersInit => NumbersIInv
    BY NumbersInitEstablishes
  <1>2. NumbersIInv /\ [NumbersNext]_numbersVars => NumbersIInv'
    BY NumbersTypeStep, HolderStep, NumberingStep DEF NumbersIInv
  <1>3. QED
    BY <1>1, <1>2, PTL DEF NumbersSpec

\* The sequence row and the requests are what their types say (sequences.ts).
THEOREM NumbersTypeCorrect == NumbersSpec => []NumbersTypeOK
  <1>1. NumbersIInv => NumbersTypeOK
    BY DEF NumbersIInv
  <1>2. QED
    BY <1>1, NumbersInductive, PTL

\* Committed documents leave no gap in any year, whatever rolls back and
\* whenever the year changes (sequences.ts:5-12).
THEOREM NoGaps == NumbersSpec => []GapFree
  <1>1. NumbersIInv => GapFree
    BY DEF NumbersIInv
  <1>2. QED
    BY <1>1, NumbersInductive, PTL

\* A transaction meets a taken number only if its date and the row disagree
\* about the year (sequences.ts:8-10).
THEOREM QueueWithinAYear == NumbersSpec => []CollidesOnlyAtRollover
  <1>1. NumbersIInv => CollidesOnlyAtRollover
    <2> SUFFICES ASSUME NumbersIInv, NEW r \in Creations, At(r, "numbered"),
                        NumberOf(r) \in issued,
                        ~Rollover(creation[r].state, creation[r].now)
                 PROVE  FALSE
      BY DEF CollidesOnlyAtRollover, Rollover
    <2>1. creation[r].state = row /\ row \in SequenceState
      BY DEF NumbersIInv, HolderIsCurrent, NumbersTypeOK
    <2>2. NumberOf(r) = <<Series(row), row.nextValue>>
      BY <2>1 DEF NumberOf, Number, Value, Rollover, Series
    <2>3. row.nextValue < row.nextValue
      BY <2>2 DEF NumbersIInv, RowEndsItsSeries
    <2>4. QED
      BY <2>1, <2>3 DEF SequenceState
  <1>2. QED
    BY <1>1, NumbersInductive, PTL
=============================================================================
