-------------------------- MODULE InvitationsProofs --------------------------
(***************************************************************************)
(* Proofs about Invitations, for any number of invitations, people and     *)
(* requests.  The argument: an invitation that a transaction has updated   *)
(* is locked by it alone, so it stays unanswered until that transaction    *)
(* ends; every answer is given either under that lock or to a row nobody   *)
(* has locked.  For the limit, what is pending and what is counted but not *)
(* yet inserted are weighed together.  The links to one address are        *)
(* weighed against every set of requests that may still replace them: what *)
(* none of the set has seen, and one link for each of it.                  *)
(***************************************************************************)
EXTENDS Invitations, FiniteSetTheorems, TLAPS

LocksAreExclusive ==
    \A r, s \in Requests : r # s => Locked(r) \cap Locked(s) = {}

LockedAreUnanswered ==
    \A r \in Requests : \A i \in Locked(r) : Unanswered(i)

\* A row that does not exist is not used up, and one that does has an address.
BlankBefore == \A i \in Ids : ~inv[i].exists => ~inv[i].accepted
AreAddressed == \A i \in Ids : inv[i].exists => inv[i].email \in People

\* What a request has read of its address and its invitations stays true:
\* neither the address nor the role of an invitation is ever written again.
HasRead(q) ==
    /\ q.phase # "idle" => q.email \in People
    /\ \A i \in q.ids : inv[i].exists
    /\ q.phase \in {"found", "claimed"} =>
          \E i \in Ids : q.ids = {i} /\ inv[i].email = q.email /\ inv[i].role = q.role

ReadsHold == \A r \in Requests : HasRead(req[r])

\* What a new invitation is about to replace, as far as it still counts.
Own(r) == {i \in req[r].ids : ~inv[i].expired}

\* Requests that have counted and will add to what is pending.
Adding == {r \in Requests : At(r, "counted") /\ Own(r) = {}}

PendingSet == {i \in Ids : Pending(i)}

\* A request counts while fewer than the limit are pending, so what is pending
\* and what will be, together, exceed that by no more than the requests.
WeightIsBounded ==
    Cardinality(PendingSet) + Cardinality(Adding)
        <= MAX_PENDING_INVITATIONS - 1 + Cardinality(Requests)

\* The requests that replace the links to an address, from their snapshot on,
\* and the links that a set of them has not seen, which outlive their commits.
Replacing(p) ==
    {r \in Requests : req[r].phase \in {"revoking", "revoked", "counted"} /\ req[r].email = p}
UnseenBy(J, p) == {i \in LinksTo(p) : \A r \in J : i \notin req[r].ids}

\* Were those requests to commit now, one after the other, each would add one
\* link to what none of them has seen.
UnseenAreFew ==
    \A p \in People : \A J \in SUBSET Replacing(p) :
       Cardinality(UnseenBy(J, p)) + Cardinality(J) <= Cardinality(Requests)

IInv ==
    /\ TypeOK
    /\ LocksAreExclusive
    /\ LockedAreUnanswered
    /\ BlankBefore
    /\ AreAddressed
    /\ ReadsHold
    /\ AnsweredOnce
    /\ WeightIsBounded
    /\ UnseenAreFew

-----------------------------------------------------------------------------
LEMMA IdleTyped ==
    Idle \in Request /\ Idle.phase = "idle" /\ Idle.ids = {} /\ HasRead(Idle)
  BY InvitationsAssumption DEF Idle, Request, Phases, HasRead

LEMMA NoInvitationTyped == NoInvitation \in Invitation
  BY InvitationsAssumption DEF NoInvitation, Invitation

LEMMA TypeStep ==
    ASSUME TypeOK, ReadsHold, [Next]_vars
    PROVE  TypeOK'
  <1> USE DEF TypeOK, At
  <1>1. ASSUME NEW r \in Requests, NEW email \in People, NEW invited \in Roles,
               StartCreate(r, email, invited), UNCHANGED <<inv, role>>
        PROVE  TypeOK'
    BY <1>1, IdleTyped DEF StartCreate, Idle, Request, Phases
  <1>2. ASSUME NEW r \in Requests, NEW email \in People, NEW actorRole \in Roles,
               NEW invited \in Roles, InviteMember(r, email, actorRole, invited)
        PROVE  TypeOK'
    BY <1>1, <1>2 DEF InviteMember
  <1>3. ASSUME NEW r \in Requests, NEW i \in Ids, NEW actorRole \in Roles,
               ReissueInvitation(r, i, actorRole)
        PROVE  TypeOK'
    <2>1. inv[i].role \in Roles /\ inv[i].email \in People \cup {NoOne}
      BY DEF Invitation
    <2> DEFINE q == [Idle EXCEPT !.phase = "asked", !.email = inv[i].email, !.role = inv[i].role]
    <2>2. q \in Request
      BY <2>1, IdleTyped DEF Request, Phases, Idle
    <2>3. req' = [req EXCEPT ![r] = q] /\ inv' = inv /\ role' = role
      BY <1>3 DEF ReissueInvitation, StartCreate
    <2> HIDE DEF q
    <2>4. QED
      BY <2>2, <2>3
  <1>4. ASSUME NEW r \in Requests, End(r), inv' = inv, role' = role
        PROVE  TypeOK'
    BY <1>4, IdleTyped DEF End
  <1>5. ASSUME NEW r \in Requests,
               \/ AlreadyMember(r) \/ LimitReached(r) \/ ClaimFindsNothing(r)
               \/ JoinedAlready(r) \/ Abort(r)
        PROVE  TypeOK'
    BY <1>4, <1>5 DEF AlreadyMember, LimitReached, ClaimFindsNothing, JoinedAlready, Abort
  <1>6. ASSUME NEW r \in Requests,
               CheckMember(r) \/ CountPending(r) \/ ClaimInvitation(r)
        PROVE  TypeOK'
    BY <1>6 DEF CheckMember, CountPending, ClaimInvitation, Request, Phases
  <1>7. ASSUME NEW r \in Requests, BeginRevokeOld(r) \/ EndRevokeOld(r)
        PROVE  TypeOK'
    <2>1. \A q \in Request, ids \in SUBSET Ids :
             /\ [q EXCEPT !.phase = "revoking", !.ids = ids] \in Request
             /\ [q EXCEPT !.phase = "revoked", !.ids = ids] \in Request
      BY DEF Request, Phases
    <2>2. /\ req[r] \in Request /\ req[r].ids \subseteq Ids
          /\ LinksTo(req[r].email) \in SUBSET Ids
      BY DEF Request, LinksTo
    <2>3. CASE BeginRevokeOld(r)
      BY <2>1, <2>2, <2>3 DEF BeginRevokeOld
    <2>4. CASE EndRevokeOld(r)
      BY <2>1, <2>2, <2>4 DEF EndRevokeOld
    <2>5. QED
      BY <1>7, <2>3, <2>4
  <1>8. ASSUME NEW r \in Requests, NEW n \in Ids, CreateInvitation(r, n)
        PROVE  TypeOK'
    <2> DEFINE new == [NoInvitation EXCEPT !.exists = TRUE,
                         !.email = req[r].email, !.role = req[r].role]
    <2>1. new \in Invitation
      BY NoInvitationTyped DEF Invitation, Request, NoInvitation
    <2>2. \A i \in Ids : [inv[i] EXCEPT !.revoked = TRUE] \in Invitation
      BY DEF Invitation
    <2>3. inv' \in [Ids -> Invitation]
      <3> HIDE DEF new
      <3>1. inv' = [i \in Ids |-> IF i = n THEN new
                                  ELSE IF i \in req[r].ids THEN [inv[i] EXCEPT !.revoked = TRUE]
                                  ELSE inv[i]]
        BY <1>8 DEF CreateInvitation, new
      <3>2. QED
        BY <2>1, <2>2, <3>1
    <2>4. QED
      BY <1>8, <2>3, IdleTyped DEF CreateInvitation, End
  <1>9. ASSUME NEW i \in Ids, RevokeInvitation(i) \/ Expire(i)
        PROVE  TypeOK'
    <2>1. inv[i] \in Invitation
      OBVIOUS
    <2>2. /\ [inv[i] EXCEPT !.revoked = TRUE] \in Invitation
          /\ [inv[i] EXCEPT !.expired = TRUE] \in Invitation
      BY <2>1 DEF Invitation
    <2>3. QED
      BY <1>9, <2>2 DEF RevokeInvitation, Expire
  <1>10. ASSUME NEW r \in Requests, NEW i \in Ids, NEW p \in People, FindInvitation(r, i, p)
         PROVE  TypeOK'
    <2>1. inv[i].role \in Roles
      BY DEF Invitation
    <2> DEFINE q == [Idle EXCEPT !.phase = "found", !.email = p, !.role = inv[i].role, !.ids = {i}]
    <2>2. q \in Request
      BY <2>1, IdleTyped DEF Request, Phases, Idle
    <2>3. req' = [req EXCEPT ![r] = q] /\ inv' = inv /\ role' = role
      BY <1>10 DEF FindInvitation
    <2> HIDE DEF q
    <2>4. QED
      BY <2>2, <2>3
  <1>11. ASSUME NEW r \in Requests, AcceptInvitation(r)
         PROVE  TypeOK'
    <2>1. \A i \in Ids : [inv[i] EXCEPT !.accepted = TRUE] \in Invitation
      BY DEF Invitation
    <2>2. inv' \in [Ids -> Invitation]
      BY <1>11, <2>1 DEF AcceptInvitation
    <2>3. req[r].role \in Roles
      BY DEF Request
    <2>4. QED
      BY <1>11, <2>2, <2>3, IdleTyped DEF AcceptInvitation, End
  <1>12. ASSUME NEW p \in People, RemoveMember(p)
         PROVE  TypeOK'
    BY <1>12 DEF RemoveMember
  <1>13. CASE UNCHANGED vars
    BY <1>13 DEF vars
  <1>14. QED
    BY <1>2, <1>3, <1>5, <1>6, <1>7, <1>8, <1>9, <1>10, <1>11, <1>12, <1>13 DEF Next

-----------------------------------------------------------------------------
\* An invitation's address and role are those it was created with.
LEMMA IdentityKept ==
    ASSUME TypeOK, [Next]_vars, NEW i \in Ids, inv[i].exists
    PROVE  inv'[i].exists /\ inv'[i].email = inv[i].email /\ inv'[i].role = inv[i].role
  <1>1. inv[i] \in Invitation
    BY DEF TypeOK
  <1>2. ASSUME NEW r \in Requests, NEW n \in Ids, CreateInvitation(r, n)
        PROVE  inv'[i].exists /\ inv'[i].email = inv[i].email /\ inv'[i].role = inv[i].role
    BY <1>1, <1>2 DEF CreateInvitation, Invitation
  <1>3. ASSUME NEW j \in Ids, RevokeInvitation(j) \/ Expire(j)
        PROVE  inv'[i].exists /\ inv'[i].email = inv[i].email /\ inv'[i].role = inv[i].role
    BY <1>1, <1>3 DEF RevokeInvitation, Expire, Invitation, TypeOK
  <1>4. ASSUME NEW r \in Requests, AcceptInvitation(r)
        PROVE  inv'[i].exists /\ inv'[i].email = inv[i].email /\ inv'[i].role = inv[i].role
    BY <1>1, <1>4 DEF AcceptInvitation, Invitation
  <1>5. QED
    BY <1>1, <1>2, <1>3, <1>4
       DEF Next, vars, InviteMember, ReissueInvitation, AlreadyMember, CheckMember,
           BeginRevokeOld, EndRevokeOld, CountPending, LimitReached, ClaimInvitation,
           ClaimFindsNothing, JoinedAlready, Abort, FindInvitation, RemoveMember

\* How a step changes the requests: not at all, one ends, or one goes on
\* without touching the invitations.
GoesOn(r, q) ==
    /\ req' = [req EXCEPT ![r] = q]
    /\ UNCHANGED <<inv, role>>
    /\ HasRead(q)
    /\ \/ q.phase \notin {"revoking", "revoked", "counted", "claimed"}
       \/ q.phase = "revoking" /\ q.ids = LinksTo(q.email)
       \/ /\ q.phase \in {"revoked", "claimed"}
          /\ q.ids \cap LockedByOthers(r) = {}
          /\ \A i \in q.ids : Unanswered(i)
          /\ q.phase = "revoked" =>
                /\ req[r].phase = "revoking" /\ q.email = req[r].email
                /\ \A i \in req[r].ids : Unanswered(i) => i \in q.ids
       \/ /\ q.phase = "counted" /\ req[r].phase = "revoked"
          /\ q.email = req[r].email /\ q.ids = req[r].ids
          /\ Cardinality(PendingSeenBy(r)) < MAX_PENDING_INVITATIONS

LEMMA RequestCases ==
    ASSUME TypeOK, AreAddressed, ReadsHold, [Next]_vars
    PROVE  \/ req' = req
           \/ \E r \in Requests : End(r)
           \/ \E r \in Requests, q \in Request : GoesOn(r, q)
  <1> USE DEF GoesOn, HasRead
  <1>0. \A r \in Requests : req[r] \in Request /\ HasRead(req[r])
    BY DEF TypeOK, ReadsHold
  <1>1. ASSUME NEW r \in Requests, NEW email \in People, NEW actorRole \in Roles,
               NEW invited \in Roles, InviteMember(r, email, actorRole, invited)
        PROVE  \E q \in Request : GoesOn(r, q)
    <2> DEFINE q == [Idle EXCEPT !.phase = "asked", !.email = email, !.role = invited]
    <2>1. q \in Request /\ q.phase = "asked" /\ q.email = email /\ q.ids = {}
      BY IdleTyped DEF Idle, Request, Phases
    <2>2. req' = [req EXCEPT ![r] = q] /\ UNCHANGED <<inv, role>>
      BY <1>1 DEF InviteMember, StartCreate
    <2> HIDE DEF q
    <2>3. QED
      BY <2>1, <2>2
  <1>2. ASSUME NEW r \in Requests, NEW i \in Ids, NEW actorRole \in Roles,
               ReissueInvitation(r, i, actorRole), inv[i].email \in People
        PROVE  \E q \in Request : GoesOn(r, q)
    <2> DEFINE q == [Idle EXCEPT !.phase = "asked", !.email = inv[i].email, !.role = inv[i].role]
    <2>0. inv[i].role \in Roles
      BY DEF TypeOK, Invitation
    <2>1. q \in Request /\ q.phase = "asked" /\ q.email = inv[i].email /\ q.ids = {}
      BY <1>2, <2>0, IdleTyped DEF Idle, Request, Phases
    <2>2. req' = [req EXCEPT ![r] = q] /\ UNCHANGED <<inv, role>>
      BY <1>2 DEF ReissueInvitation, StartCreate
    <2> HIDE DEF q
    <2>3. QED
      BY <1>2, <2>1, <2>2
  <1>3. ASSUME NEW r \in Requests, CheckMember(r)
        PROVE  \E q \in Request : GoesOn(r, q)
    <2> DEFINE q == [req[r] EXCEPT !.phase = "checked"]
    <2>1. /\ q \in Request /\ q.phase = "checked" /\ q.email = req[r].email
          /\ q.ids = req[r].ids
      BY <1>0 DEF Request, Phases
    <2>2. req' = [req EXCEPT ![r] = q] /\ UNCHANGED <<inv, role>> /\ req[r].phase = "asked"
      BY <1>3 DEF CheckMember, At, TypeOK
    <2> HIDE DEF q
    <2>3. QED
      BY <1>0, <2>1, <2>2
  <1>4. ASSUME NEW r \in Requests, BeginRevokeOld(r)
        PROVE  \E q \in Request : GoesOn(r, q)
    <2> DEFINE old == LinksTo(req[r].email)
               q == [req[r] EXCEPT !.phase = "revoking", !.ids = old]
    <2>1. \A i \in old : inv[i].exists
      BY DEF LinksTo, Unanswered
    <2>2. old \subseteq Ids
      BY DEF LinksTo
    <2>3. req' = [req EXCEPT ![r] = q] /\ UNCHANGED <<inv, role>> /\ req[r].phase = "checked"
      BY <1>4 DEF BeginRevokeOld, At, TypeOK
    <2> HIDE DEF old
    <2>4. q \in Request /\ q.phase = "revoking" /\ q.email = req[r].email /\ q.ids = old
      BY <1>0, <2>2 DEF Request, Phases
    <2>5. q.ids = LinksTo(q.email)
      BY <2>4 DEF old
    <2> HIDE DEF q
    <2>6. QED
      BY <1>0, <2>1, <2>3, <2>4, <2>5
  <1>5. ASSUME NEW r \in Requests, EndRevokeOld(r)
        PROVE  \E q \in Request : GoesOn(r, q)
    <2> DEFINE old == {i \in req[r].ids : Unanswered(i)}
               q == [req[r] EXCEPT !.phase = "revoked", !.ids = old]
    <2>1. /\ \A i \in old : inv[i].exists /\ Unanswered(i)
          /\ old \subseteq req[r].ids
          /\ \A i \in req[r].ids : Unanswered(i) => i \in old
      BY DEF Unanswered
    <2>2. /\ req' = [req EXCEPT ![r] = q] /\ UNCHANGED <<inv, role>>
          /\ req[r].phase = "revoking" /\ req[r].ids \cap LockedByOthers(r) = {}
      BY <1>5 DEF EndRevokeOld, At, TypeOK
    <2> HIDE DEF old
    <2>3. q \in Request /\ q.phase = "revoked" /\ q.email = req[r].email /\ q.ids = old
      BY <1>0, <2>1 DEF Request, Phases
    <2> HIDE DEF q
    <2>4. HasRead(q)
      BY <1>0, <2>1, <2>2, <2>3
    <2>5. QED
      BY <2>1, <2>2, <2>3, <2>4
  <1>6. ASSUME NEW r \in Requests, CountPending(r)
        PROVE  \E q \in Request : GoesOn(r, q)
    <2> DEFINE q == [req[r] EXCEPT !.phase = "counted"]
    <2>1. /\ q \in Request /\ q.phase = "counted" /\ q.email = req[r].email
          /\ q.ids = req[r].ids
      BY <1>0 DEF Request, Phases
    <2>2. /\ req' = [req EXCEPT ![r] = q] /\ UNCHANGED <<inv, role>>
          /\ req[r].phase = "revoked"
          /\ Cardinality(PendingSeenBy(r)) < MAX_PENDING_INVITATIONS
      BY <1>6 DEF CountPending, At, TypeOK
    <2> HIDE DEF q
    <2>3. QED
      BY <1>0, <2>1, <2>2
  <1>7. ASSUME NEW r \in Requests, ClaimInvitation(r)
        PROVE  \E q \in Request : GoesOn(r, q)
    <2> DEFINE q == [req[r] EXCEPT !.phase = "claimed"]
    <2>1. /\ q \in Request /\ q.phase = "claimed" /\ q.email = req[r].email
          /\ q.ids = req[r].ids /\ q.role = req[r].role
      BY <1>0 DEF Request, Phases
    <2>2. /\ req' = [req EXCEPT ![r] = q] /\ UNCHANGED <<inv, role>>
          /\ req[r].phase = "found" /\ req[r].ids \cap LockedByOthers(r) = {}
          /\ \A i \in req[r].ids : Unanswered(i)
      BY <1>7 DEF ClaimInvitation, At, TypeOK
    <2> HIDE DEF q
    <2>3. HasRead(q)
      BY <1>0, <2>1, <2>2
    <2>4. QED
      BY <2>1, <2>2, <2>3
  <1>8. ASSUME NEW r \in Requests, NEW i \in Ids, NEW p \in People, FindInvitation(r, i, p)
        PROVE  \E q \in Request : GoesOn(r, q)
    <2> DEFINE q == [Idle EXCEPT !.phase = "found", !.email = p, !.role = inv[i].role, !.ids = {i}]
    <2>0. inv[i].role \in Roles
      BY DEF TypeOK, Invitation
    <2>1. /\ q \in Request /\ q.phase = "found" /\ q.email = p /\ q.ids = {i}
          /\ q.role = inv[i].role
      BY <2>0, IdleTyped DEF Idle, Request, Phases
    <2>2. /\ req' = [req EXCEPT ![r] = q] /\ UNCHANGED <<inv, role>>
          /\ inv[i].exists /\ inv[i].email = p
      BY <1>8 DEF FindInvitation, Pending, Unanswered
    <2> HIDE DEF q
    <2>3. QED
      BY <2>1, <2>2
  <1>9. ASSUME NEW r \in Requests, NEW i \in Ids, NEW actorRole \in Roles,
               ReissueInvitation(r, i, actorRole)
        PROVE  inv[i].email \in People
    BY <1>9 DEF ReissueInvitation, Unanswered, AreAddressed
  <1>10. QED
    BY <1>1, <1>2, <1>3, <1>4, <1>5, <1>6, <1>7, <1>8, <1>9
       DEF Next, vars, AlreadyMember, LimitReached, ClaimFindsNothing, JoinedAlready, Abort,
           AcceptInvitation, CreateInvitation, RevokeInvitation, Expire, RemoveMember

-----------------------------------------------------------------------------
LEMMA AddressStep ==
    ASSUME TypeOK, AreAddressed, ReadsHold, [Next]_vars
    PROVE  AreAddressed'
  <1> SUFFICES ASSUME NEW i \in Ids, inv'[i].exists
               PROVE  inv'[i].email \in People
    BY DEF AreAddressed
  <1>1. CASE inv[i].exists
    BY <1>1, IdentityKept DEF AreAddressed
  <1>2. ASSUME NEW r \in Requests, NEW n \in Ids, CreateInvitation(r, n), ~inv[i].exists
        PROVE  inv'[i].email \in People
    <2>1. req[r].email \in People /\ \A j \in req[r].ids : inv[j].exists
      BY <1>2 DEF CreateInvitation, At, ReadsHold, HasRead
    <2>2. i \notin req[r].ids
      BY <1>2, <2>1
    <2>3. i = n
      BY <1>2, <2>2 DEF CreateInvitation, TypeOK
    <2>4. QED
      BY <1>2, <2>1, <2>3 DEF CreateInvitation, NoInvitation
  <1>3. ASSUME ~inv[i].exists,
               \/ \E j \in Ids : RevokeInvitation(j) \/ Expire(j)
               \/ \E r \in Requests : AcceptInvitation(r)
        PROVE  FALSE
    <2>1. inv[i] \in Invitation
      BY DEF TypeOK
    <2>2. inv'[i].exists = inv[i].exists
      BY <1>3, <2>1 DEF RevokeInvitation, Expire, AcceptInvitation, Invitation, TypeOK
    <2>3. QED
      BY <1>3, <2>2
  <1>4. CASE inv' = inv
    BY <1>4 DEF AreAddressed
  <1>5. QED
    BY <1>1, <1>2, <1>3, <1>4
       DEF Next, vars, InviteMember, ReissueInvitation, StartCreate, AlreadyMember, CheckMember,
           BeginRevokeOld, EndRevokeOld, CountPending, LimitReached, ClaimInvitation,
           ClaimFindsNothing, JoinedAlready, Abort, FindInvitation, RemoveMember

LEMMA ReadsStep ==
    ASSUME TypeOK, AreAddressed, ReadsHold, TypeOK', [Next]_vars
    PROVE  ReadsHold'
  <1> SUFFICES ASSUME NEW s \in Requests
               PROVE  HasRead(req[s])'
    BY DEF ReadsHold
  <1>1. HasRead(req'[s])
    <2>1. HasRead(req[s]) /\ HasRead(Idle)
      BY IdleTyped DEF ReadsHold
    <2>2. QED
      BY <2>1, RequestCases DEF End, GoesOn, TypeOK
  <1>2. \A i \in Ids : inv[i].exists =>
           inv'[i].exists /\ inv'[i].email = inv[i].email /\ inv'[i].role = inv[i].role
    BY IdentityKept
  <1>3. req'[s].ids \subseteq Ids
    BY DEF TypeOK, Request
  <1>4. QED
    BY <1>1, <1>2, <1>3 DEF HasRead

\* An invitation is answered by who has locked it, in ending, or when nobody
\* has locked it.
LEMMA AnswerCases ==
    ASSUME TypeOK, ReadsHold, [Next]_vars, NEW i \in Ids, Unanswered(i), ~Unanswered(i)'
    PROVE  \/ \A r \in Requests : i \notin Locked(r)
           \/ \E r \in Requests : i \in Locked(r) /\ End(r)
  <1>1. inv[i] \in Invitation
    BY DEF TypeOK
  <1>2. ASSUME NEW r \in Requests, NEW n \in Ids, CreateInvitation(r, n)
        PROVE  i \in Locked(r) /\ End(r)
    <2>1. i # n /\ inv'[i] # inv[i]
      BY <1>2 DEF CreateInvitation, Unanswered
    <2>2. i \in req[r].ids
      BY <1>2, <2>1 DEF CreateInvitation, TypeOK
    <2>3. QED
      BY <1>2, <2>2 DEF CreateInvitation, At, Locked
  <1>3. ASSUME NEW j \in Ids, RevokeInvitation(j)
        PROVE  \A r \in Requests : i \notin Locked(r)
    BY <1>3 DEF RevokeInvitation, Unanswered, TypeOK
  <1>4. ASSUME NEW j \in Ids, Expire(j)
        PROVE  FALSE
    BY <1>1, <1>4 DEF Expire, Unanswered, TypeOK, Invitation
  <1>5. ASSUME NEW r \in Requests, AcceptInvitation(r)
        PROVE  i \in Locked(r) /\ End(r)
    <2>1. i \in req[r].ids
      BY <1>5 DEF AcceptInvitation, Unanswered, TypeOK
    <2>2. QED
      BY <1>5, <2>1 DEF AcceptInvitation, At, Locked
  <1>6. inv' # inv
    BY DEF Unanswered
  <1>7. QED
    BY <1>2, <1>3, <1>4, <1>5, <1>6
       DEF Next, vars, InviteMember, ReissueInvitation, StartCreate, AlreadyMember, CheckMember,
           BeginRevokeOld, EndRevokeOld, CountPending, LimitReached, ClaimInvitation,
           ClaimFindsNothing, JoinedAlready, Abort, FindInvitation, RemoveMember

LEMMA LocksStep ==
    ASSUME TypeOK, AreAddressed, ReadsHold, LocksAreExclusive, LockedAreUnanswered,
           TypeOK', [Next]_vars
    PROVE  LocksAreExclusive' /\ LockedAreUnanswered'
  <1> USE DEF LocksAreExclusive, LockedAreUnanswered
  <1>1. CASE req' = req
    <2>1. \A r \in Requests : Locked(r)' = Locked(r)
      BY <1>1 DEF Locked
    <2>2. ASSUME NEW r \in Requests, NEW i \in Locked(r), ~Unanswered(i)'
          PROVE  FALSE
      <3>1. i \in Ids /\ Unanswered(i) /\ Locked(r) # {}
        BY DEF Locked, TypeOK, Request
      <3>2. PICK s \in Requests : i \in Locked(s) /\ End(s)
        BY <2>2, <3>1, AnswerCases
      <3>3. Locked(s)' = {}
        BY <3>2, IdleTyped DEF End, Locked, TypeOK
      <3>4. QED
        BY <2>1, <3>2, <3>3
    <2>3. QED
      BY <2>1, <2>2
  <1>2. ASSUME NEW r \in Requests, End(r)
        PROVE  LocksAreExclusive' /\ LockedAreUnanswered'
    <2>1. /\ \A s \in Requests \ {r} : Locked(s)' = Locked(s)
          /\ Locked(r)' = {}
      BY <1>2, IdleTyped DEF End, Locked, TypeOK
    <2>2. ASSUME NEW s \in Requests \ {r}, NEW i \in Locked(s), ~Unanswered(i)'
          PROVE  FALSE
      <3>1. i \in Ids /\ Unanswered(i)
        BY DEF Locked, TypeOK, Request
      <3>2. PICK t \in Requests : i \in Locked(t) /\ End(t)
        BY <2>2, <3>1, AnswerCases
      <3>3. t = s
        BY <3>2
      <3>4. Locked(s)' = {}
        BY <3>2, <3>3, IdleTyped DEF End, Locked, TypeOK
      <3>5. QED
        BY <2>1, <2>2, <3>4
    <2>3. QED
      BY <2>1, <2>2
  <1>3. ASSUME NEW r \in Requests, NEW q \in Request, GoesOn(r, q)
        PROVE  LocksAreExclusive' /\ LockedAreUnanswered'
    <2>1. /\ \A s \in Requests \ {r} : Locked(s)' = Locked(s)
          /\ inv' = inv
      BY <1>3 DEF GoesOn, Locked, TypeOK
    <2>2. \/ Locked(r)' \subseteq Locked(r)
          \/ /\ Locked(r)' \cap LockedByOthers(r) = {}
             /\ \A i \in Locked(r)' : Unanswered(i)
      BY <1>3 DEF GoesOn, Locked, TypeOK
    <2>3. \A s \in Requests \ {r} : Locked(s) \subseteq LockedByOthers(r)
      BY DEF LockedByOthers
    <2>4. LocksAreExclusive'
      BY <2>1, <2>2, <2>3
    <2>5. LockedAreUnanswered'
      BY <2>1, <2>2 DEF Unanswered
    <2>6. QED
      BY <2>4, <2>5
  <1>4. QED
    BY <1>1, <1>2, <1>3, RequestCases

-----------------------------------------------------------------------------
\* The step in which an invitation is used: the accept of who claimed it.
LEMMA AcceptUses ==
    ASSUME TypeOK, ReadsHold, LockedAreUnanswered, NEW r \in Requests, AcceptInvitation(r)
    PROVE  \E i \in Ids :
              /\ req[r].ids = {i} /\ Unanswered(i) /\ inv'[i].accepted /\ ~inv'[i].revoked
              /\ \A j \in Ids \ {i} : inv'[j] = inv[j]
              /\ inv[i].email = req[r].email /\ inv[i].role = req[r].role
              /\ req[r].email \in People /\ req[r].role \in Roles
  <1>1. req[r].phase = "claimed" /\ req[r].email \in People /\ req[r].role \in Roles
    BY DEF AcceptInvitation, At, ReadsHold, HasRead, TypeOK, Request
  <1>2. PICK i \in Ids : req[r].ids = {i} /\ inv[i].email = req[r].email /\ inv[i].role = req[r].role
    BY <1>1 DEF ReadsHold, HasRead
  <1>3. Unanswered(i)
    BY <1>1, <1>2 DEF LockedAreUnanswered, Locked
  <1>4. inv[i] \in Invitation
    BY DEF TypeOK
  <1>5. inv'[i] = [inv[i] EXCEPT !.accepted = TRUE] /\ \A j \in Ids \ {i} : inv'[j] = inv[j]
    BY <1>2 DEF AcceptInvitation
  <1>6. inv'[i].accepted /\ ~inv'[i].revoked
    BY <1>3, <1>4, <1>5 DEF Unanswered, Invitation
  <1>7. QED
    BY <1>1, <1>2, <1>3, <1>5, <1>6

\* In every other step no invitation that existed changes its `accepted`.
LEMMA OthersKeepAccepted ==
    ASSUME TypeOK, BlankBefore, [Next]_vars, NEW i \in Ids,
           \A r \in Requests : ~AcceptInvitation(r)
    PROVE  inv'[i].accepted = inv[i].accepted
  <1>1. inv[i] \in Invitation
    BY DEF TypeOK
  <1>2. ASSUME NEW r \in Requests, NEW n \in Ids, CreateInvitation(r, n)
        PROVE  inv'[i].accepted = inv[i].accepted
    <2>1. CASE i = n
      <3>1. ~inv'[i].accepted
        BY <1>2, <2>1 DEF CreateInvitation, NoInvitation
      <3>2. ~inv[i].accepted
        BY <1>2, <2>1 DEF CreateInvitation, BlankBefore
      <3>3. inv'[i].accepted = FALSE
        BY <1>2, <2>1 DEF CreateInvitation, NoInvitation
      <3>4. inv[i].accepted \in BOOLEAN
        BY <1>1 DEF Invitation
      <3>5. QED
        BY <3>2, <3>3, <3>4
    <2>2. CASE i # n
      BY <1>1, <1>2, <2>2 DEF CreateInvitation, Invitation
    <2>3. QED
      BY <2>1, <2>2
  <1>3. ASSUME NEW j \in Ids, RevokeInvitation(j) \/ Expire(j)
        PROVE  inv'[i].accepted = inv[i].accepted
    BY <1>1, <1>3 DEF RevokeInvitation, Expire, Invitation, TypeOK
  <1>4. CASE inv' = inv
    BY <1>4
  <1>5. QED
    BY <1>2, <1>3, <1>4
       DEF Next, vars, InviteMember, ReissueInvitation, StartCreate, AlreadyMember, CheckMember,
           BeginRevokeOld, EndRevokeOld, CountPending, LimitReached, ClaimInvitation,
           ClaimFindsNothing, JoinedAlready, Abort, FindInvitation, RemoveMember

LEMMA BlankStep ==
    ASSUME TypeOK, BlankBefore, ReadsHold, LockedAreUnanswered, [Next]_vars
    PROVE  BlankBefore'
  <1> SUFFICES ASSUME NEW i \in Ids, ~inv'[i].exists, inv'[i].accepted
               PROVE  FALSE
    BY DEF BlankBefore
  <1>1. ~inv[i].exists /\ ~inv[i].accepted
    BY IdentityKept DEF BlankBefore
  <1>2. ASSUME NEW r \in Requests, AcceptInvitation(r)
        PROVE  FALSE
    BY <1>1, <1>2, AcceptUses DEF Unanswered
  <1>3. QED
    BY <1>1, <1>2, OthersKeepAccepted

LEMMA AnsweredStep ==
    ASSUME TypeOK, BlankBefore, ReadsHold, LockedAreUnanswered, AnsweredOnce, [Next]_vars
    PROVE  AnsweredOnce'
  <1> SUFFICES ASSUME NEW i \in Ids
               PROVE  ~(inv'[i].accepted /\ inv'[i].revoked)
    BY DEF AnsweredOnce
  <1>1. inv[i] \in Invitation /\ ~(inv[i].accepted /\ inv[i].revoked)
    BY DEF TypeOK, AnsweredOnce
  <1>2. ASSUME NEW r \in Requests, AcceptInvitation(r)
        PROVE  ~(inv'[i].accepted /\ inv'[i].revoked)
    BY <1>1, <1>2, AcceptUses
  <1>3. ASSUME NEW r \in Requests, NEW n \in Ids, CreateInvitation(r, n)
        PROVE  ~(inv'[i].accepted /\ inv'[i].revoked)
    <2>1. CASE i = n
      BY <1>3, <2>1 DEF CreateInvitation, NoInvitation
    <2>2. CASE i # n /\ i \in req[r].ids
      <3>1. ~inv[i].accepted
        BY <1>3, <2>2 DEF CreateInvitation, At, Locked, LockedAreUnanswered, Unanswered
      <3>2. QED
        BY <1>1, <1>3, <2>2, <3>1 DEF CreateInvitation, Invitation
    <2>3. CASE i # n /\ i \notin req[r].ids
      BY <1>1, <1>3, <2>3 DEF CreateInvitation
    <2>4. QED
      BY <2>1, <2>2, <2>3
  <1>4. ASSUME NEW j \in Ids, RevokeInvitation(j) \/ Expire(j)
        PROVE  ~(inv'[i].accepted /\ inv'[i].revoked)
    BY <1>1, <1>4 DEF RevokeInvitation, Expire, Unanswered, Invitation, TypeOK
  <1>5. CASE inv' = inv
    BY <1>1, <1>5
  <1>6. QED
    BY <1>2, <1>3, <1>4, <1>5
       DEF Next, vars, InviteMember, ReissueInvitation, StartCreate, AlreadyMember, CheckMember,
           BeginRevokeOld, EndRevokeOld, CountPending, LimitReached, ClaimInvitation,
           ClaimFindsNothing, JoinedAlready, Abort, FindInvitation, RemoveMember

-----------------------------------------------------------------------------
(* The limit. *)

LEMMA WeightsFinite ==
    /\ IsFiniteSet(PendingSet) /\ Cardinality(PendingSet) \in Nat
    /\ IsFiniteSet(Adding) /\ Cardinality(Adding) \in Nat
    /\ Cardinality(Adding) <= Cardinality(Requests)
    /\ Cardinality(Requests) \in Nat
    /\ IsFiniteSet(PendingSet') /\ Cardinality(PendingSet') \in Nat
    /\ IsFiniteSet(Adding') /\ Cardinality(Adding') \in Nat
    /\ Cardinality(Adding') <= Cardinality(Requests)
  <1>1. /\ PendingSet \subseteq Ids /\ PendingSet' \subseteq Ids
        /\ Adding \subseteq Requests /\ Adding' \subseteq Requests
    BY DEF PendingSet, Adding
  <1>2. IsFiniteSet(Ids) /\ IsFiniteSet(Requests)
    BY InvitationsAssumption
  <1>3. QED
    BY <1>1, <1>2, FS_Subset, FS_CardinalityType

\* One more element makes a finite set larger by one at most.
LEMMA OneMore ==
    ASSUME NEW S, NEW x, IsFiniteSet(S)
    PROVE  /\ IsFiniteSet(S \cup {x})
           /\ Cardinality(S \cup {x}) \in Nat /\ Cardinality(S) \in Nat
           /\ Cardinality(S \cup {x}) <= Cardinality(S) + 1
  <1>1. /\ IsFiniteSet(S \cup {x})
        /\ Cardinality(S \cup {x}) = IF x \in S THEN Cardinality(S) ELSE Cardinality(S) + 1
    BY FS_AddElement
  <1>2. Cardinality(S) \in Nat
    BY FS_CardinalityType
  <1>3. QED
    BY <1>1, <1>2

\* Where neither set grows the bound is kept.
LEMMA NoHeavier ==
    ASSUME WeightIsBounded, PendingSet' \subseteq PendingSet, Adding' \subseteq Adding
    PROVE  WeightIsBounded'
  <1>1. /\ Cardinality(PendingSet') <= Cardinality(PendingSet)
        /\ Cardinality(Adding') <= Cardinality(Adding)
    BY WeightsFinite, FS_Subset
  <1>2. MAX_PENDING_INVITATIONS \in Nat
    BY InvitationsAssumption
  <1>3. QED
    BY <1>1, <1>2, WeightsFinite DEF WeightIsBounded

LEMMA CountingKeepsWeight ==
    ASSUME TypeOK, WeightIsBounded, NEW r \in Requests, NEW q \in Request, GoesOn(r, q)
    PROVE  WeightIsBounded'
  <1>1. inv' = inv /\ req' = [req EXCEPT ![r] = q]
    BY DEF GoesOn
  <1>2. PendingSet' = PendingSet
    BY <1>1 DEF PendingSet, Pending, Unanswered
  <1>3. CASE q.phase # "counted" \/ {i \in q.ids : ~inv[i].expired} # {}
    <2>1. Adding' \subseteq Adding
      BY <1>1, <1>3 DEF Adding, At, Own, TypeOK
    <2>2. QED
      BY <1>2, <2>1, NoHeavier
  <1>4. CASE q.phase = "counted" /\ {i \in q.ids : ~inv[i].expired} = {}
    <2>1. q.ids = req[r].ids /\ Cardinality(PendingSeenBy(r)) < MAX_PENDING_INVITATIONS
      BY <1>4 DEF GoesOn
    <2>2. PendingSeenBy(r) = PendingSet
      BY <1>4, <2>1 DEF PendingSeenBy, PendingSet, Pending
    <2>3. Cardinality(PendingSet') <= MAX_PENDING_INVITATIONS - 1
      BY <1>2, <2>1, <2>2, WeightsFinite, InvitationsAssumption
    <2>4. QED
      BY <2>3, WeightsFinite, InvitationsAssumption DEF WeightIsBounded
  <1>5. QED
    BY <1>3, <1>4

LEMMA CreatingKeepsWeight ==
    ASSUME TypeOK, ReadsHold, LockedAreUnanswered, WeightIsBounded,
           NEW r \in Requests, NEW n \in Ids, CreateInvitation(r, n)
    PROVE  WeightIsBounded'
  <1>1. /\ req[r].phase = "counted" /\ ~inv[n].exists
        /\ req' = [req EXCEPT ![r] = Idle]
    BY DEF CreateInvitation, At, End
  <1>2. ASSUME NEW i \in Ids, i # n
        PROVE  /\ inv'[i].expired = inv[i].expired
               /\ Pending(i)' => Pending(i) /\ i \notin req[r].ids
    <2>1. inv[i] \in Invitation
      BY DEF TypeOK
    <2>2. CASE i \in req[r].ids
      BY <1>2, <2>1, <2>2 DEF CreateInvitation, Pending, Unanswered, Invitation
    <2>3. CASE i \notin req[r].ids
      BY <1>2, <2>3 DEF CreateInvitation, Pending, Unanswered
    <2>4. QED
      BY <2>2, <2>3
  <1>3. ASSUME NEW s \in Requests, s # r
        PROVE  req'[s] = req[s] /\ Own(s)' = Own(s)
    <2>1. req'[s] = req[s]
      BY <1>1, <1>3 DEF TypeOK
    <2>2. req[s].ids \subseteq Ids /\ n \notin req[s].ids
      BY <1>1 DEF ReadsHold, HasRead, TypeOK, Request
    <2>3. QED
      BY <1>2, <2>1, <2>2 DEF Own
  <1>4. Adding' \subseteq Adding \ {r}
    BY <1>1, <1>3, IdleTyped DEF Adding, At, TypeOK
  <1>5. PendingSet' \subseteq (PendingSet \ Own(r)) \cup {n}
    BY <1>2 DEF PendingSet, Own
  <1>6. CASE Own(r) = {}
    <2>1. r \in Adding
      BY <1>1, <1>6 DEF Adding, At
    <2>2. Cardinality(Adding') <= Cardinality(Adding) - 1
      <3>1. Cardinality(Adding \ {r}) = Cardinality(Adding) - 1 /\ IsFiniteSet(Adding \ {r})
        BY <2>1, WeightsFinite, FS_RemoveElement
      <3>2. QED
        BY <1>4, <3>1, FS_Subset
    <2>3. Cardinality(PendingSet') <= Cardinality(PendingSet) + 1
      <3>1. /\ IsFiniteSet(PendingSet \cup {n}) /\ Cardinality(PendingSet \cup {n}) \in Nat
            /\ Cardinality(PendingSet \cup {n}) <= Cardinality(PendingSet) + 1
        BY WeightsFinite, OneMore
      <3>2. PendingSet' \subseteq PendingSet \cup {n}
        BY <1>5
      <3>3. Cardinality(PendingSet') <= Cardinality(PendingSet \cup {n})
        BY <3>1, <3>2, FS_Subset
      <3>4. QED
        BY <3>1, <3>3, WeightsFinite
    <2>4. QED
      BY <2>2, <2>3, WeightsFinite, InvitationsAssumption DEF WeightIsBounded
  <1>7. CASE Own(r) # {}
    <2>1. PICK o \in req[r].ids : ~inv[o].expired
      BY <1>7 DEF Own
    <2>2. o \in PendingSet /\ o \in Own(r)
      BY <1>1, <2>1
         DEF PendingSet, Pending, Own, Locked, LockedAreUnanswered, TypeOK, Request
    <2>3. Cardinality(PendingSet') <= Cardinality(PendingSet)
      <3>1. /\ IsFiniteSet(PendingSet \ {o})
            /\ Cardinality(PendingSet \ {o}) = Cardinality(PendingSet) - 1
        BY <2>2, WeightsFinite, FS_RemoveElement
      <3>2. /\ IsFiniteSet((PendingSet \ {o}) \cup {n})
            /\ Cardinality((PendingSet \ {o}) \cup {n}) \in Nat
            /\ Cardinality((PendingSet \ {o}) \cup {n}) <= Cardinality(PendingSet \ {o}) + 1
        BY <3>1, OneMore
      <3>3. PendingSet' \subseteq (PendingSet \ {o}) \cup {n}
        BY <1>5, <2>2
      <3>4. Cardinality(PendingSet') <= Cardinality((PendingSet \ {o}) \cup {n})
        BY <3>2, <3>3, FS_Subset
      <3>5. QED
        BY <3>1, <3>2, <3>4, WeightsFinite
    <2>4. Cardinality(Adding') <= Cardinality(Adding)
      BY <1>4, WeightsFinite, FS_Subset
    <2>5. QED
      BY <2>3, <2>4, WeightsFinite, InvitationsAssumption DEF WeightIsBounded
  <1>8. QED
    BY <1>6, <1>7

LEMMA ExpiringKeepsWeight ==
    ASSUME TypeOK, ReadsHold, LocksAreExclusive, LockedAreUnanswered, WeightIsBounded,
           NEW j \in Ids, Expire(j)
    PROVE  WeightIsBounded'
  <1>1. /\ req' = req /\ ~inv[j].expired /\ inv'[j].expired
        /\ \A i \in Ids \ {j} : inv'[i] = inv[i]
    <2>1. inv[j] \in Invitation
      BY DEF TypeOK
    <2>2. QED
      BY <2>1 DEF Expire, TypeOK, Invitation
  <1>2. PendingSet' \subseteq PendingSet \ {j}
    BY <1>1 DEF PendingSet, Pending, Unanswered
  <1>3. ASSUME NEW s \in Requests, j \notin Locked(s)
        PROVE  s \in Adding' => s \in Adding
    <2>1. req[s].ids \subseteq Ids
      BY DEF TypeOK, Request
    <2>2. QED
      BY <1>1, <1>3, <2>1 DEF Adding, At, Own, Locked
  <1>4. CASE \A s \in Requests : j \notin Locked(s)
    BY <1>2, <1>3, <1>4, NoHeavier DEF Adding
  <1>5. ASSUME NEW r \in Requests, j \in Locked(r)
        PROVE  WeightIsBounded'
    <2>1. \A s \in Requests \ {r} : j \notin Locked(s)
      BY <1>5 DEF LocksAreExclusive
    <2>2. Adding' \subseteq Adding \cup {r}
      BY <1>3, <2>1 DEF Adding
    <2>3. j \in PendingSet
      BY <1>1, <1>5 DEF PendingSet, Pending, LockedAreUnanswered
    <2>4. Cardinality(PendingSet') <= Cardinality(PendingSet) - 1
      <3>1. /\ IsFiniteSet(PendingSet \ {j})
            /\ Cardinality(PendingSet \ {j}) = Cardinality(PendingSet) - 1
        BY <2>3, WeightsFinite, FS_RemoveElement
      <3>2. QED
        BY <1>2, <3>1, FS_Subset
    <2>5. Cardinality(Adding') <= Cardinality(Adding) + 1
      <3>1. /\ IsFiniteSet(Adding \cup {r}) /\ Cardinality(Adding \cup {r}) \in Nat
            /\ Cardinality(Adding \cup {r}) <= Cardinality(Adding) + 1
        BY WeightsFinite, OneMore
      <3>2. Cardinality(Adding') <= Cardinality(Adding \cup {r})
        BY <2>2, <3>1, FS_Subset
      <3>3. QED
        BY <3>1, <3>2, WeightsFinite
    <2>6. QED
      BY <2>4, <2>5, WeightsFinite, InvitationsAssumption DEF WeightIsBounded
  <1>6. QED
    BY <1>4, <1>5

LEMMA WeightStep ==
    ASSUME TypeOK, AreAddressed, ReadsHold, LocksAreExclusive, LockedAreUnanswered,
           WeightIsBounded, [Next]_vars
    PROVE  WeightIsBounded'
  <1>1. ASSUME NEW r \in Requests, NEW n \in Ids, CreateInvitation(r, n)
        PROVE  WeightIsBounded'
    BY <1>1, CreatingKeepsWeight
  <1>2. ASSUME NEW j \in Ids, Expire(j)
        PROVE  WeightIsBounded'
    BY <1>2, ExpiringKeepsWeight
  <1>3. ASSUME \A i \in Ids : inv'[i].expired = inv[i].expired /\ (Pending(i)' => Pending(i)),
               \/ req' = req
               \/ \E r \in Requests : End(r)
        PROVE  WeightIsBounded'
    <2>1. PendingSet' \subseteq PendingSet
      BY <1>3 DEF PendingSet
    <2>2. \A s \in Requests : req[s].ids \subseteq Ids
      BY DEF TypeOK, Request
    <2>3. Adding' \subseteq Adding
      BY <1>3, <2>2, IdleTyped DEF Adding, At, Own, End, TypeOK
    <2>4. QED
      BY <2>1, <2>3, NoHeavier
  <1>4. ASSUME NEW j \in Ids, RevokeInvitation(j)
        PROVE  WeightIsBounded'
    <2>1. \A i \in Ids : inv[i] \in Invitation
      BY DEF TypeOK
    <2>2. \A i \in Ids : inv'[i].expired = inv[i].expired /\ (Pending(i)' => Pending(i))
      BY <1>4, <2>1 DEF RevokeInvitation, Pending, Unanswered, TypeOK, Invitation
    <2>3. req' = req
      BY <1>4 DEF RevokeInvitation
    <2>4. QED
      BY <1>3, <2>2, <2>3
  <1>5. ASSUME NEW r \in Requests, AcceptInvitation(r)
        PROVE  WeightIsBounded'
    <2>1. \A i \in Ids : inv[i] \in Invitation
      BY DEF TypeOK
    <2>2. \A i \in Ids : inv'[i].expired = inv[i].expired /\ (Pending(i)' => Pending(i))
      BY <1>5, <2>1 DEF AcceptInvitation, Pending, Unanswered, Invitation
    <2>3. End(r)
      BY <1>5 DEF AcceptInvitation
    <2>4. QED
      BY <1>3, <2>2, <2>3
  <1>6. CASE inv' = inv
    <2>1. \A i \in Ids : inv'[i].expired = inv[i].expired /\ (Pending(i)' => Pending(i))
      BY <1>6 DEF Pending, Unanswered
    <2>2. QED
      BY <1>3, <2>1, RequestCases, CountingKeepsWeight
  <1>7. QED
    BY <1>1, <1>2, <1>4, <1>5, <1>6
       DEF Next, vars, InviteMember, ReissueInvitation, StartCreate, AlreadyMember, CheckMember,
           BeginRevokeOld, EndRevokeOld, CountPending, LimitReached, ClaimInvitation,
           ClaimFindsNothing, JoinedAlready, Abort, FindInvitation, RemoveMember

-----------------------------------------------------------------------------
(* The links to an address. *)

LEMMA UnseenFinite ==
    ASSUME NEW p, NEW J \in SUBSET Requests
    PROVE  /\ IsFiniteSet(J) /\ Cardinality(J) \in Nat
           /\ Cardinality(J) <= Cardinality(Requests) /\ Cardinality(Requests) \in Nat
           /\ IsFiniteSet(UnseenBy(J, p)) /\ Cardinality(UnseenBy(J, p)) \in Nat
           /\ IsFiniteSet(UnseenBy(J, p)') /\ Cardinality(UnseenBy(J, p)') \in Nat
  <1>1. UnseenBy(J, p) \subseteq Ids /\ UnseenBy(J, p)' \subseteq Ids
    BY DEF UnseenBy, LinksTo
  <1>2. IsFiniteSet(Ids) /\ IsFiniteSet(Requests)
    BY InvitationsAssumption
  <1>3. QED
    BY <1>1, <1>2, FS_Subset, FS_CardinalityType

\* Requests that already were replacing, and see no less of what is left.
LEMMA UnseenFewer ==
    ASSUME UnseenAreFew, NEW p \in People, NEW J \in SUBSET Replacing(p),
           UnseenBy(J, p)' \subseteq UnseenBy(J, p)
    PROVE  Cardinality(UnseenBy(J, p)') + Cardinality(J) <= Cardinality(Requests)
  <1>1. J \in SUBSET Requests
    BY DEF Replacing
  <1>2. Cardinality(UnseenBy(J, p)') <= Cardinality(UnseenBy(J, p))
    BY <1>1, UnseenFinite, FS_Subset
  <1>3. Cardinality(UnseenBy(J, p)) + Cardinality(J) <= Cardinality(Requests)
    BY DEF UnseenAreFew
  <1>4. QED
    BY <1>1, <1>2, <1>3, UnseenFinite

\* Answers and expiry leave fewer links, an end fewer requests.
LEMMA AnsweringKeepsFew ==
    ASSUME TypeOK, UnseenAreFew, \A p \in People : LinksTo(p)' \subseteq LinksTo(p),
           req' = req \/ \E r \in Requests : End(r)
    PROVE  UnseenAreFew'
  <1> SUFFICES ASSUME NEW p \in People, NEW J \in SUBSET Replacing(p)'
               PROVE  Cardinality(UnseenBy(J, p)') + Cardinality(J) <= Cardinality(Requests)
    BY DEF UnseenAreFew
  <1>1. \A s \in J : s \in Replacing(p) /\ req'[s] = req[s]
    BY IdleTyped DEF Replacing, End, TypeOK
  <1>2. UnseenBy(J, p)' \subseteq UnseenBy(J, p)
    BY <1>1 DEF UnseenBy
  <1>3. QED
    BY <1>1, <1>2, UnseenFewer

\* Who has just begun has seen everything there is; waiting only leaves out
\* what others have answered.
LEMMA GoingOnKeepsFew ==
    ASSUME TypeOK, ReadsHold, UnseenAreFew, NEW r \in Requests, NEW q \in Request, GoesOn(r, q)
    PROVE  UnseenAreFew'
  <1> SUFFICES ASSUME NEW p \in People, NEW J \in SUBSET Replacing(p)'
               PROVE  Cardinality(UnseenBy(J, p)') + Cardinality(J) <= Cardinality(Requests)
    BY DEF UnseenAreFew
  <1>1. /\ inv' = inv /\ req'[r] = q
        /\ \A s \in Requests \ {r} : req'[s] = req[s]
    BY DEF GoesOn, TypeOK
  <1>2. LinksTo(p)' = LinksTo(p)
    BY <1>1 DEF LinksTo, Unanswered
  <1>3. CASE r \in J /\ q.phase = "revoking"
    <2>1. q.ids = LinksTo(p)
      BY <1>1, <1>3 DEF GoesOn, Replacing
    <2>2. UnseenBy(J, p)' = {}
      BY <1>1, <1>2, <1>3, <2>1 DEF UnseenBy
    <2>3. Cardinality(UnseenBy(J, p)') = 0
      BY <2>2, FS_EmptySet
    <2>4. J \in SUBSET Requests
      BY DEF Replacing
    <2>5. QED
      BY <2>3, <2>4, UnseenFinite
  <1>4. CASE r \notin J \/ q.phase # "revoking"
    <2>1. ASSUME r \in J
          PROVE  /\ r \in Replacing(p)
                 /\ \A i \in req[r].ids : Unanswered(i) => i \in q.ids
      BY <1>1, <1>4, <2>1 DEF GoesOn, Replacing
    <2>2. \A s \in J : s \in Replacing(p)
      BY <1>1, <2>1 DEF Replacing
    <2>3. UnseenBy(J, p)' \subseteq UnseenBy(J, p)
      <3>1. J \subseteq Requests
        BY DEF Replacing
      <3>2. ASSUME NEW i \in UnseenBy(J, p)', NEW s \in J
            PROVE  i \notin req[s].ids
        BY <1>1, <1>2, <2>1, <3>1, <3>2 DEF UnseenBy, LinksTo
      <3>3. QED
        BY <1>2, <3>2 DEF UnseenBy
    <2>4. QED
      BY <2>2, <2>3, UnseenFewer
  <1>5. QED
    BY <1>3, <1>4

\* Who commits adds one link to what it and the others have not seen.
LEMMA CreatingKeepsFew ==
    ASSUME TypeOK, ReadsHold, UnseenAreFew, NEW r \in Requests, NEW n \in Ids,
           CreateInvitation(r, n)
    PROVE  UnseenAreFew'
  <1> SUFFICES ASSUME NEW p \in People, NEW J \in SUBSET Replacing(p)'
               PROVE  Cardinality(UnseenBy(J, p)') + Cardinality(J) <= Cardinality(Requests)
    BY DEF UnseenAreFew
  <1>1. /\ req[r].phase = "counted" /\ req' = [req EXCEPT ![r] = Idle]
        /\ \A i \in Ids \ {n} : inv'[i] = IF i \in req[r].ids
                                          THEN [inv[i] EXCEPT !.revoked = TRUE] ELSE inv[i]
        /\ inv'[n].email = req[r].email
    BY DEF CreateInvitation, At, End, NoInvitation
  <1>2. r \notin J /\ \A s \in J : s \in Replacing(p) /\ req'[s] = req[s]
    BY <1>1, IdleTyped DEF Replacing, TypeOK
  <1>3. \A i \in Ids \ {n} : i \in LinksTo(p)' => i \in LinksTo(p) /\ i \notin req[r].ids
    <2>1. \A i \in Ids : inv[i] \in Invitation
      BY DEF TypeOK
    <2>2. QED
      BY <1>1, <2>1 DEF LinksTo, Unanswered, Invitation
  <1>4. CASE req[r].email # p
    <2>1. UnseenBy(J, p)' \subseteq UnseenBy(J, p)
      BY <1>1, <1>2, <1>3, <1>4 DEF UnseenBy, LinksTo
    <2>2. QED
      BY <1>2, <2>1, UnseenFewer
  <1>5. CASE req[r].email = p
    <2> DEFINE K == J \cup {r}
    <2>1. K \in SUBSET Replacing(p) /\ K \in SUBSET Requests /\ J \in SUBSET Requests
      BY <1>1, <1>2, <1>5 DEF Replacing
    <2>2. Cardinality(K) = Cardinality(J) + 1
      BY <1>2, <2>1, UnseenFinite, FS_AddElement
    <2>3. Cardinality(UnseenBy(K, p)) + Cardinality(K) <= Cardinality(Requests)
      BY <2>1 DEF UnseenAreFew
    <2>4. UnseenBy(J, p)' \subseteq UnseenBy(K, p) \cup {n}
      BY <1>2, <1>3 DEF UnseenBy, LinksTo
    <2> HIDE DEF K
    <2>5. /\ IsFiniteSet(UnseenBy(K, p) \cup {n}) /\ Cardinality(UnseenBy(K, p) \cup {n}) \in Nat
          /\ Cardinality(UnseenBy(K, p) \cup {n}) <= Cardinality(UnseenBy(K, p)) + 1
      BY <2>1, UnseenFinite, OneMore
    <2>6. Cardinality(UnseenBy(J, p)') <= Cardinality(UnseenBy(K, p) \cup {n})
      BY <2>4, <2>5, FS_Subset
    <2>7. QED
      BY <2>1, <2>2, <2>3, <2>5, <2>6, UnseenFinite
  <1>6. QED
    BY <1>4, <1>5

LEMMA FewStep ==
    ASSUME TypeOK, AreAddressed, ReadsHold, UnseenAreFew, [Next]_vars
    PROVE  UnseenAreFew'
  <1>1. \A i \in Ids : inv[i] \in Invitation
    BY DEF TypeOK
  <1>2. ASSUME NEW r \in Requests, NEW n \in Ids, CreateInvitation(r, n)
        PROVE  UnseenAreFew'
    BY <1>2, CreatingKeepsFew
  <1>3. ASSUME NEW j \in Ids, RevokeInvitation(j) \/ Expire(j)
        PROVE  UnseenAreFew'
    <2>1. req' = req
      BY <1>3 DEF RevokeInvitation, Expire
    <2>2. \A p \in People : LinksTo(p)' \subseteq LinksTo(p)
      BY <1>1, <1>3 DEF RevokeInvitation, Expire, LinksTo, Unanswered, TypeOK, Invitation
    <2>3. QED
      BY <2>1, <2>2, AnsweringKeepsFew
  <1>4. ASSUME NEW r \in Requests, AcceptInvitation(r)
        PROVE  UnseenAreFew'
    <2>1. End(r)
      BY <1>4 DEF AcceptInvitation
    <2>2. \A p \in People : LinksTo(p)' \subseteq LinksTo(p)
      BY <1>1, <1>4 DEF AcceptInvitation, LinksTo, Unanswered, Invitation
    <2>3. QED
      BY <2>1, <2>2, AnsweringKeepsFew
  <1>5. CASE inv' = inv
    <2>1. \A p \in People : LinksTo(p)' \subseteq LinksTo(p)
      BY <1>5 DEF LinksTo, Unanswered
    <2>2. QED
      BY <2>1, RequestCases, AnsweringKeepsFew, GoingOnKeepsFew
  <1>6. QED
    BY <1>2, <1>3, <1>4, <1>5
       DEF Next, vars, InviteMember, ReissueInvitation, StartCreate, AlreadyMember, CheckMember,
           BeginRevokeOld, EndRevokeOld, CountPending, LimitReached, ClaimInvitation,
           ClaimFindsNothing, JoinedAlready, Abort, FindInvitation, RemoveMember

-----------------------------------------------------------------------------
LEMMA InitHolds == Init => IInv
  <1> SUFFICES ASSUME Init
               PROVE  IInv
    OBVIOUS
  <1>1. TypeOK
    BY IdleTyped, NoInvitationTyped DEF Init, TypeOK
  <1>2. \A i \in Ids : ~inv[i].exists /\ ~inv[i].accepted
    BY DEF Init, NoInvitation
  <1>3. AnsweredOnce /\ BlankBefore /\ AreAddressed
    BY <1>2 DEF AnsweredOnce, BlankBefore, AreAddressed
  <1>4. \A r \in Requests : req[r] = Idle
    BY DEF Init
  <1>5. \A r \in Requests : Locked(r) = {} /\ ~At(r, "counted")
    BY <1>4, IdleTyped DEF Locked, At
  <1>6. LocksAreExclusive /\ LockedAreUnanswered
    BY <1>5 DEF LocksAreExclusive, LockedAreUnanswered
  <1>7. ReadsHold
    BY <1>4, IdleTyped DEF ReadsHold
  <1>8. PendingSet = {} /\ Adding = {}
    BY <1>2, <1>5 DEF PendingSet, Pending, Unanswered, Adding
  <1>9. Cardinality(PendingSet) = 0 /\ Cardinality(Adding) = 0
    BY <1>8, FS_EmptySet
  <1>10. WeightIsBounded
    BY <1>9, WeightsFinite, InvitationsAssumption DEF WeightIsBounded
  <1>11. UnseenAreFew
    <2> SUFFICES ASSUME NEW p \in People, NEW J \in SUBSET Replacing(p)
                 PROVE  Cardinality(UnseenBy(J, p)) + Cardinality(J) <= Cardinality(Requests)
      BY DEF UnseenAreFew
    <2>1. UnseenBy(J, p) = {}
      BY <1>2 DEF UnseenBy, LinksTo, Unanswered
    <2>2. J \in SUBSET Requests
      BY DEF Replacing
    <2>3. QED
      BY <2>1, <2>2, UnseenFinite, FS_EmptySet
  <1>12. QED
    BY <1>1, <1>3, <1>6, <1>7, <1>10, <1>11 DEF IInv

LEMMA StepHolds == IInv /\ [Next]_vars => IInv'
  <1> SUFFICES ASSUME IInv, [Next]_vars
               PROVE  IInv'
    OBVIOUS
  <1>1. TypeOK'
    BY TypeStep DEF IInv
  <1>2. LocksAreExclusive' /\ LockedAreUnanswered'
    BY <1>1, LocksStep DEF IInv
  <1>3. BlankBefore' /\ AreAddressed' /\ ReadsHold'
    BY <1>1, BlankStep, AddressStep, ReadsStep DEF IInv
  <1>4. AnsweredOnce'
    BY AnsweredStep DEF IInv
  <1>5. WeightIsBounded'
    BY WeightStep DEF IInv
  <1>6. UnseenAreFew'
    BY FewStep DEF IInv
  <1>7. QED
    BY <1>1, <1>2, <1>3, <1>4, <1>5, <1>6 DEF IInv

\* The inductive invariant holds in every behaviour of the invitations
\* (invitations.ts:49-342).
THEOREM Inductive == Spec => []IInv
  BY InitHolds, StepHolds, PTL DEF Spec

\* Invitations, memberships and requests keep their types (invitations.ts:49-342).
THEOREM TypeCorrect == Spec => []TypeOK
  <1>1. IInv => TypeOK
    BY DEF IInv
  <1>2. QED
    BY <1>1, Inductive, PTL

\* No invitation is both accepted and revoked (invitations.ts:293-299).
THEOREM AnswersAreFinal == Spec => []AnsweredOnce
  <1>1. IInv => AnsweredOnce
    BY DEF IInv
  <1>2. QED
    BY <1>1, Inductive, PTL

\* The limit on pending invitations is passed by fewer than the requests
\* (invitations.ts:79-89).
THEOREM LimitRoughlyHolds == Spec => []PendingIsBounded
  <1>1. IInv => PendingIsBounded
    <2> SUFFICES ASSUME IInv
                 PROVE  PendingIsBounded
      OBVIOUS
    <2>1. Cardinality(PendingSet) <= MAX_PENDING_INVITATIONS - 1 + Cardinality(Requests)
      BY WeightsFinite, InvitationsAssumption DEF IInv, WeightIsBounded
    <2>2. QED
      BY <2>1, WeightsFinite, InvitationsAssumption DEF PendingSet, PendingIsBounded
  <1>2. QED
    BY <1>1, Inductive, PTL

\* An address has never more unanswered links than there are requests, however
\* often it is invited (invitations.ts:45-78).
THEOREM OldLinksGo == Spec => []LinksAreReplaced
  <1>1. IInv => LinksAreReplaced
    <2> SUFFICES ASSUME IInv, NEW p \in People
                 PROVE  Cardinality(LinksTo(p)) <= Cardinality(Requests)
      BY DEF LinksAreReplaced
    <2>1. Cardinality(UnseenBy({}, p)) + Cardinality({}) <= Cardinality(Requests)
      BY DEF IInv, UnseenAreFew
    <2>2. UnseenBy({}, p) = LinksTo(p)
      BY DEF UnseenBy
    <2>3. Cardinality({}) = 0 /\ Cardinality(UnseenBy({}, p)) \in Nat
      BY UnseenFinite, FS_EmptySet
    <2>4. QED
      BY <2>1, <2>2, <2>3
  <1>2. QED
    BY <1>1, Inductive, PTL

\* Whoever joins does so by an unanswered invitation to them, in its role
\* (invitations.ts:256-318).
THEOREM MembersWereInvited == Spec => JoinsByInvitation
  <1>1. IInv /\ [Next]_vars =>
          [\A p \in People : role[p] = NoOne /\ role'[p] # NoOne =>
             \E i \in Ids :
                /\ Unanswered(i) /\ inv'[i].accepted
                /\ inv[i].email = p /\ inv[i].role = role'[p]]_vars
    <2> SUFFICES ASSUME IInv, [Next]_vars, NEW p \in People,
                        role[p] = NoOne, role'[p] # NoOne
                 PROVE  \E i \in Ids :
                           /\ Unanswered(i) /\ inv'[i].accepted
                           /\ inv[i].email = p /\ inv[i].role = role'[p]
      OBVIOUS
    <2>1. PICK r \in Requests : AcceptInvitation(r)
      BY DEF Next, vars, IInv, TypeOK, InviteMember, ReissueInvitation, StartCreate,
             AlreadyMember, CheckMember, BeginRevokeOld, EndRevokeOld, CountPending,
             LimitReached, ClaimInvitation, ClaimFindsNothing, JoinedAlready, Abort,
             FindInvitation, CreateInvitation, RevokeInvitation, Expire, RemoveMember
    <2>2. p = req[r].email /\ role'[p] = req[r].role
      BY <2>1 DEF AcceptInvitation, IInv, TypeOK
    <2>3. QED
      BY <2>1, <2>2, AcceptUses DEF IInv
  <1>2. QED
    BY <1>1, Inductive, PTL DEF Spec, JoinsByInvitation

\* An invitation is used up by its address joining and in no other way, and
\* stays used up (invitations.ts:302-309).
THEOREM UsedOnlyByJoining == Spec => UsedUpByJoining
  <1>1. IInv /\ [Next]_vars =>
          [\A i \in Ids : inv'[i].accepted # inv[i].accepted =>
             /\ inv'[i].accepted
             /\ role[inv[i].email] = NoOne /\ role'[inv[i].email] # NoOne]_vars
    <2> SUFFICES ASSUME IInv, [Next]_vars, NEW i \in Ids, inv'[i].accepted # inv[i].accepted
                 PROVE  /\ inv'[i].accepted
                        /\ role[inv[i].email] = NoOne /\ role'[inv[i].email] # NoOne
      OBVIOUS
    <2>1. PICK r \in Requests : AcceptInvitation(r)
      BY OthersKeepAccepted DEF IInv
    <2>2. PICK k \in Ids :
             /\ req[r].ids = {k} /\ inv'[k].accepted /\ \A j \in Ids \ {k} : inv'[j] = inv[j]
             /\ inv[k].email = req[r].email /\ req[r].email \in People /\ req[r].role \in Roles
      BY <2>1, AcceptUses DEF IInv
    <2>3. k = i
      BY <2>2
    <2>4. role[req[r].email] = NoOne /\ role'[req[r].email] = req[r].role
      BY <2>1, <2>2 DEF AcceptInvitation, IInv, TypeOK
    <2>5. QED
      BY <2>2, <2>3, <2>4, InvitationsAssumption
  <1>2. QED
    BY <1>1, Inductive, PTL DEF Spec, UsedUpByJoining
=============================================================================
