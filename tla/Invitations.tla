----------------------------- MODULE Invitations -----------------------------
(***************************************************************************)
(* Invitations into one workspace (packages/db/src/platform/invitations.ts *)
(* and packages/domain/src/organization/invitation.ts).                    *)
(*                                                                         *)
(* Creating, accepting and revoking are transactions at READ COMMITTED: a  *)
(* statement sees what had committed when it began; an update of a row     *)
(* that another transaction has updated waits for its end and looks at the *)
(* row again, but never at rows inserted meanwhile.  `inv` and `role` hold *)
(* what is committed, `req` what each running transaction has read,        *)
(* written and locked.                                                     *)
(***************************************************************************)
EXTENDS Naturals, FiniteSets

CONSTANTS
    Ids,          \* bound: the invitations a behaviour may create
    People,       \* the profiles besides the founder, each with its own address
    Roles,
    OWNER_ROLE,
    MAX_PENDING_INVITATIONS,
    Requests,     \* server actions that may be in flight at once
    NoOne         \* stands for "no person" and for "no role"

ASSUME InvitationsAssumption ==
    /\ IsFiniteSet(Ids)
    /\ IsFiniteSet(Requests)
    /\ OWNER_ROLE \in Roles
    /\ MAX_PENDING_INVITATIONS \in Nat \ {0}
    /\ NoOne \notin People \cup Roles

VARIABLES
    inv,          \* inv[i]: the invitation's row
    role,         \* role[p]: the role of p's membership, NoOne without one
    req

vars == <<inv, role, req>>

\* The row, once it exists; accepted and revoked are its timestamps, expired says whether expiresAt has passed.
Invitation == [exists : BOOLEAN, email : People \cup {NoOne}, role : Roles,
               accepted : BOOLEAN, revoked : BOOLEAN, expired : BOOLEAN]
NoInvitation == [exists |-> FALSE, email |-> NoOne, role |-> OWNER_ROLE,
                 accepted |-> FALSE, revoked |-> FALSE, expired |-> FALSE]

Phases == {"idle", "asked", "checked", "revoking", "revoked", "counted", "found", "claimed"}

\* ids: the invitations a statement is about to write or has written.
Idle == [phase |-> "idle", email |-> NoOne, role |-> OWNER_ROLE, ids |-> {}]
At(r, phase) == req[r].phase = phase
End(r) == req' = [req EXCEPT ![r] = Idle]

Unanswered(i) == inv[i].exists /\ ~inv[i].accepted /\ ~inv[i].revoked

\* invitationState(inv) = "pending"
Pending(i) == Unanswered(i) /\ ~inv[i].expired

\* The invitations to an address that a new one replaces.
LinksTo(email) == {i \in Ids : Unanswered(i) /\ inv[i].email = email}

\* Rows that r's transaction has updated and not committed.
Locked(r) == IF req[r].phase \in {"revoked", "counted", "claimed"} THEN req[r].ids ELSE {}
LockedByOthers(r) == UNION {Locked(s) : s \in Requests \ {r}}

\* provisionOrganization: the founder is the only member, nobody is invited.
Init ==
    /\ inv = [i \in Ids |-> NoInvitation]
    /\ role = [p \in People |-> NoOne]
    /\ req = [r \in Requests |-> Idle]

-----------------------------------------------------------------------------
(* createInvitation and reissueInvitation *)

\* canInviteWithRole: only owners invite owners.
CanInviteWithRole(actorRole, invited) == invited = OWNER_ROLE => actorRole = OWNER_ROLE

StartCreate(r, email, invited) ==
    req' = [req EXCEPT ![r] = [Idle EXCEPT !.phase = "asked", !.email = email, !.role = invited]]

InviteMember(r, email, actorRole, invited) ==
    /\ At(r, "idle")
    /\ CanInviteWithRole(actorRole, invited)
    /\ StartCreate(r, email, invited)
    /\ UNCHANGED <<inv, role>>

\* The invitation is read before the transaction of createInvitation begins.
ReissueInvitation(r, i, actorRole) ==
    /\ At(r, "idle")
    /\ Unanswered(i)
    /\ CanInviteWithRole(actorRole, inv[i].role)
    /\ StartCreate(r, inv[i].email, inv[i].role)
    /\ UNCHANGED <<inv, role>>

\* Existing members can't be invited again.
AlreadyMember(r) ==
    /\ At(r, "asked")
    /\ role[req[r].email] # NoOne
    /\ End(r)
    /\ UNCHANGED <<inv, role>>

CheckMember(r) ==
    /\ At(r, "asked")
    /\ role[req[r].email] = NoOne
    /\ req' = [req EXCEPT ![r].phase = "checked"]
    /\ UNCHANGED <<inv, role>>

\* Mutant: only links for the same role are replaced.
BeginRevokeSameRole(r) ==
    /\ At(r, "checked")
    /\ req' = [req EXCEPT ![r] = [@ EXCEPT !.phase = "revoking",
                 !.ids = {i \in LinksTo(req[r].email) : inv[i].role = req[r].role}]]
    /\ UNCHANGED <<inv, role>>

\* The update that revokes the address's old links begins: its snapshot.
BeginRevokeOld(r) ==
    /\ At(r, "checked")
    /\ req' = [req EXCEPT ![r] = [@ EXCEPT !.phase = "revoking", !.ids = LinksTo(req[r].email)]]
    /\ UNCHANGED <<inv, role>>

\* It has waited for rows others had updated, and left out those they answered.
EndRevokeOld(r) ==
    /\ At(r, "revoking")
    /\ req[r].ids \cap LockedByOthers(r) = {}
    /\ req' = [req EXCEPT ![r] = [@ EXCEPT !.phase = "revoked",
                 !.ids = {i \in req[r].ids : Unanswered(i)}]]
    /\ UNCHANGED <<inv, role>>

\* What the count sees: its own revocations, and what others have committed.
PendingSeenBy(r) == {i \in Ids : Pending(i)} \ req[r].ids

\* Mutant: one invitation too many.
CountPendingOffByOne(r) ==
    /\ At(r, "revoked")
    /\ Cardinality(PendingSeenBy(r)) <= MAX_PENDING_INVITATIONS
    /\ req' = [req EXCEPT ![r].phase = "counted"]
    /\ UNCHANGED <<inv, role>>

CountPending(r) ==
    /\ At(r, "revoked")
    /\ Cardinality(PendingSeenBy(r)) < MAX_PENDING_INVITATIONS
    /\ req' = [req EXCEPT ![r].phase = "counted"]
    /\ UNCHANGED <<inv, role>>

\* "Too many pending invitations": everything rolls back.
LimitReached(r) ==
    /\ At(r, "revoked")
    /\ Cardinality(PendingSeenBy(r)) >= MAX_PENDING_INVITATIONS
    /\ End(r)
    /\ UNCHANGED <<inv, role>>

\* The insert; then the revocations, the row and its audit row commit.
CreateInvitation(r, n) ==
    /\ At(r, "counted")
    /\ ~inv[n].exists
    /\ inv' = [i \in Ids |->
                 IF i = n THEN [NoInvitation EXCEPT !.exists = TRUE,
                                  !.email = req[r].email, !.role = req[r].role]
                 ELSE IF i \in req[r].ids THEN [inv[i] EXCEPT !.revoked = TRUE]
                 ELSE inv[i]]
    /\ End(r)
    /\ UNCHANGED role

-----------------------------------------------------------------------------
(* revokeInvitation and acceptInvitation *)

\* Mutant: the update does not ask whether the invitation is still pending.
RevokeAnyhow(i) ==
    /\ inv[i].exists
    /\ \A r \in Requests : i \notin Locked(r)
    /\ inv' = [inv EXCEPT ![i].revoked = TRUE]
    /\ UNCHANGED <<role, req>>

\* One update and its audit row, once nobody else is updating the row.
RevokeInvitation(i) ==
    /\ Unanswered(i)
    /\ \A r \in Requests : i \notin Locked(r)
    /\ inv' = [inv EXCEPT ![i].revoked = TRUE]
    /\ UNCHANGED <<role, req>>

\* invitationMatchesEmail: the link works for the invited address only.
FindInvitation(r, i, p) ==
    /\ At(r, "idle")
    /\ Pending(i)
    /\ inv[i].email = p
    /\ req' = [req EXCEPT ![r] = [Idle EXCEPT !.phase = "found", !.email = p,
                 !.role = inv[i].role, !.ids = {i}]]
    /\ UNCHANGED <<inv, role>>

\* Mutant: the claim trusts what was read before.
ClaimAsFound(r) ==
    /\ At(r, "found")
    /\ req' = [req EXCEPT ![r].phase = "claimed"]
    /\ UNCHANGED <<inv, role>>

\* "Claim atomically": an update that finds the row still unanswered.
ClaimInvitation(r) ==
    /\ At(r, "found")
    /\ req[r].ids \cap LockedByOthers(r) = {}
    /\ \A i \in req[r].ids : Unanswered(i)
    /\ req' = [req EXCEPT ![r].phase = "claimed"]
    /\ UNCHANGED <<inv, role>>

\* "No longer valid": somebody answered it between the read and the claim.
ClaimFindsNothing(r) ==
    /\ At(r, "found")
    /\ req[r].ids \cap LockedByOthers(r) = {}
    /\ \E i \in req[r].ids : ~Unanswered(i)
    /\ End(r)
    /\ UNCHANGED <<inv, role>>

\* The membership, its audit row and its outbox event commit with the claim.
AcceptInvitation(r) ==
    /\ At(r, "claimed")
    /\ role[req[r].email] = NoOne
    /\ inv' = [i \in Ids |-> IF i \in req[r].ids THEN [inv[i] EXCEPT !.accepted = TRUE] ELSE inv[i]]
    /\ role' = [role EXCEPT ![req[r].email] = req[r].role]
    /\ End(r)

\* Mutant: "already a member" is answered without rolling back the claim.
JoinedAlreadyClaimed(r) ==
    /\ At(r, "claimed")
    /\ role[req[r].email] # NoOne
    /\ inv' = [i \in Ids |-> IF i \in req[r].ids THEN [inv[i] EXCEPT !.accepted = TRUE] ELSE inv[i]]
    /\ End(r)
    /\ UNCHANGED role

\* A membership exists, or the unique index refuses the second of two: the
\* claim is rolled back.
JoinedAlready(r) ==
    /\ At(r, "claimed")
    /\ role[req[r].email] # NoOne
    /\ End(r)
    /\ UNCHANGED <<inv, role>>

-----------------------------------------------------------------------------
(* The rest of the world. *)

\* A statement fails, or the process dies: the transaction rolls back.
Abort(r) ==
    /\ ~At(r, "idle")
    /\ End(r)
    /\ UNCHANGED <<inv, role>>

Expire(i) ==
    /\ inv[i].exists /\ ~inv[i].expired
    /\ inv' = [inv EXCEPT ![i].expired = TRUE]
    /\ UNCHANGED <<role, req>>

\* removeMember or leaveOrganization commits (module Membership).
RemoveMember(p) ==
    /\ role[p] # NoOne
    /\ role' = [role EXCEPT ![p] = NoOne]
    /\ UNCHANGED <<inv, req>>

Next ==
    \/ \E r \in Requests, email \in People, actorRole, invited \in Roles :
          InviteMember(r, email, actorRole, invited)
    \/ \E r \in Requests, i \in Ids, actorRole \in Roles : ReissueInvitation(r, i, actorRole)
    \/ \E r \in Requests :
          \/ AlreadyMember(r) \/ CheckMember(r)
          \/ BeginRevokeOld(r) \/ EndRevokeOld(r)
          \/ CountPending(r) \/ LimitReached(r)
          \/ ClaimInvitation(r) \/ ClaimFindsNothing(r)
          \/ AcceptInvitation(r) \/ JoinedAlready(r)
          \/ Abort(r)
    \/ \E r \in Requests, i \in Ids : CreateInvitation(r, i)
    \/ \E r \in Requests, i \in Ids, p \in People : FindInvitation(r, i, p)
    \/ \E i \in Ids : RevokeInvitation(i) \/ Expire(i)
    \/ \E p \in People : RemoveMember(p)

Spec == Init /\ [][Next]_vars

-----------------------------------------------------------------------------
Request == [phase : Phases, email : People \cup {NoOne}, role : Roles, ids : SUBSET Ids]

TypeOK ==
    /\ inv \in [Ids -> Invitation]
    /\ role \in [People -> Roles \cup {NoOne}]
    /\ req \in [Requests -> Request]

\* An invitation is answered once: the accept and the revocation that race for
\* it, by hand or by a new invitation to the address, cannot both succeed
\* (invitations.ts:293-299).
AnsweredOnce == \A i \in Ids : ~(inv[i].accepted /\ inv[i].revoked)

\* "Single-use and bound to its email address" (invitations.ts:256-259): whoever
\* becomes a member does so by an invitation to them, for the role they get,
\* that nobody had used or revoked by then and that is used up with it.
JoinsByInvitation ==
    [][\A p \in People : role[p] = NoOne /\ role'[p] # NoOne =>
          \E i \in Ids :
             /\ Unanswered(i) /\ inv'[i].accepted
             /\ inv[i].email = p /\ inv[i].role = role'[p]]_vars

\* The converse: an invitation is used up for good, and only by its address
\* joining.  A claim whose accept fails afterwards does not stick
\* (invitations.ts:302-309).
UsedUpByJoining ==
    [][\A i \in Ids : inv'[i].accepted # inv[i].accepted =>
          /\ inv'[i].accepted
          /\ role[inv[i].email] = NoOne /\ role'[inv[i].email] # NoOne]_vars

\* The limit is counted before the insert and nothing locks it: it can be
\* passed, but by fewer invitations than requests run at once
\* (invitations.ts:79-89).
PendingIsBounded ==
    Cardinality({i \in Ids : Pending(i)}) < MAX_PENDING_INVITATIONS + Cardinality(Requests)

\* "Re-inviting the same pending address replaces the old link"
\* (invitations.ts:45), but not those that others insert meanwhile: an address
\* has never more unanswered links than requests run at once, however often it
\* is invited.
LinksAreReplaced ==
    \A p \in People : Cardinality(LinksTo(p)) <= Cardinality(Requests)
=============================================================================
