----------------------------- MODULE Membership -----------------------------
(***************************************************************************)
(* The members of one workspace and the requests that change them          *)
(* (packages/db/src/platform/members.ts with the rules of packages/domain/ *)
(* src/organization/membership-policy.ts, called from apps/web/src/        *)
(* features/organizations/actions.ts).                                     *)
(*                                                                         *)
(* A request is authorized against its actor's membership first; then a    *)
(* transaction takes the workspace's advisory lock, reads the facts of     *)
(* actor and target, counts the active owners, applies the policy to what  *)
(* it read and writes.  The database runs READ COMMITTED, so each of those *)
(* statements sees what had committed when it ran, and acceptInvitation,   *)
(* which takes no lock, may add a member between any two of them.          *)
(***************************************************************************)
EXTENDS Naturals, FiniteSets

CONSTANTS
    Members,      \* membership ids a behaviour may create
    Roles,
    OWNER_ROLE,
    ManagerRoles, \* roles that hold platform.members.manage
    Requests,     \* server actions that may be in flight at once
    NoOne         \* stands for "no membership"

ASSUME MembershipAssumption ==
    /\ IsFiniteSet(Members)
    /\ OWNER_ROLE \in Roles
    /\ ManagerRoles \subseteq Roles
    /\ NoOne \notin Members

VARIABLES
    member,       \* member[m]: the row, with status ABSENT before it exists
                  \*   and REMOVED after it is deleted
    req           \* req[r]: a request, and what its transaction has read

vars == <<member, req>>

Rows == [role : Roles, status : {"ABSENT", "ACTIVE", "SUSPENDED", "REMOVED"}]
Ops == {"changeRole", "suspend", "reactivate", "remove", "leave"}
Phases == {"idle", "waiting", "locked", "read", "counted"}

\* The role of a row that does not exist means nothing.
NoRow == [role |-> OWNER_ROLE, status |-> "ABSENT"]
DeletedRow == [NoRow EXCEPT !.status = "REMOVED"]

Exists(m) == member[m].status \in {"ACTIVE", "SUSPENDED"}
Owns(m) == Exists(m) /\ member[m].role = OWNER_ROLE
ActiveOwners == {m \in Members : Owns(m) /\ member[m].status = "ACTIVE"}

\* A request that is not running remembers nothing.
Idle == [phase |-> "idle", op |-> "leave", actor |-> NoOne, target |-> NoOne,
         newRole |-> OWNER_ROLE, a |-> NoRow, t |-> NoRow, owners |-> 0]

\* provisionOrganization: the creator is the only member, an active owner.
Init ==
    /\ \E founder \in Members :
          member = [m \in Members |->
                      IF m = founder THEN [role |-> OWNER_ROLE, status |-> "ACTIVE"] ELSE NoRow]
    /\ req = [r \in Requests |-> Idle]

-----------------------------------------------------------------------------
(* The policy, over the facts a request has read. *)

IsOwner(row) == row.role = OWNER_ROLE
Self(q) == q.actor = q.target

\* Mutant: the last owner is protected only once there is none left.
LastOwnerOffByOne(q) == IsOwner(q.t) /\ q.t.status = "ACTIVE" /\ q.owners < 1

IsLastActiveOwner(q) == IsOwner(q.t) /\ q.t.status = "ACTIVE" /\ q.owners <= 1

\* Mutant: touching an owner needs no owner, granting the role does.
OwnerGuardOnGrantOnly(q) ==
    q.op = "changeRole" /\ q.newRole = OWNER_ROLE => IsOwner(q.a)

\* Only owners may grant, revoke or touch the owner role.
OwnerGuard(q) ==
    IsOwner(q.t) \/ (q.op = "changeRole" /\ q.newRole = OWNER_ROLE) => IsOwner(q.a)

CanChangeRole(q) ==
    /\ ~Self(q)
    /\ OwnerGuard(q)
    /\ q.newRole # OWNER_ROLE => ~IsLastActiveOwner(q)

CanSuspend(q) ==
    /\ ~Self(q)
    /\ OwnerGuard(q)
    /\ q.t.status = "ACTIVE"
    /\ ~IsLastActiveOwner(q)

CanReactivate(q) == ~Self(q) /\ OwnerGuard(q) /\ q.t.status = "SUSPENDED"

CanRemove(q) == ~Self(q) /\ OwnerGuard(q) /\ ~IsLastActiveOwner(q)

CanLeave(q) == ~IsLastActiveOwner(q)

Allowed(q) ==
    CASE q.op = "changeRole" -> CanChangeRole(q)
      [] q.op = "suspend" -> CanSuspend(q)
      [] q.op = "reactivate" -> CanReactivate(q)
      [] q.op = "remove" -> CanRemove(q)
      [] q.op = "leave" -> CanLeave(q)

-----------------------------------------------------------------------------
(* A request, step by step. *)

At(r, phase) == req[r].phase = phase
End(r) == req' = [req EXCEPT ![r] = Idle]

\* requireOrgContext: the actor is ACTIVE now, and may manage members now; a
\* member may always leave.  The target is an id the actor's page showed.
Ask(r, op, actor, target, newRole) ==
    /\ At(r, "idle")
    /\ member[actor].status = "ACTIVE"
    /\ IF op = "leave" THEN target = actor
       ELSE member[actor].role \in ManagerRoles /\ member[target].status # "ABSENT"
    /\ op # "changeRole" => newRole = OWNER_ROLE       \* the field is not used
    /\ req' = [req EXCEPT ![r] = [Idle EXCEPT !.phase = "waiting", !.op = op,
                 !.actor = actor, !.target = target, !.newRole = newRole]]
    /\ UNCHANGED member

LockHolders == {r \in Requests : req[r].phase \in {"locked", "read", "counted"}}

\* Mutant: no advisory lock.
NoLock(r) ==
    /\ At(r, "waiting")
    /\ req' = [req EXCEPT ![r].phase = "locked"]
    /\ UNCHANGED member

\* pg_advisory_xact_lock: held until the transaction ends.
LockOrganization(r) ==
    /\ At(r, "waiting")
    /\ LockHolders = {}
    /\ req' = [req EXCEPT ![r].phase = "locked"]
    /\ UNCHANGED member

\* facts(actor) and facts(target); only memberships that do not exist yet can
\* change between the two statements.
ReadFacts(r) ==
    LET q == req[r]
    IN /\ At(r, "locked")
       /\ Exists(q.actor) /\ Exists(q.target)
       /\ req' = [req EXCEPT ![r] =
                     [q EXCEPT !.phase = "read", !.a = member[q.actor], !.t = member[q.target]]]
       /\ UNCHANGED member

\* "Member not found": the actor or the target is gone.
NotFound(r) ==
    /\ At(r, "locked")
    /\ ~Exists(req[r].actor) \/ ~Exists(req[r].target)
    /\ End(r)
    /\ UNCHANGED member

CountOwners(r) ==
    /\ At(r, "read")
    /\ req' = [req EXCEPT ![r] =
                  [@ EXCEPT !.phase = "counted", !.owners = Cardinality(ActiveOwners)]]
    /\ UNCHANGED member

\* The policy refuses; the transaction rolls back.
Deny(r) ==
    /\ At(r, "counted")
    /\ ~Allowed(req[r])
    /\ End(r)
    /\ UNCHANGED member

\* The write, its audit row and its outbox event commit together and the lock
\* is released.
Commit(r, op) ==
    /\ At(r, "counted")
    /\ req[r].op = op
    /\ Allowed(req[r])
    /\ End(r)

\* A role the member has already changes nothing; one that was deleted
\* meanwhile rolls back (Abort).
ChangeMemberRole(r) ==
    /\ Commit(r, "changeRole")
    /\ member' = [member EXCEPT ![req[r].target].role = req[r].newRole]

SetMemberStatus(r) ==
    \/ /\ Commit(r, "suspend")
       /\ member' = [member EXCEPT ![req[r].target].status = "SUSPENDED"]
    \/ /\ Commit(r, "reactivate")
       /\ member' = [member EXCEPT ![req[r].target].status = "ACTIVE"]

RemoveMember(r) ==
    /\ Commit(r, "remove")
    /\ member' = [member EXCEPT ![req[r].target] = DeletedRow]

LeaveOrganization(r) ==
    /\ Commit(r, "leave")
    /\ member' = [member EXCEPT ![req[r].actor] = DeletedRow]

\* The request dies before its commit: connection lost, transaction timeout.
Abort(r) ==
    /\ ~At(r, "idle")
    /\ End(r)
    /\ UNCHANGED member

\* acceptInvitation commits: a new row, ACTIVE, in the invitation's role.
Join(m, role) ==
    /\ member[m].status = "ABSENT"
    /\ member' = [member EXCEPT ![m] = [role |-> role, status |-> "ACTIVE"]]
    /\ UNCHANGED req

-----------------------------------------------------------------------------
RequestStep(r) ==
    \/ ReadFacts(r)
    \/ NotFound(r)
    \/ CountOwners(r)
    \/ Deny(r)
    \/ ChangeMemberRole(r)
    \/ SetMemberStatus(r)
    \/ RemoveMember(r)
    \/ LeaveOrganization(r)

Next ==
    \/ \E r \in Requests, op \in Ops, actor, target \in Members, newRole \in Roles :
          Ask(r, op, actor, target, newRole)
    \/ \E r \in Requests : LockOrganization(r) \/ RequestStep(r) \/ Abort(r)
    \/ \E m \in Members, role \in Roles : Join(m, role)

Spec == Init /\ [][Next]_vars

-----------------------------------------------------------------------------
Request == [phase : Phases, op : Ops,
            actor : Members \cup {NoOne}, target : Members \cup {NoOne},
            newRole : Roles, a : Rows, t : Rows, owners : Nat]

TypeOK ==
    /\ member \in [Members -> Rows]
    /\ req \in [Requests -> Request]
    /\ \A r \in Requests :
          ~At(r, "idle") => req[r].actor \in Members /\ req[r].target \in Members

\* "Keeps every workspace with at least one active owner"
\* (membership-policy.ts:1-5; threat-model.md:20), whatever requests interleave.
AlwaysAnActiveOwner == ActiveOwners # {}

\* What a transaction decides on is still so when it decides: the facts are the
\* rows, and there are at least as many active owners as it counted
\* (members.ts:102-108).
SnapshotsAreCurrent ==
    \A r \in Requests :
       LET q == req[r]
       IN /\ q.phase \in {"read", "counted"} =>
                q.a = member[q.actor] /\ q.t = member[q.target]
          /\ q.phase = "counted" => q.owners <= Cardinality(ActiveOwners)

\* The work of a request on a member: it commits now and changes m's row.
ActsOn(r, m) ==
    /\ req[r].phase = "counted" /\ req'[r].phase = "idle"
    /\ req[r].target = m

\* "Only owners can grant, change or remove the owner role"
\* (membership-policy.ts:83-88): when a member becomes or ceases to be an owner,
\* or an owner's row changes, the change is the member's own leaving, the work of
\* somebody who is an owner at that very moment, or a new member's invitation.
OwnersAnswerToOwners ==
    [][\A m \in Members :
          /\ Exists(m) /\ member'[m] # member[m]
          /\ Owns(m) \/ Owns(m)'
          => \E r \in Requests :
                /\ ActsOn(r, m)
                /\ \/ req[r].op = "leave" /\ req[r].actor = m
                   \/ Owns(req[r].actor)]_vars

\* A request authorized earlier may wait long for the lock.  Whoever was removed
\* or left meanwhile changes nobody any more: the facts are read again under the
\* lock and their membership is not found (members.ts:83-89).
OnlyMembersAct ==
    [][\A m \in Members :
          Exists(m) /\ member'[m] # member[m] =>
             \E r \in Requests : ActsOn(r, m) /\ Exists(req[r].actor)]_vars
=============================================================================
