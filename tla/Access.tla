------------------------------- MODULE Access -------------------------------
(***************************************************************************)
(* Custom roles and API keys of one workspace (db/platform/roles.ts and    *)
(* api-keys.ts, domain role-policy.ts, and the server actions above them). *)
(* A transaction reads what it decides on, takes no lock, and writes;      *)
(* others commit in between.  Constraints of the database hold at every    *)
(* write.                                                                  *)
(***************************************************************************)
EXTENDS Naturals, FiniteSets

CONSTANTS
    Permissions, Manage, Settings,  \* two of them open these operations
    Roles,                          \* ids of custom roles, each used once
    Owner,                          \* the built-in role that holds everything
    Members, Founder,
    Keys,                           \* ids of API keys, each used once
    Requests,
    MAX_CUSTOM_ROLES, MAX_ACTIVE_API_KEYS

ASSUME AccessAssumption ==
    /\ {Manage, Settings} \subseteq Permissions
    /\ Owner \notin Roles
    /\ Founder \in Members
    /\ IsFiniteSet(Roles) /\ IsFiniteSet(Keys) /\ IsFiniteSet(Requests)
    /\ MAX_CUSTOM_ROLES \in Nat \ {0} /\ MAX_ACTIVE_API_KEYS \in Nat \ {0}

VARIABLES
    role,           \* state of each custom role
    perms,          \* its permissions: the rows of role_permissions
    holder,         \* the role of each member
    key,            \* state of each API key
    req,            \* transactions under way
    crossed         \* roles an update wrote to on an outdated reading (history)

vars == <<role, perms, holder, key, req, crossed>>

Custom == {r \in Roles : role[r] = "there"}
Active == {k \in Keys : key[k] = "active"}

Idle == [op |-> "none"]
RoleChanges == [op : {"create", "update", "delete"}, role : Roles, held : SUBSET Permissions,
                cur : SUBSET Permissions, want : SUBSET Permissions]
Assignments == [op : {"assign"}, role : Roles \cup {Owner}, member : Members]
KeyCreations == [op : {"key"}]

TypeOK ==
    /\ role \in [Roles -> {"new", "there", "gone"}]
    /\ perms \in [Roles -> SUBSET Permissions]
    /\ holder \in [Members -> Roles \cup {Owner}]
    /\ key \in [Keys -> {"new", "active", "revoked"}]
    /\ req \in [Requests -> RoleChanges \cup Assignments \cup KeyCreations \cup {Idle}]
    /\ crossed \in SUBSET Roles

Init ==
    /\ role = [r \in Roles |-> "new"]
    /\ perms = [r \in Roles |-> {}]
    /\ holder = [m \in Members |-> Owner]
    /\ key = [k \in Keys |-> "new"]
    /\ req = [q \in Requests |-> Idle]
    /\ crossed = {}

Start(q, what) == req[q] = Idle /\ req' = [req EXCEPT ![q] = what]
Finish(q) == req' = [req EXCEPT ![q] = Idle]

\* What requireOrgContext reads for a member.
Held(m) == IF holder[m] = Owner THEN Permissions ELSE perms[holder[m]]

-----------------------------------------------------------------------------
(* The policy on custom roles.                                             *)

\* The mutation: what is taken away is not looked at.
EscalatingByAdding(held, cur, want) == (want \ cur) \ held

\* Nobody grants, or takes away, a permission they do not hold.
Escalating(held, cur, want) == ((want \ cur) \cup (cur \ want)) \ held

\* The mutation: up to and including the limit.
CanCreateRoleAtLimit(held, want, count) ==
    /\ want # {}
    /\ count <= MAX_CUSTOM_ROLES
    /\ Escalating(held, {}, want) = {}

CanCreateRole(held, want, count) ==
    /\ want # {}
    /\ count < MAX_CUSTOM_ROLES
    /\ Escalating(held, {}, want) = {}

\* The mutation: a role may be edited down to nothing.
CanUpdateRoleToNothing(held, cur, want) == Escalating(held, cur, want) = {}

CanUpdateRole(held, cur, want) ==
    /\ want # {}
    /\ Escalating(held, cur, want) = {}

-----------------------------------------------------------------------------
(* Reading: the transaction begins, and the policy has its say.            *)

BeginCreate(q, m, r, want) ==
    /\ Manage \in Held(m)
    /\ role[r] = "new"
    /\ CanCreateRole(Held(m), want, Cardinality(Custom))
    /\ Start(q, [op |-> "create", role |-> r, held |-> Held(m), cur |-> {}, want |-> want])
    /\ UNCHANGED <<role, perms, holder, key, crossed>>

BeginUpdate(q, m, r, want) ==
    /\ Manage \in Held(m)
    /\ r \in Custom
    /\ CanUpdateRole(Held(m), perms[r], want)
    /\ Start(q, [op |-> "update", role |-> r, held |-> Held(m),
                 cur |-> perms[r], want |-> want])
    /\ UNCHANGED <<role, perms, holder, key, crossed>>

BeginDelete(q, m, r) ==
    /\ Manage \in Held(m)
    /\ r \in Custom
    /\ \A x \in Members : holder[x] # r
    /\ Start(q, [op |-> "delete", role |-> r, held |-> Held(m), cur |-> {}, want |-> {}])
    /\ UNCHANGED <<role, perms, holder, key, crossed>>

\* changeMemberRole looks the new role up.
BeginAssign(q, m, r) ==
    /\ m # Founder
    /\ r \in Custom \cup {Owner}
    /\ Start(q, [op |-> "assign", role |-> r, member |-> m])
    /\ UNCHANGED <<role, perms, holder, key, crossed>>

BeginKey(q, m) ==
    /\ Settings \in Held(m)
    /\ Cardinality(Active) < MAX_ACTIVE_API_KEYS
    /\ Start(q, [op |-> "key"])
    /\ UNCHANGED <<role, perms, holder, key, crossed>>

-----------------------------------------------------------------------------
(* Writing: the transaction commits.                                       *)

CommitCreate(q) ==
    LET r == req[q].role
    IN  /\ req[q].op = "create"
        /\ role[r] = "new"
        /\ role' = [role EXCEPT ![r] = "there"]
        /\ perms' = [perms EXCEPT ![r] = req[q].want]
        /\ Finish(q)
        /\ UNCHANGED <<holder, key, crossed>>

\* The rows to add and to remove were worked out on what was read.  Adding a
\* row that is there by now breaks the primary key, and nothing is written.
CommitUpdate(q) ==
    LET r == req[q].role
        added == req[q].want \ req[q].cur
        removed == req[q].cur \ req[q].want
    IN  /\ req[q].op = "update"
        /\ r \in Custom
        /\ added \cap perms[r] = {}
        /\ perms' = [perms EXCEPT ![r] = (@ \ removed) \cup added]
        /\ crossed' = IF perms[r] = req[q].cur THEN crossed \ {r} ELSE crossed \cup {r}
        /\ Finish(q)
        /\ UNCHANGED <<role, holder, key>>

\* Members hold on to their role (ON DELETE RESTRICT).
CommitDelete(q) ==
    LET r == req[q].role
    IN  /\ req[q].op = "delete"
        /\ r \in Custom
        /\ \A x \in Members : holder[x] # r
        /\ role' = [role EXCEPT ![r] = "gone"]
        /\ perms' = [perms EXCEPT ![r] = {}]
        /\ Finish(q)
        /\ UNCHANGED <<holder, key, crossed>>

CommitAssign(q) ==
    /\ req[q].op = "assign"
    /\ req[q].role \in Custom \cup {Owner}
    /\ holder' = [holder EXCEPT ![req[q].member] = req[q].role]
    /\ Finish(q)
    /\ UNCHANGED <<role, perms, key, crossed>>

CommitKey(q, k) ==
    /\ req[q].op = "key"
    /\ key[k] = "new"
    /\ key' = [key EXCEPT ![k] = "active"]
    /\ Finish(q)
    /\ UNCHANGED <<role, perms, holder, crossed>>

\* Refused by the database, or the connection is lost: nothing is written.
RollBack(q) ==
    /\ req[q] # Idle
    /\ Finish(q)
    /\ UNCHANGED <<role, perms, holder, key, crossed>>

\* One conditional write; a key that is not active any more is not found.
RevokeKey(m, k) ==
    /\ Settings \in Held(m)
    /\ k \in Active
    /\ key' = [key EXCEPT ![k] = "revoked"]
    /\ UNCHANGED <<role, perms, holder, req, crossed>>

Next ==
    \/ \E q \in Requests :
          \/ \E m \in Members, r \in Roles :
                \/ \E want \in SUBSET Permissions : \/ BeginCreate(q, m, r, want)
                                                    \/ BeginUpdate(q, m, r, want)
                \/ BeginDelete(q, m, r)
          \/ \E m \in Members, r \in Roles \cup {Owner} : BeginAssign(q, m, r)
          \/ \E m \in Members : BeginKey(q, m)
          \/ CommitCreate(q)
          \/ CommitUpdate(q)
          \/ CommitDelete(q)
          \/ CommitAssign(q)
          \/ \E k \in Keys : CommitKey(q, k)
          \/ RollBack(q)
    \/ \E m \in Members, k \in Keys : RevokeKey(m, k)

Spec == Init /\ [][Next]_vars

-----------------------------------------------------------------------------
(* The limits are counted before the insert and without a lock: each is    *)
(* exceeded by at most the transactions that counted before the last       *)
(* insert.  (roles.ts, api-keys.ts.)                                       *)
LimitsBounded ==
    /\ Cardinality(Custom) < MAX_CUSTOM_ROLES + Cardinality(Requests)
    /\ Cardinality(Active) < MAX_ACTIVE_API_KEYS + Cardinality(Requests)

(* A permission comes to a role or leaves it only through somebody who     *)
(* held it when their request began, also when updates of the role cross;  *)
(* or with the role itself.  (role-policy.ts: canCreateRole,               *)
(* canUpdateRole.)                                                         *)
OnlyHeldPermissionsMove ==
    [][ \A r \in Roles, p \in Permissions :
            /\ p \in perms[r] \cup perms'[r]
            /\ ~(p \in perms[r] /\ p \in perms'[r])
            /\ role'[r] # "gone"
            => \E q \in Requests : /\ req[q].op \in {"create", "update"}
                                   /\ req[q].role = r
                                   /\ p \in req[q].held ]_vars

(* A custom role has a permission, and a member's role is there, unless    *)
(* updates of the role crossed: two that each leave something can leave    *)
(* nothing between them.  (roles.ts: updateRole, deleteRole.)              *)
RolesKeepAPermission ==
    /\ \A r \in Custom : perms[r] = {} => r \in crossed
    /\ \A m \in Members : holder[m] \in Custom \cup {Owner}
=============================================================================
