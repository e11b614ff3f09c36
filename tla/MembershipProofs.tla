-------------------------- MODULE MembershipProofs --------------------------
(***************************************************************************)
(* Proofs about Membership, for any number of members, roles and requests. *)
(* The argument: one transaction at a time holds the advisory lock, nobody *)
(* else changes a row that exists, so what the holder has read is current; *)
(* the policy it applies therefore speaks about the real owners.           *)
(***************************************************************************)
EXTENDS Membership, FiniteSetTheorems, TLAPS

LockIsExclusive ==
    \A r, s \in LockHolders : r = s

\* A transaction that has read its facts has found both memberships, and a
\* leaving member is its own target.
FactsAreOfMembers ==
    \A r \in Requests :
       LET q == req[r]
       IN /\ q.phase \in {"read", "counted"} => Exists(q.actor) /\ Exists(q.target)
          /\ q.op = "leave" => q.actor = q.target

IInv ==
    /\ TypeOK
    /\ LockIsExclusive
    /\ FactsAreOfMembers
    /\ SnapshotsAreCurrent
    /\ AlwaysAnActiveOwner

-----------------------------------------------------------------------------
\* The owners of a workspace are finitely many.
LEMMA OwnersFinite ==
    /\ IsFiniteSet(ActiveOwners)
    /\ Cardinality(ActiveOwners) \in Nat
  <1>1. ActiveOwners \subseteq Members
    BY DEF ActiveOwners
  <1>2. IsFiniteSet(ActiveOwners)
    BY <1>1, MembershipAssumption, FS_Subset
  <1>3. QED
    BY <1>2, FS_CardinalityType

\* Where more than one element is counted there is one besides x.
LEMMA AnotherOne ==
    ASSUME NEW S, IsFiniteSet(S), NEW x, Cardinality(S) > 1
    PROVE  \E y \in S : y # x
  <1>1. SUFFICES ASSUME S \subseteq {x}
                 PROVE  FALSE
    OBVIOUS
  <1>2. IsFiniteSet({x}) /\ Cardinality({x}) = 1
    BY FS_Singleton
  <1>3. Cardinality(S) <= 1
    BY <1>1, <1>2, FS_Subset
  <1>4. Cardinality(S) \in Nat
    BY FS_CardinalityType
  <1>5. QED
    BY <1>3, <1>4

\* The rows a member can have are closed under what the requests write.
LEMMA RowsClosed ==
    /\ NoRow \in Rows /\ DeletedRow \in Rows
    /\ \A role \in Roles : [role |-> role, status |-> "ACTIVE"] \in Rows
    /\ Idle \in Request
    /\ Idle.phase = "idle" /\ Idle.op = "leave" /\ Idle.actor = Idle.target
  BY MembershipAssumption DEF Rows, NoRow, DeletedRow, Idle, Request, Phases, Ops

-----------------------------------------------------------------------------
LEMMA TypeStep == TypeOK /\ [Next]_vars => TypeOK'
  <1> SUFFICES ASSUME TypeOK, [Next]_vars
               PROVE  TypeOK'
    OBVIOUS
  <1> USE DEF TypeOK, At
  <1>0. ASSUME NEW r \in Requests, End(r), member' \in [Members -> Rows]
        PROVE  TypeOK'
    BY <1>0, RowsClosed DEF End
  <1>1. ASSUME NEW r \in Requests, NEW op \in Ops, NEW actor \in Members,
               NEW target \in Members, NEW newRole \in Roles,
               Ask(r, op, actor, target, newRole)
        PROVE  TypeOK'
    BY <1>1, RowsClosed DEF Ask, Idle, Request, Phases, Ops
  <1>2. ASSUME NEW r \in Requests, LockOrganization(r)
        PROVE  TypeOK'
    BY <1>2 DEF LockOrganization, Request, Phases
  <1>3. ASSUME NEW r \in Requests, ReadFacts(r)
        PROVE  TypeOK'
    <2>1. req[r].actor \in Members /\ req[r].target \in Members
      BY <1>3 DEF ReadFacts
    <2>2. member[req[r].actor] \in Rows /\ member[req[r].target] \in Rows
      BY <2>1
    <2> DEFINE q == [req[r] EXCEPT !.phase = "read",
                        !.a = member[req[r].actor], !.t = member[req[r].target]]
    <2>3. q \in Request
      BY <2>2 DEF Request, Phases
    <2>4. q.actor \in Members /\ q.target \in Members
      BY <2>1 DEF Request
    <2>5. req' = [req EXCEPT ![r] = q] /\ member' = member
      BY <1>3 DEF ReadFacts
    <2> HIDE DEF q
    <2>6. QED
      BY <2>3, <2>4, <2>5
  <1>4. ASSUME NEW r \in Requests, CountOwners(r)
        PROVE  TypeOK'
    BY <1>4, OwnersFinite DEF CountOwners, Request, Phases
  <1>5. ASSUME NEW r \in Requests, NotFound(r) \/ Deny(r) \/ Abort(r)
        PROVE  TypeOK'
    BY <1>5, <1>0 DEF NotFound, Deny, Abort
  <1>6. ASSUME NEW r \in Requests, ChangeMemberRole(r)
        PROVE  TypeOK'
    BY <1>6, <1>0 DEF ChangeMemberRole, Commit, Rows, Request
  <1>7. ASSUME NEW r \in Requests, SetMemberStatus(r)
        PROVE  TypeOK'
    BY <1>7, <1>0 DEF SetMemberStatus, Commit, Rows
  <1>8. ASSUME NEW r \in Requests, RemoveMember(r) \/ LeaveOrganization(r)
        PROVE  TypeOK'
    BY <1>8, <1>0, RowsClosed DEF RemoveMember, LeaveOrganization, Commit
  <1>9. ASSUME NEW m \in Members, NEW role \in Roles, Join(m, role)
        PROVE  TypeOK'
    BY <1>9, RowsClosed DEF Join
  <1>10. CASE UNCHANGED vars
    BY <1>10 DEF vars
  <1>11. QED
    BY <1>1, <1>2, <1>3, <1>4, <1>5, <1>6, <1>7, <1>8, <1>9, <1>10 DEF Next, RequestStep

-----------------------------------------------------------------------------
(* What a step does, seen from one request and from one row. *)

\* Writing what the policy allowed, and nothing else, changes a row.
Writes(r) ==
    \/ ChangeMemberRole(r) \/ SetMemberStatus(r)
    \/ RemoveMember(r) \/ LeaveOrganization(r)

\* A write follows a policy that said yes to a transaction holding the lock.
LEMMA WriteFacts ==
    ASSUME IInv, NEW r \in Requests, Writes(r)
    PROVE  /\ r \in LockHolders /\ req[r].phase = "counted"
           /\ req' = [req EXCEPT ![r] = Idle]
           /\ req[r].target \in Members /\ req[r].actor \in Members
           /\ Exists(req[r].actor) /\ Exists(req[r].target)
           /\ \A m \in Members : m # req[r].target => member'[m] = member[m]
           /\ req[r].op = "leave" => req[r].actor = req[r].target
  <1>1. req[r].phase = "counted" /\ req' = [req EXCEPT ![r] = Idle]
    BY DEF Writes, ChangeMemberRole, SetMemberStatus, RemoveMember, LeaveOrganization,
           Commit, At, End
  <1>2. req[r].target \in Members /\ req[r].actor \in Members
    BY <1>1 DEF IInv, TypeOK, At
  <1>3. /\ Exists(req[r].actor) /\ Exists(req[r].target)
        /\ req[r].op = "leave" => req[r].actor = req[r].target
    BY <1>1 DEF IInv, FactsAreOfMembers
  <1>4. \A m \in Members : m # req[r].target => member'[m] = member[m]
    BY <1>3 DEF Writes, ChangeMemberRole, SetMemberStatus, RemoveMember,
           LeaveOrganization, Commit, IInv, TypeOK
  <1>5. QED
    BY <1>1, <1>2, <1>3, <1>4 DEF LockHolders

\* Apart from writes and joins no step touches a row.
LEMMA OtherStepsKeepRows ==
    ASSUME [Next]_vars
    PROVE  \/ \E r \in Requests : Writes(r)
           \/ \E m \in Members, role \in Roles : Join(m, role)
           \/ UNCHANGED member
  BY DEF Next, RequestStep, Writes, Ask, LockOrganization, ReadFacts, NotFound, CountOwners,
         Deny, Abort, vars

-----------------------------------------------------------------------------
\* The lock has one holder at most.
LEMMA LockStep == TypeOK /\ LockIsExclusive /\ [Next]_vars => LockIsExclusive'
  <1> SUFFICES ASSUME TypeOK, LockIsExclusive, [Next]_vars
               PROVE  LockIsExclusive'
    OBVIOUS
  <1> USE DEF LockHolders, LockIsExclusive
  <1>1. CASE LockHolders' \subseteq LockHolders
    BY <1>1
  <1>2. ASSUME NEW r \in Requests, LockOrganization(r)
        PROVE  LockIsExclusive'
    BY <1>2 DEF LockOrganization, TypeOK, At
  <1>3. ASSUME NEW r \in Requests, End(r)
        PROVE  LockHolders' \subseteq LockHolders
    BY <1>3, RowsClosed DEF End, TypeOK
  <1>4. ASSUME NEW r \in Requests, RequestStep(r) \/ Abort(r)
        PROVE  LockHolders' \subseteq LockHolders
    <2>1. CASE ReadFacts(r) \/ CountOwners(r)
      BY <2>1 DEF ReadFacts, CountOwners, TypeOK, At
    <2>2. CASE ~(ReadFacts(r) \/ CountOwners(r))
      BY <1>3, <1>4, <2>2 DEF RequestStep, NotFound, Deny, ChangeMemberRole, SetMemberStatus,
             RemoveMember, LeaveOrganization, Commit, Abort
    <2>3. QED
      BY <2>1, <2>2
  <1>5. ASSUME NEW r \in Requests, NEW op \in Ops, NEW actor \in Members,
               NEW target \in Members, NEW newRole \in Roles,
               Ask(r, op, actor, target, newRole)
        PROVE  LockHolders' \subseteq LockHolders
    BY <1>5 DEF Ask, TypeOK, Idle
  <1>6. CASE UNCHANGED req
    BY <1>6
  <1>7. QED
    BY <1>1, <1>2, <1>4, <1>5, <1>6 DEF Next, Join, vars

-----------------------------------------------------------------------------
(* The facts a transaction holds. *)

\* What a request is after a step that is not its own, and after its own.
LEMMA OtherRequestsKeep ==
    ASSUME TypeOK, NEW r \in Requests, NEW s \in Requests, s # r,
           RequestStep(r) \/ Abort(r) \/ LockOrganization(r)
    PROVE  req'[s] = req[s]
  BY DEF RequestStep, Abort, LockOrganization, ReadFacts, NotFound, CountOwners, Deny,
         ChangeMemberRole, SetMemberStatus, RemoveMember, LeaveOrganization, Commit, End, TypeOK

\* Where a request that has read its facts comes from.
LEMMA ReadersStep ==
    ASSUME TypeOK, [Next]_vars, NEW r \in Requests, req'[r].phase \in {"read", "counted"}
    PROVE  \/ req'[r] = req[r]
           \/ ReadFacts(r)
           \/ CountOwners(r)
  <1> USE DEF TypeOK
  <1>1. ASSUME NEW s \in Requests, RequestStep(s) \/ Abort(s) \/ LockOrganization(s), s # r
        PROVE  req'[r] = req[r]
    BY <1>1, OtherRequestsKeep
  <1>2. ASSUME End(r)
        PROVE  FALSE
    BY <1>2, RowsClosed DEF End
  <1>3. ASSUME LockOrganization(r)
        PROVE  FALSE
    BY <1>3 DEF LockOrganization
  <1>4. ASSUME RequestStep(r) \/ Abort(r)
        PROVE  ReadFacts(r) \/ CountOwners(r)
    BY <1>4, <1>2 DEF RequestStep, Abort, NotFound, Deny, ChangeMemberRole, SetMemberStatus,
           RemoveMember, LeaveOrganization, Commit
  <1>5. ASSUME NEW s \in Requests, NEW op \in Ops, NEW actor \in Members,
               NEW target \in Members, NEW newRole \in Roles,
               Ask(s, op, actor, target, newRole)
        PROVE  req'[r] = req[r]
    BY <1>5 DEF Ask, Idle
  <1>6. CASE UNCHANGED req
    BY <1>6
  <1>7. QED
    BY <1>1, <1>3, <1>4, <1>5, <1>6 DEF Next, Join, vars

\* The row of an existing membership, and the active owners a transaction has
\* counted, stay while it holds the lock and has not written.
LEMMA RowsHeld ==
    ASSUME IInv, [Next]_vars, NEW r \in LockHolders, req'[r].phase # "idle"
    PROVE  /\ \A m \in Members : Exists(m) => member'[m] = member[m]
           /\ ActiveOwners \subseteq ActiveOwners'
  <1>1. ASSUME NEW s \in Requests, Writes(s)
        PROVE  FALSE
    <2>1. s \in LockHolders /\ req' = [req EXCEPT ![s] = Idle]
      BY <1>1, WriteFacts
    <2>2. s = r
      BY <2>1 DEF IInv, LockIsExclusive
    <2>3. QED
      BY <2>1, <2>2, <1>1, RowsClosed DEF IInv, TypeOK
  <1>2. \A m \in Members : Exists(m) => member'[m] = member[m]
    <2>1. CASE UNCHANGED member
      BY <2>1
    <2>2. CASE \E m \in Members, role \in Roles : Join(m, role)
      BY <2>2 DEF Join, Exists, IInv, TypeOK
    <2>3. QED
      BY <1>1, <2>1, <2>2, OtherStepsKeepRows
  <1>3. QED
    BY <1>2 DEF ActiveOwners, Owns, Exists

LEMMA FactsStep == IInv /\ [Next]_vars => FactsAreOfMembers'
  <1> SUFFICES ASSUME IInv, [Next]_vars, NEW r \in Requests
               PROVE  /\ req'[r].phase \in {"read", "counted"} =>
                            (Exists(req[r].actor) /\ Exists(req[r].target))'
                      /\ req'[r].op = "leave" => req'[r].actor = req'[r].target
    BY DEF FactsAreOfMembers
  <1> USE DEF IInv, TypeOK
  <1>1. ASSUME req'[r].phase \in {"read", "counted"}
        PROVE  (Exists(req[r].actor) /\ Exists(req[r].target))'
    <2>1. CASE ReadFacts(r)
      <3>1. /\ req'[r].actor = req[r].actor /\ req'[r].target = req[r].target
            /\ member' = member /\ Exists(req[r].actor) /\ Exists(req[r].target)
        BY <2>1 DEF ReadFacts, Request
      <3>2. QED
        BY <3>1 DEF Exists
    <2>2. CASE CountOwners(r)
      <3>1. /\ req'[r].actor = req[r].actor /\ req'[r].target = req[r].target
            /\ member' = member /\ req[r].phase = "read"
        BY <2>2 DEF CountOwners, Request, At
      <3>2. QED
        BY <3>1 DEF FactsAreOfMembers, Exists
    <2>3. CASE req'[r] = req[r]
      <3>1. r \in LockHolders
        BY <1>1, <2>3 DEF LockHolders
      <3>2. req[r].actor \in Members /\ req[r].target \in Members
        BY <1>1, <2>3 DEF At
      <3>3. Exists(req[r].actor) /\ Exists(req[r].target)
        BY <1>1, <2>3 DEF FactsAreOfMembers
      <3>4. member'[req[r].actor] = member[req[r].actor]
            /\ member'[req[r].target] = member[req[r].target]
        BY <1>1, <2>3, <3>1, <3>2, <3>3, RowsHeld
      <3>5. QED
        BY <2>3, <3>3, <3>4 DEF Exists
    <2>4. QED
      BY <1>1, <2>1, <2>2, <2>3, ReadersStep
  <1>2. ASSUME req'[r].op = "leave"
        PROVE  req'[r].actor = req'[r].target
    <2>1. ASSUME NEW s \in Requests, RequestStep(s) \/ Abort(s) \/ LockOrganization(s), s # r
          PROVE  req'[r] = req[r]
      BY <2>1, OtherRequestsKeep
    <2>2. CASE End(r)
      BY <2>2, RowsClosed DEF End
    <2>3. CASE LockOrganization(r) \/ ReadFacts(r) \/ CountOwners(r)
      <3>1. /\ req'[r].actor = req[r].actor /\ req'[r].target = req[r].target
            /\ req'[r].op = req[r].op
        BY <2>3 DEF LockOrganization, ReadFacts, CountOwners, Request
      <3>2. QED
        BY <1>2, <3>1 DEF FactsAreOfMembers
    <2>4. CASE RequestStep(r) \/ Abort(r) \/ LockOrganization(r)
      BY <2>2, <2>3, <2>4 DEF RequestStep, Abort, NotFound, Deny, ChangeMemberRole,
             SetMemberStatus, RemoveMember, LeaveOrganization, Commit
    <2>5. ASSUME NEW s \in Requests, NEW op \in Ops, NEW actor \in Members,
                 NEW target \in Members, NEW newRole \in Roles,
                 Ask(s, op, actor, target, newRole)
          PROVE  req'[r].actor = req'[r].target
      BY <1>2, <2>5 DEF Ask, Idle, FactsAreOfMembers
    <2>6. CASE req'[r] = req[r]
      BY <1>2, <2>6 DEF FactsAreOfMembers
    <2>7. CASE UNCHANGED req
      BY <2>6, <2>7
    <2>8. QED
      BY <2>1, <2>4, <2>5, <2>6, <2>7 DEF Next, Join, vars
  <1>3. QED
    BY <1>1, <1>2

\* What a transaction has read stays true until it ends.
LEMMA SnapshotStep == IInv /\ [Next]_vars => SnapshotsAreCurrent'
  <1> SUFFICES ASSUME IInv, [Next]_vars, NEW r \in Requests,
                      req'[r].phase \in {"read", "counted"}
               PROVE  /\ req'[r].a = member'[req'[r].actor]
                      /\ req'[r].t = member'[req'[r].target]
                      /\ req'[r].phase = "counted" =>
                            req'[r].owners <= Cardinality(ActiveOwners')
    BY DEF SnapshotsAreCurrent
  <1> USE DEF IInv, TypeOK
  <1>1. CASE ReadFacts(r)
    BY <1>1 DEF ReadFacts, Request
  <1>2. CASE CountOwners(r)
    <2>1. member' = member /\ ActiveOwners' = ActiveOwners
      BY <1>2 DEF CountOwners, ActiveOwners, Owns, Exists
    <2>2. req[r].a = member[req[r].actor] /\ req[r].t = member[req[r].target]
      BY <1>2 DEF CountOwners, SnapshotsAreCurrent, At
    <2>3. req'[r] = [req[r] EXCEPT !.phase = "counted", !.owners = Cardinality(ActiveOwners)]
      BY <1>2 DEF CountOwners
    <2>4. req[r] \in Request
      OBVIOUS
    <2>5. /\ req'[r].a = req[r].a /\ req'[r].t = req[r].t
          /\ req'[r].actor = req[r].actor /\ req'[r].target = req[r].target
          /\ req'[r].owners = Cardinality(ActiveOwners)
      BY <2>3, <2>4 DEF Request
    <2>6. QED
      BY <2>1, <2>2, <2>5, OwnersFinite
  <1>3. CASE req'[r] = req[r]
    <2>1. r \in LockHolders /\ req[r].actor \in Members /\ req[r].target \in Members
      BY <1>3 DEF LockHolders, At
    <2>2. Exists(req[r].actor) /\ Exists(req[r].target)
      BY <1>3 DEF FactsAreOfMembers
    <2>3. /\ \A m \in Members : Exists(m) => member'[m] = member[m]
          /\ ActiveOwners \subseteq ActiveOwners'
      BY <1>3, <2>1, RowsHeld
    <2>4. req[r].a = member[req[r].actor] /\ req[r].t = member[req[r].target]
      BY <1>3 DEF SnapshotsAreCurrent
    <2>5. ASSUME req[r].phase = "counted"
          PROVE  req[r].owners <= Cardinality(ActiveOwners')
      <3>1. req[r].owners <= Cardinality(ActiveOwners) /\ req[r].owners \in Nat
        BY <2>5 DEF SnapshotsAreCurrent, Request
      <3>2. ActiveOwners' \subseteq Members
        BY DEF ActiveOwners
      <3>3. IsFiniteSet(ActiveOwners')
        BY <3>2, MembershipAssumption, FS_Subset
      <3>4. Cardinality(ActiveOwners) <= Cardinality(ActiveOwners')
        BY <2>3, <3>3, FS_Subset
      <3>5. QED
        BY <3>1, <3>3, <3>4, OwnersFinite, FS_CardinalityType
    <2>6. QED
      BY <1>3, <2>1, <2>2, <2>3, <2>4, <2>5
  <1>4. QED
    BY <1>1, <1>2, <1>3, ReadersStep

-----------------------------------------------------------------------------
(* The owners. *)

\* Whoever an allowed write touches, an active owner is left.
LEMMA OwnerStep == IInv /\ [Next]_vars => AlwaysAnActiveOwner'
  <1> SUFFICES ASSUME IInv, [Next]_vars
               PROVE  ActiveOwners' # {}
    BY DEF AlwaysAnActiveOwner
  <1>1. ASSUME NEW o \in ActiveOwners, member'[o] = member[o]
        PROVE  ActiveOwners' # {}
    BY <1>1 DEF ActiveOwners, Owns, Exists
  <1>2. PICK o \in Members : o \in ActiveOwners
    BY DEF IInv, AlwaysAnActiveOwner, ActiveOwners
  <1>3. CASE UNCHANGED member
    BY <1>1, <1>2, <1>3
  <1>4. CASE \E m \in Members, role \in Roles : Join(m, role)
    <2>1. member'[o] = member[o]
      BY <1>2, <1>4 DEF Join, ActiveOwners, IInv, TypeOK
    <2>2. QED
      BY <1>1, <1>2, <2>1
  <1>5. ASSUME NEW r \in Requests, Writes(r)
        PROVE  ActiveOwners' # {}
    <2> DEFINE t == req[r].target
    <2>1. /\ t \in Members /\ Exists(t) /\ req[r].phase = "counted"
          /\ \A m \in Members : m # t => member'[m] = member[m]
          /\ req[r].op = "leave" => req[r].actor = t
      BY <1>5, WriteFacts
    <2>2. req[r].t = member[t] /\ req[r].owners <= Cardinality(ActiveOwners)
      BY <2>1 DEF IInv, SnapshotsAreCurrent
    <2>3. CASE t \notin ActiveOwners
      BY <1>1, <1>2, <2>1, <2>3
    <2>4. CASE t \in ActiveOwners /\ IsLastActiveOwner(req[r])
      <3>1. ChangeMemberRole(r) /\ req[r].newRole = OWNER_ROLE
        BY <1>5, <2>2, <2>4 DEF Writes, ChangeMemberRole, SetMemberStatus, RemoveMember,
               LeaveOrganization, Commit, Allowed, CanChangeRole, CanSuspend, CanReactivate,
               CanRemove, CanLeave, ActiveOwners
      <3>2. member'[t] = [member[t] EXCEPT !.role = OWNER_ROLE]
        BY <2>1, <3>1 DEF ChangeMemberRole, IInv, TypeOK
      <3>3. member[t] \in Rows
        BY <2>1 DEF IInv, TypeOK
      <3>4. t \in ActiveOwners'
        BY <2>1, <2>4, <3>2, <3>3 DEF ActiveOwners, Owns, Exists, Rows
      <3>5. QED
        BY <3>4
    <2>5. CASE t \in ActiveOwners /\ ~IsLastActiveOwner(req[r])
      <3>1. req[r].owners > 1 /\ req[r].owners \in Nat
        BY <2>1, <2>2, <2>5 DEF IsLastActiveOwner, IsOwner, ActiveOwners, Owns, IInv, TypeOK,
               Request
      <3>2. Cardinality(ActiveOwners) > 1
        BY <2>2, <3>1, OwnersFinite
      <3>3. PICK y \in ActiveOwners : y # t
        BY <3>2, OwnersFinite, AnotherOne
      <3>4. member'[y] = member[y]
        BY <2>1, <3>3 DEF ActiveOwners
      <3>5. QED
        BY <1>1, <3>4
    <2>6. QED
      BY <2>3, <2>4, <2>5
  <1>6. QED
    BY <1>3, <1>4, <1>5, OtherStepsKeepRows

-----------------------------------------------------------------------------
LEMMA InitEstablishes == Init => IInv
  <1> SUFFICES ASSUME Init
               PROVE  IInv
    OBVIOUS
  <1>1. \A r \in Requests : req[r] = Idle
    BY DEF Init
  <1>2. TypeOK
    BY RowsClosed, MembershipAssumption DEF Init, TypeOK, At, Rows
  <1>3. LockIsExclusive /\ FactsAreOfMembers /\ SnapshotsAreCurrent
    BY <1>1, RowsClosed DEF LockIsExclusive, LockHolders, FactsAreOfMembers, SnapshotsAreCurrent
  <1>4. AlwaysAnActiveOwner
    BY DEF Init, AlwaysAnActiveOwner, ActiveOwners, Owns, Exists
  <1>5. QED
    BY <1>2, <1>3, <1>4 DEF IInv

\* Every reachable state satisfies the inductive invariant: one transaction
\* holds the lock, and what it has read is current.
THEOREM Inductive == Spec => []IInv
  <1>1. Init => IInv
    BY InitEstablishes
  <1>2. IInv /\ [Next]_vars => IInv'
    BY TypeStep, LockStep, FactsStep, SnapshotStep, OwnerStep DEF IInv
  <1>3. QED
    BY <1>1, <1>2, PTL DEF Spec

\* The rows and the requests are what their types say (members.ts).
THEOREM TypeCorrect == Spec => []TypeOK
  <1>1. IInv => TypeOK
    BY DEF IInv
  <1>2. QED
    BY <1>1, Inductive, PTL

\* For any number of members and concurrent requests a workspace never loses
\* its last active owner (membership-policy.ts:1-5, members.ts:102-108).
THEOREM OwnersRemain == Spec => []AlwaysAnActiveOwner
  <1>1. IInv => AlwaysAnActiveOwner
    BY DEF IInv
  <1>2. QED
    BY <1>1, Inductive, PTL

\* A transaction decides on facts that are still true when it decides
\* (members.ts:102-108).
THEOREM DecisionsAreCurrent == Spec => []SnapshotsAreCurrent
  <1>1. IInv => SnapshotsAreCurrent
    BY DEF IInv
  <1>2. QED
    BY <1>1, Inductive, PTL

-----------------------------------------------------------------------------
(* Who may change a row. *)

\* An existing row changes only by the write of a request on it.
LEMMA ChangeIsWrite ==
    ASSUME IInv, [Next]_vars, NEW m \in Members, Exists(m), member'[m] # member[m]
    PROVE  \E r \in Requests : Writes(r) /\ req[r].target = m
  <1>1. ~ UNCHANGED member
    OBVIOUS
  <1>2. ~ \E n \in Members, role \in Roles : Join(n, role)
    BY DEF Join, Exists, IInv, TypeOK
  <1>3. QED
    BY <1>1, <1>2, OtherStepsKeepRows, WriteFacts

\* The write acts on its target, by an existing member.
LEMMA WriteActs ==
    ASSUME IInv, NEW r \in Requests, Writes(r)
    PROVE  ActsOn(r, req[r].target) /\ Exists(req[r].actor)
  BY WriteFacts, RowsClosed DEF ActsOn, IInv, TypeOK

\* A write the policy allowed that touches an owner, or makes one, is an
\* owner's, unless it is a member leaving.
LEMMA WriteByOwner ==
    ASSUME IInv, NEW r \in Requests, Writes(r),
           NEW t \in Members, req[r].target = t, Owns(t) \/ Owns(t)'
    PROVE  \/ req[r].op = "leave" /\ req[r].actor = t
           \/ Owns(req[r].actor)
  <1> DEFINE a == req[r].actor
  <1>1. /\ a \in Members /\ Exists(t) /\ Exists(a)
        /\ req[r].phase = "counted"
        /\ req' = [req EXCEPT ![r] = Idle]
        /\ req[r].op = "leave" => a = t
    BY WriteFacts
  <1>2. req[r].t = member[t] /\ req[r].a = member[a]
    BY <1>1 DEF IInv, SnapshotsAreCurrent
  <1>3. CASE LeaveOrganization(r)
    BY <1>1, <1>3 DEF LeaveOrganization, Commit
  <1>4. CASE RemoveMember(r) \/ SetMemberStatus(r) \/ ChangeMemberRole(r)
    <2>1. OwnerGuard(req[r])
      BY <1>4 DEF RemoveMember, SetMemberStatus, ChangeMemberRole, Commit, Allowed,
             CanChangeRole, CanSuspend, CanReactivate, CanRemove
    <2>2. Owns(t) => Owns(a)
      BY <1>1, <1>2, <2>1 DEF OwnerGuard, IsOwner, Owns
    <2>3. SUFFICES ASSUME ~Owns(t)
                   PROVE  Owns(a)
      BY <2>2
    <2>4. member[t] \in Rows /\ member[t].role # OWNER_ROLE
      BY <1>1, <2>3 DEF IInv, TypeOK, Owns
    <2>5. ChangeMemberRole(r) /\ req[r].newRole = OWNER_ROLE
      <3>1. member'[t].role = OWNER_ROLE /\ member'[t].status # "REMOVED"
        BY <2>3 DEF Owns, Exists
      <3>2. QED
        BY <1>1, <1>4, <2>4, <3>1 DEF RemoveMember, SetMemberStatus, ChangeMemberRole,
               DeletedRow, NoRow, IInv, TypeOK, Rows
    <2>6. IsOwner(req[r].a)
      BY <2>1, <2>5 DEF OwnerGuard, ChangeMemberRole, Commit
    <2>7. QED
      BY <1>1, <1>2, <2>6 DEF IsOwner, Owns
  <1>5. QED
    BY <1>3, <1>4 DEF Writes

\* Only who is a member at the moment of the write changes a membership
\* (members.ts:83-89).
THEOREM MembersAct == Spec => OnlyMembersAct
  <1>1. IInv /\ [Next]_vars =>
          [\A m \in Members :
             Exists(m) /\ member'[m] # member[m] =>
                \E r \in Requests : ActsOn(r, m) /\ Exists(req[r].actor)]_vars
    BY ChangeIsWrite, WriteActs
  <1>2. QED
    BY <1>1, Inductive, PTL DEF Spec, OnlyMembersAct

\* Only owners grant, change or remove the owner role, at the moment of the
\* write (membership-policy.ts:34-39).
THEOREM OwnersRuleOwners == Spec => OwnersAnswerToOwners
  <1>1. IInv /\ [Next]_vars =>
          [\A m \in Members :
             /\ Exists(m) /\ member'[m] # member[m]
             /\ Owns(m) \/ Owns(m)'
             => \E r \in Requests :
                   /\ ActsOn(r, m)
                   /\ \/ req[r].op = "leave" /\ req[r].actor = m
                      \/ Owns(req[r].actor)]_vars
    <2> SUFFICES ASSUME IInv, [Next]_vars, NEW m \in Members, Exists(m),
                        member'[m] # member[m], Owns(m) \/ Owns(m)'
                 PROVE  \E r \in Requests :
                           /\ ActsOn(r, m)
                           /\ \/ req[r].op = "leave" /\ req[r].actor = m
                              \/ Owns(req[r].actor)
      OBVIOUS
    <2>1. PICK r \in Requests : Writes(r) /\ req[r].target = m
      BY ChangeIsWrite
    <2>2. ActsOn(r, m)
      BY <2>1, WriteActs
    <2>3. QED
      BY <2>1, <2>2, WriteByOwner
  <1>2. QED
    BY <1>1, Inductive, PTL DEF Spec, OwnersAnswerToOwners
=============================================================================
