---------------------------- MODULE AccessProofs ----------------------------
(***************************************************************************)
(* Proofs about Access, for any number of members, roles, keys and         *)
(* requests and any limits.  The argument: what a request was allowed on   *)
(* is a fact about the request itself and cannot go stale, and a request   *)
(* that has counted, and has not inserted yet, is counted with the rows.   *)
(***************************************************************************)
EXTENDS Access, FiniteSetTheorems, TLAPS

\* What the policy saw of a request to create or to update a role.
Decided(d) ==
    d.op \in {"create", "update"} =>
       /\ d.want # {}
       /\ Escalating(d.held, d.cur, d.want) = {}
       /\ d.op = "create" => d.cur = {}

RequestsDecided == \A q \in Requests : Decided(req[q])

OnlyRolesHavePermissions == \A r \in Roles \ Custom : perms[r] = {}

\* The requests past their count.
Creating(op) == {q \in Requests : req[q].op = op}

Counted ==
    /\ Cardinality(Custom) + Cardinality(Creating("create"))
          < MAX_CUSTOM_ROLES + Cardinality(Requests)
    /\ Cardinality(Active) + Cardinality(Creating("key"))
          < MAX_ACTIVE_API_KEYS + Cardinality(Requests)

IInv ==
    /\ TypeOK
    /\ RequestsDecided
    /\ OnlyRolesHavePermissions
    /\ RolesKeepAPermission
    /\ Counted

-----------------------------------------------------------------------------
\* All that is counted is finite.
LEMMA CountsFinite ==
    /\ IsFiniteSet(Custom) /\ Cardinality(Custom) \in Nat
    /\ IsFiniteSet(Active) /\ Cardinality(Active) \in Nat
    /\ Cardinality(Requests) \in Nat
    /\ MAX_CUSTOM_ROLES \in Nat \ {0} /\ MAX_ACTIVE_API_KEYS \in Nat \ {0}
    /\ \A op : /\ IsFiniteSet(Creating(op))
               /\ Cardinality(Creating(op)) \in Nat
               /\ Cardinality(Creating(op)) <= Cardinality(Requests)
  <1>1. Custom \subseteq Roles /\ Active \subseteq Keys
    BY DEF Custom, Active
  <1>2. \A op : Creating(op) \subseteq Requests
    BY DEF Creating
  <1>3. QED
    BY <1>1, <1>2, AccessAssumption, FS_Subset, FS_CardinalityType

LEMMA IdleTyped == Idle.op = "none" /\ Decided(Idle)
  BY DEF Idle, Decided

\* A request that gives up its place leaves one fewer of its kind.
LEMMA OneFewer ==
    ASSUME TypeOK, NEW q \in Requests, Finish(q), NEW op, op # "none"
    PROVE  /\ Cardinality(Creating(op)') <= Cardinality(Creating(op))
           /\ req[q].op = op => Cardinality(Creating(op)') = Cardinality(Creating(op)) - 1
           /\ Cardinality(Creating(op)') \in Nat
  <1>1. Creating(op)' = Creating(op) \ {q}
    BY IdleTyped DEF Creating, Finish, TypeOK
  <1>2. req[q].op = op => q \in Creating(op)
    BY DEF Creating
  <1>3. QED
    BY <1>1, <1>2, CountsFinite, FS_RemoveElement, FS_Subset, FS_CardinalityType

\* A request that begins, of another kind, leaves the count as it was.
LEMMA NoMore ==
    ASSUME TypeOK, NEW q \in Requests, NEW what, Start(q, what), NEW op,
           what.op # op, op # "none"
    PROVE  Creating(op)' = Creating(op)
  BY IdleTyped DEF Creating, Start, TypeOK

LEMMA CreatingAtMostRequests ==
    ASSUME NEW op
    PROVE  /\ Cardinality(Creating(op)') \in Nat
           /\ Cardinality(Creating(op)') <= Cardinality(Requests)
  <1>1. Creating(op)' \subseteq Requests
    BY DEF Creating
  <1>2. QED
    BY <1>1, AccessAssumption, FS_Subset, FS_CardinalityType

LEMMA AddedAtMostOne ==
    ASSUME NEW S, NEW x, IsFiniteSet(S), Cardinality(S) \in Nat
    PROVE  /\ Cardinality(S \cup {x}) \in Nat
           /\ Cardinality(S \cup {x}) <= Cardinality(S) + 1
  <1>1. Cardinality(S \cup {x}) = IF x \in S THEN Cardinality(S) ELSE Cardinality(S) + 1
    BY FS_AddElement
  <1>2. QED
    BY <1>1

-----------------------------------------------------------------------------
\* Requests begin: nothing but req changes, and what it is given was checked.
BeginStep ==
    \E q \in Requests : \E what \in RoleChanges \cup Assignments \cup KeyCreations :
       /\ Start(q, what)
       /\ Decided(what)
       /\ what.op = "create" => Cardinality(Custom) < MAX_CUSTOM_ROLES
       /\ what.op = "key" => Cardinality(Active) < MAX_ACTIVE_API_KEYS
       /\ UNCHANGED <<role, perms, holder, key, crossed>>

LEMMA HeldTyped ==
    ASSUME TypeOK, NEW m \in Members PROVE Held(m) \in SUBSET Permissions
  BY DEF Held, TypeOK

LEMMA Begins ==
    ASSUME TypeOK, NEW q \in Requests, NEW m \in Members,
           \/ \E r \in Roles :
                 \/ \E want \in SUBSET Permissions : \/ BeginCreate(q, m, r, want)
                                                     \/ BeginUpdate(q, m, r, want)
                 \/ BeginDelete(q, m, r)
           \/ \E r \in Roles \cup {Owner} : BeginAssign(q, m, r)
           \/ BeginKey(q, m)
    PROVE  BeginStep
  <1>1. ASSUME NEW r \in Roles, NEW want \in SUBSET Permissions, BeginCreate(q, m, r, want)
        PROVE  BeginStep
    <2> DEFINE w == [op |-> "create", role |-> r, held |-> Held(m), cur |-> {}, want |-> want]
    <2>1. w \in RoleChanges /\ w.op = "create"
      BY HeldTyped DEF RoleChanges
    <2>2. Decided(w)
      BY <1>1 DEF Decided, BeginCreate, CanCreateRole
    <2>3. Start(q, w) /\ Cardinality(Custom) < MAX_CUSTOM_ROLES
          /\ UNCHANGED <<role, perms, holder, key, crossed>>
      BY <1>1 DEF BeginCreate, CanCreateRole
    <2> HIDE DEF w
    <2>4. QED
      BY <2>1, <2>2, <2>3 DEF BeginStep
  <1>2. ASSUME NEW r \in Roles, NEW want \in SUBSET Permissions, BeginUpdate(q, m, r, want)
        PROVE  BeginStep
    <2> DEFINE w == [op |-> "update", role |-> r, held |-> Held(m), cur |-> perms[r],
                     want |-> want]
    <2>1. w \in RoleChanges /\ w.op = "update"
      BY HeldTyped DEF RoleChanges, TypeOK
    <2>2. Decided(w)
      BY <1>2 DEF Decided, BeginUpdate, CanUpdateRole
    <2>3. Start(q, w) /\ UNCHANGED <<role, perms, holder, key, crossed>>
      BY <1>2 DEF BeginUpdate
    <2> HIDE DEF w
    <2>4. QED
      BY <2>1, <2>2, <2>3 DEF BeginStep
  <1>3. ASSUME NEW r \in Roles, BeginDelete(q, m, r)
        PROVE  BeginStep
    <2> DEFINE w == [op |-> "delete", role |-> r, held |-> Held(m), cur |-> {}, want |-> {}]
    <2>1. w \in RoleChanges /\ w.op = "delete"
      BY HeldTyped DEF RoleChanges
    <2>2. Start(q, w) /\ UNCHANGED <<role, perms, holder, key, crossed>>
      BY <1>3 DEF BeginDelete
    <2> HIDE DEF w
    <2>3. QED
      BY <2>1, <2>2 DEF BeginStep, Decided
  <1>4. ASSUME NEW r \in Roles \cup {Owner}, BeginAssign(q, m, r)
        PROVE  BeginStep
    <2> DEFINE w == [op |-> "assign", role |-> r, member |-> m]
    <2>1. w \in Assignments /\ w.op = "assign"
      BY DEF Assignments
    <2>2. Start(q, w) /\ UNCHANGED <<role, perms, holder, key, crossed>>
      BY <1>4 DEF BeginAssign
    <2> HIDE DEF w
    <2>3. QED
      BY <2>1, <2>2 DEF BeginStep, Decided
  <1>5. ASSUME BeginKey(q, m)
        PROVE  BeginStep
    <2> DEFINE w == [op |-> "key"]
    <2>1. w \in KeyCreations /\ w.op = "key"
      BY DEF KeyCreations
    <2>2. Start(q, w) /\ Cardinality(Active) < MAX_ACTIVE_API_KEYS
          /\ UNCHANGED <<role, perms, holder, key, crossed>>
      BY <1>5 DEF BeginKey
    <2> HIDE DEF w
    <2>3. QED
      BY <2>1, <2>2 DEF BeginStep, Decided
  <1>6. QED
    BY <1>1, <1>2, <1>3, <1>4, <1>5

\* The steps, with all the ways to begin as one.
LEMMA Steps ==
    ASSUME TypeOK, [Next]_vars
    PROVE  \/ BeginStep
           \/ \E q \in Requests :
                 \/ CommitCreate(q) \/ CommitUpdate(q) \/ CommitDelete(q)
                 \/ CommitAssign(q) \/ RollBack(q)
                 \/ \E k \in Keys : CommitKey(q, k)
           \/ \E m \in Members, k \in Keys : RevokeKey(m, k)
           \/ UNCHANGED vars
  BY Begins DEF Next

-----------------------------------------------------------------------------
LEMMA TypeStep ==
    ASSUME TypeOK, [Next]_vars
    PROVE  TypeOK'
  <1>1. ASSUME BeginStep PROVE TypeOK'
    BY <1>1 DEF BeginStep, Start, TypeOK
  <1>2. ASSUME NEW q \in Requests, Finish(q)
        PROVE  req' \in [Requests -> RoleChanges \cup Assignments \cup KeyCreations \cup {Idle}]
    BY <1>2 DEF Finish, TypeOK
  <1>3. ASSUME NEW q \in Requests, req[q].op \in {"create", "update", "delete"}
        PROVE  req[q] \in RoleChanges
    BY <1>3, IdleTyped DEF TypeOK, RoleChanges, Assignments, KeyCreations
  <1>4. ASSUME NEW q \in Requests, CommitCreate(q) PROVE TypeOK'
    <2>1. req[q].role \in Roles /\ req[q].want \in SUBSET Permissions
      BY <1>3, <1>4 DEF CommitCreate, RoleChanges
    <2>2. QED
      BY <1>2, <1>4, <2>1 DEF CommitCreate, TypeOK
  <1>5. ASSUME NEW q \in Requests, CommitUpdate(q) PROVE TypeOK'
    <2> DEFINE r == req[q].role
    <2>1. /\ r \in Roles /\ req[q].want \in SUBSET Permissions
          /\ req[q].cur \in SUBSET Permissions
      BY <1>3, <1>5 DEF CommitUpdate, RoleChanges
    <2>2. crossed' \in SUBSET Roles
      BY <1>5, <2>1 DEF CommitUpdate, TypeOK
    <2>3. perms' \in [Roles -> SUBSET Permissions]
      BY <1>5, <2>1 DEF CommitUpdate, TypeOK
    <2>4. QED
      BY <1>2, <1>5, <2>2, <2>3 DEF CommitUpdate, TypeOK
  <1>6. ASSUME NEW q \in Requests, CommitDelete(q) PROVE TypeOK'
    <2>1. req[q].role \in Roles
      BY <1>3, <1>6 DEF CommitDelete, RoleChanges
    <2>2. QED
      BY <1>2, <1>6, <2>1 DEF CommitDelete, TypeOK
  <1>7. ASSUME NEW q \in Requests, CommitAssign(q) PROVE TypeOK'
    <2>1. holder' \in [Members -> Roles \cup {Owner}]
      BY <1>7 DEF CommitAssign, TypeOK, Custom
    <2>2. QED
      BY <1>2, <1>7, <2>1 DEF CommitAssign, TypeOK
  <1>8. ASSUME NEW q \in Requests, RollBack(q) PROVE TypeOK'
    BY <1>2, <1>8 DEF RollBack, TypeOK
  <1>9. ASSUME NEW q \in Requests, NEW k \in Keys, CommitKey(q, k) PROVE TypeOK'
    BY <1>2, <1>9 DEF CommitKey, TypeOK
  <1>10. ASSUME NEW m \in Members, NEW k \in Keys, RevokeKey(m, k) PROVE TypeOK'
    BY <1>10 DEF RevokeKey, TypeOK
  <1>11. CASE UNCHANGED vars
    BY <1>11 DEF vars, TypeOK
  <1>12. QED
    BY Steps, <1>1, <1>4, <1>5, <1>6, <1>7, <1>8, <1>9, <1>10, <1>11

LEMMA DecidedStep ==
    ASSUME TypeOK, RequestsDecided, [Next]_vars
    PROVE  RequestsDecided'
  <1>1. ASSUME BeginStep PROVE RequestsDecided'
    BY <1>1 DEF BeginStep, Start, TypeOK, RequestsDecided
  <1>2. ASSUME NEW q \in Requests, Finish(q) PROVE RequestsDecided'
    BY <1>2, IdleTyped DEF Finish, TypeOK, RequestsDecided
  <1>3. ASSUME req' = req PROVE RequestsDecided'
    BY <1>3 DEF RequestsDecided
  <1>4. QED
    BY Steps, <1>1, <1>2, <1>3 DEF CommitCreate, CommitUpdate, CommitDelete, CommitAssign,
       CommitKey, RollBack, RevokeKey, vars

LEMMA PermissionsStep ==
    ASSUME TypeOK, RequestsDecided, OnlyRolesHavePermissions, RolesKeepAPermission, [Next]_vars
    PROVE  OnlyRolesHavePermissions' /\ RolesKeepAPermission'
  <1> USE DEF OnlyRolesHavePermissions, RolesKeepAPermission, Custom
  <1>1. ASSUME UNCHANGED <<role, perms, holder, crossed>>
        PROVE  OnlyRolesHavePermissions' /\ RolesKeepAPermission'
    BY <1>1
  <1>2. ASSUME NEW q \in Requests, CommitCreate(q)
        PROVE  OnlyRolesHavePermissions' /\ RolesKeepAPermission'
    <2>1. req[q].want # {}
      BY <1>2 DEF CommitCreate, RequestsDecided, Decided
    <2>2. QED
      BY <1>2, <2>1 DEF CommitCreate, TypeOK
  <1>3. ASSUME NEW q \in Requests, CommitUpdate(q)
        PROVE  OnlyRolesHavePermissions' /\ RolesKeepAPermission'
    <2> DEFINE r == req[q].role
    <2>1. r \in Roles /\ role[r] = "there" /\ req[q].want # {}
      BY <1>3 DEF CommitUpdate, RequestsDecided, Decided
    <2>2. \A x \in Roles \ {r} : perms'[x] = perms[x] /\ (x \in crossed => x \in crossed')
      BY <1>3 DEF CommitUpdate, TypeOK
    <2>3. CASE perms[r] = req[q].cur
      <3>1. perms'[r] = (perms[r] \ (perms[r] \ req[q].want)) \cup (req[q].want \ perms[r])
        BY <1>3, <2>1, <2>3 DEF CommitUpdate, TypeOK
      <3>2. perms'[r] # {}
        BY <2>1, <3>1
      <3>3. QED
        BY <1>3, <2>1, <2>2, <3>2 DEF CommitUpdate
    <2>4. CASE perms[r] # req[q].cur
      <3>1. r \in crossed'
        BY <1>3, <2>4 DEF CommitUpdate
      <3>2. QED
        BY <1>3, <2>1, <2>2, <3>1 DEF CommitUpdate
    <2>5. QED
      BY <2>3, <2>4
  <1>4. ASSUME NEW q \in Requests, CommitDelete(q)
        PROVE  OnlyRolesHavePermissions' /\ RolesKeepAPermission'
    BY <1>4, AccessAssumption DEF CommitDelete, TypeOK
  <1>5. ASSUME NEW q \in Requests, CommitAssign(q)
        PROVE  OnlyRolesHavePermissions' /\ RolesKeepAPermission'
    BY <1>5 DEF CommitAssign, TypeOK
  <1>6. QED
    BY Steps, <1>1, <1>2, <1>3, <1>4, <1>5 DEF BeginStep, CommitKey, RollBack, RevokeKey, vars

-----------------------------------------------------------------------------
LEMMA CountedStep ==
    ASSUME TypeOK, Counted, [Next]_vars
    PROVE  Counted'
  <1> USE CountsFinite
  <1>1. ASSUME BeginStep PROVE Counted'
    <2> PICK q \in Requests, what \in RoleChanges \cup Assignments \cup KeyCreations :
             /\ Start(q, what)
             /\ what.op = "create" => Cardinality(Custom) < MAX_CUSTOM_ROLES
             /\ what.op = "key" => Cardinality(Active) < MAX_ACTIVE_API_KEYS
             /\ UNCHANGED <<role, perms, holder, key, crossed>>
      BY <1>1 DEF BeginStep
    <2>1. Custom' = Custom /\ Active' = Active
      BY DEF Custom, Active
    <2>2. \A op \in {"create", "key"} : what.op # op => Creating(op)' = Creating(op)
      BY NoMore
    <2>3. \A op \in {"create", "key"} : /\ Cardinality(Creating(op)') \in Nat
                                        /\ Cardinality(Creating(op)') <= Cardinality(Requests)
      BY CreatingAtMostRequests
    <2>4. QED
      BY <2>1, <2>2, <2>3 DEF Counted
  <1>2. ASSUME NEW q \in Requests, Finish(q),
               Cardinality(Custom') \in Nat, Cardinality(Active') \in Nat,
               Cardinality(Custom') <= Cardinality(Custom) + (IF req[q].op = "create" THEN 1 ELSE 0),
               Cardinality(Active') <= Cardinality(Active) + (IF req[q].op = "key" THEN 1 ELSE 0)
        PROVE  Counted'
    <2>1. /\ Cardinality(Creating("create")') <= Cardinality(Creating("create"))
          /\ req[q].op = "create" =>
                Cardinality(Creating("create")') = Cardinality(Creating("create")) - 1
          /\ Cardinality(Creating("create")') \in Nat
      BY <1>2, OneFewer
    <2>2. /\ Cardinality(Creating("key")') <= Cardinality(Creating("key"))
          /\ req[q].op = "key" =>
                Cardinality(Creating("key")') = Cardinality(Creating("key")) - 1
          /\ Cardinality(Creating("key")') \in Nat
      BY <1>2, OneFewer
    <2>3. Cardinality(Custom') + Cardinality(Creating("create")')
             < MAX_CUSTOM_ROLES + Cardinality(Requests)
      BY <1>2, <2>1 DEF Counted
    <2>4. Cardinality(Active') + Cardinality(Creating("key")')
             < MAX_ACTIVE_API_KEYS + Cardinality(Requests)
      BY <1>2, <2>2 DEF Counted
    <2>5. QED
      BY <2>3, <2>4 DEF Counted
  <1>3. ASSUME NEW q \in Requests, CommitCreate(q) PROVE Counted'
    <2>1. Custom' = Custom \cup {req[q].role} /\ Active' = Active
      BY <1>3 DEF CommitCreate, Custom, Active, TypeOK, RoleChanges, Assignments,
         KeyCreations, Idle
    <2>2. Cardinality(Custom') \in Nat /\ Cardinality(Custom') <= Cardinality(Custom) + 1
      BY <2>1, AddedAtMostOne
    <2>3. QED
      BY <1>2, <1>3, <2>1, <2>2 DEF CommitCreate
  <1>4. ASSUME NEW q \in Requests, CommitDelete(q) PROVE Counted'
    <2>1. Custom' \subseteq Custom /\ Active' = Active
      BY <1>4 DEF CommitDelete, Custom, Active, TypeOK
    <2>2. Cardinality(Custom') \in Nat /\ Cardinality(Custom') <= Cardinality(Custom)
      BY <2>1, FS_Subset, FS_CardinalityType
    <2>3. QED
      BY <1>2, <1>4, <2>1, <2>2 DEF CommitDelete
  <1>5. ASSUME NEW q \in Requests, NEW k \in Keys, CommitKey(q, k) PROVE Counted'
    <2>1. Custom' = Custom /\ Active' = Active \cup {k}
      BY <1>5 DEF CommitKey, Custom, Active, TypeOK
    <2>2. Cardinality(Active') \in Nat /\ Cardinality(Active') <= Cardinality(Active) + 1
      BY <2>1, AddedAtMostOne
    <2>3. QED
      BY <1>2, <1>5, <2>1, <2>2 DEF CommitKey
  <1>6. ASSUME NEW q \in Requests, CommitUpdate(q) \/ CommitAssign(q) \/ RollBack(q)
        PROVE  Counted'
    <2>1. Custom' = Custom /\ Active' = Active /\ Finish(q)
      BY <1>6 DEF CommitUpdate, CommitAssign, RollBack, Custom, Active
    <2>2. QED
      BY <1>2, <2>1
  <1>7. ASSUME NEW m \in Members, NEW k \in Keys, RevokeKey(m, k) PROVE Counted'
    <2>1. Custom' = Custom /\ Active' \subseteq Active /\ \A op : Creating(op)' = Creating(op)
      BY <1>7 DEF RevokeKey, Custom, Active, TypeOK, Creating
    <2>2. Cardinality(Active') \in Nat /\ Cardinality(Active') <= Cardinality(Active)
      BY <2>1, FS_Subset, FS_CardinalityType
    <2>3. QED
      BY <2>1, <2>2 DEF Counted
  <1>8. CASE UNCHANGED vars
    BY <1>8 DEF vars, Counted, Custom, Active, Creating
  <1>9. QED
    BY Steps, <1>1, <1>3, <1>4, <1>5, <1>6, <1>7, <1>8

-----------------------------------------------------------------------------
LEMMA InitIInv == Init => IInv
  <1> SUFFICES ASSUME Init PROVE IInv
    OBVIOUS
  <1>1. Custom = {} /\ Active = {} /\ \A op \in {"create", "key"} : Creating(op) = {}
    BY IdleTyped DEF Init, Custom, Active, Creating
  <1>2. Counted
    BY <1>1, CountsFinite, FS_EmptySet DEF Counted
  <1>3. TypeOK /\ RequestsDecided
    BY IdleTyped DEF Init, TypeOK, RequestsDecided
  <1>4. OnlyRolesHavePermissions /\ RolesKeepAPermission
    BY <1>1 DEF Init, OnlyRolesHavePermissions, RolesKeepAPermission
  <1>5. QED
    BY <1>2, <1>3, <1>4 DEF IInv

LEMMA StepIInv == IInv /\ [Next]_vars => IInv'
  BY TypeStep, DecidedStep, PermissionsStep, CountedStep DEF IInv

\* A permission that comes or goes was held by somebody who asked for it.
LEMMA HeldStep ==
    ASSUME TypeOK, RequestsDecided, OnlyRolesHavePermissions, [Next]_vars,
           NEW r \in Roles, NEW p \in Permissions,
           p \in perms[r] \cup perms'[r], ~(p \in perms[r] /\ p \in perms'[r]),
           role'[r] # "gone"
    PROVE  \E q \in Requests : /\ req[q].op \in {"create", "update"}
                               /\ req[q].role = r
                               /\ p \in req[q].held
  <1>1. PICK q \in Requests : CommitCreate(q) \/ CommitUpdate(q)
    <2>1. ASSUME NEW q \in Requests, CommitDelete(q) PROVE FALSE
      BY <2>1 DEF CommitDelete, TypeOK, Custom
    <2>2. perms' # perms
      OBVIOUS
    <2>3. QED
      BY Steps, <2>1, <2>2 DEF BeginStep, CommitAssign, CommitKey, RollBack, RevokeKey, vars
  <1>2. Escalating(req[q].held, req[q].cur, req[q].want) = {}
    BY <1>1 DEF RequestsDecided, Decided, CommitCreate, CommitUpdate
  <1>3. CASE CommitCreate(q)
    <2>1. req[q].role = r /\ perms[r] = {} /\ p \in req[q].want /\ req[q].cur = {}
      BY <1>3 DEF CommitCreate, TypeOK, OnlyRolesHavePermissions, Custom, RequestsDecided, Decided
    <2>2. QED
      BY <1>2, <1>3, <2>1 DEF CommitCreate, Escalating
  <1>4. CASE CommitUpdate(q)
    <2>1. req[q].role = r
      BY <1>4 DEF CommitUpdate, TypeOK
    <2>2. p \in (req[q].cur \ req[q].want) \cup (req[q].want \ req[q].cur)
      BY <1>4, <2>1 DEF CommitUpdate, TypeOK
    <2>3. QED
      BY <1>2, <1>4, <2>1, <2>2 DEF CommitUpdate, Escalating
  <1>5. QED
    BY <1>1, <1>3, <1>4

LEMMA Invariant == Spec => []IInv
  BY InitIInv, StepIInv, PTL DEF Spec

\* Every variable stays in its type.  (Access.)
THEOREM TypeCorrect == Spec => []TypeOK
  <1>1. IInv => TypeOK
    BY DEF IInv
  <1>2. QED
    BY Invariant, <1>1, PTL

\* However many requests count at once, a limit is exceeded by fewer than
\* there are requests.  (roles.ts and api-keys.ts: the count in createRole and
\* createApiKey.)
THEOREM LimitsStayBounded == Spec => []LimitsBounded
  <1>1. IInv => LimitsBounded
    BY CountsFinite DEF IInv, Counted, LimitsBounded
  <1>2. QED
    BY Invariant, <1>1, PTL

\* A custom role has a permission, and a member's role exists, unless updates
\* of the role crossed.  (roles.ts: updateRole and deleteRole.)
THEOREM RolesKept == Spec => []RolesKeepAPermission
  <1>1. IInv => RolesKeepAPermission
    BY DEF IInv
  <1>2. QED
    BY Invariant, <1>1, PTL

\* Nobody gives or takes away what they did not hold, however requests cross.
\* (role-policy.ts: canCreateRole and canUpdateRole.)
THEOREM OnlyHeldMoves == Spec => OnlyHeldPermissionsMove
  <1>1. IInv /\ [Next]_vars =>
          [ \A r \in Roles, p \in Permissions :
            /\ p \in perms[r] \cup perms'[r]
            /\ ~(p \in perms[r] /\ p \in perms'[r])
            /\ role'[r] # "gone"
            => \E q \in Requests : /\ req[q].op \in {"create", "update"}
                                   /\ req[q].role = r
                                   /\ p \in req[q].held ]_vars
    BY HeldStep DEF IInv
  <1>2. QED
    BY Invariant, <1>1, PTL DEF Spec, OnlyHeldPermissionsMove
=============================================================================
