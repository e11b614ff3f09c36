\* Two transactions at a time on three roles, two members and three keys, limits of one.
SPECIFICATION Spec
CONSTANTS
    ro1 = ro1
    ro2 = ro2
    ro3 = ro3
    m1 = m1
    m2 = m2
    k1 = k1
    k2 = k2
    k3 = k3
    q1 = q1
    q2 = q2
    Manage = Manage
    Settings = Settings
    Owner = Owner
    Founder = m1
    Permissions <- MCPermissions
    Roles <- MCRoles
    Members <- MCMembers
    Keys <- MCKeys
    Requests <- MCRequests
    MAX_CUSTOM_ROLES = 1
    MAX_ACTIVE_API_KEYS = 1
INVARIANTS
    LimitsBounded
    RolesKeepAPermission
PROPERTY OnlyHeldPermissionsMove
SYMMETRY IdSymmetry
