\* Safety of two concurrent member changes in a workspace of up to three.
SPECIFICATION Spec
CONSTANTS
    m1 = m1
    m2 = m2
    m3 = m3
    r1 = r1
    r2 = r2
    NoOne = NoOne
    Members <- MCMembers
    Requests <- MCRequests
    Roles <- MCRoles
    ManagerRoles <- MCManagerRoles
    OWNER_ROLE = "owner"
SYMMETRY MCSymmetry
INVARIANTS
    AlwaysAnActiveOwner
    SnapshotsAreCurrent
PROPERTIES
    OwnersAnswerToOwners
    OnlyMembersAct
