\* Safety of two requests that invite, reissue or accept at once.
SPECIFICATION Spec
CONSTANTS
    i1 = i1
    i2 = i2
    i3 = i3
    p1 = p1
    p2 = p2
    r1 = r1
    r2 = r2
    NoOne = NoOne
    Ids <- MCIds
    People <- MCPeople
    Requests <- MCRequests
    Roles <- MCRoles
    OWNER_ROLE = "owner"
    MAX_PENDING_INVITATIONS = 1
SYMMETRY MCSymmetry
INVARIANTS
    AnsweredOnce
    PendingIsBounded
    LinksAreReplaced
PROPERTIES
    JoinsByInvitation
    UsedUpByJoining
