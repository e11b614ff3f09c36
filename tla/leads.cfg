\* Safety of two overlapping requests on one lead and its account.
SPECIFICATION Spec
CONSTANTS
    l1 = l1
    a1 = a1
    seller = seller
    manager = manager
    r1 = r1
    r2 = r2
    NoOne = NoOne
    LeadIds <- MCLeads
    Accounts <- MCAccounts
    People <- MCPeople
    Assigners <- MCAssigners
    Requests <- MCRequests
SYMMETRY RequestSymmetry
INVARIANTS
    RecordMatchesStatus
    ClosingIsTold
    WonWasQualified
    FirstResponseIsBounded
    ArchivedIsClosed
