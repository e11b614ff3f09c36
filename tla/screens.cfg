\* Two records of one kind at a time, members of every role, one or two changes of the facts.
SPECIFICATION Spec
CONSTANTS
    r1 = r1
    r2 = r2
    NoForm = NoForm
    Rows <- MCRows
    CustomRoles <- MCCustomRoles
    InitialFacts <- MCInitialFacts
    LaterRoles <- MCLaterRoles
    MaxChanges <- MCMaxChanges
INVARIANTS
    OffersAreHonoured
    LinksOpen
    NothingIsHidden
    StaleScreensAddLittle
    ValuesStayHome
