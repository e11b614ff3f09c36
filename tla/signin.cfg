\* Two server actions at a time over three sessions; a session id is used once, so the run ends.
SPECIFICATION Spec
CONSTANTS
    s1 = s1
    s2 = s2
    s3 = s3
    p1 = p1
    p2 = p2
    f1 = f1
    f2 = f2
    l1 = l1
    r1 = r1
    r2 = r2
    NoPassword = NoPassword
    NoSession = NoSession
    NoFactor = NoFactor
    Sessions <- MCSessions
    Passwords <- MCPasswords
    Factors <- MCFactors
    Links <- MCLinks
    Requests <- MCRequests
INVARIANTS
    TypeOK
    OldPasswordsSignedOut
PROPERTIES
    SecondFactorGuards
SYMMETRY IdSymmetry
CHECK_DEADLOCK FALSE
