\* Three sessions of one account, two second factors; passwords do not matter here.
SPECIFICATION FairSpec
CONSTANTS
    s1 = s1
    s2 = s2
    s3 = s3
    p1 = p1
    f1 = f1
    f2 = f2
    NoPassword = NoPassword
    NoSession = NoSession
    NoFactor = NoFactor
    Sessions <- MCSessions
    Passwords <- MCOnePassword
    Factors <- MCFactors
    Links = {}
PROPERTY VisitsEndUnlessOutdated
