\* Safety of concurrent numbering across two changes of the year.
SPECIFICATION NumbersSpec
CONSTANTS
    r1 = r1
    r2 = r2
    r3 = r3
    Creations <- MCCreations
    FirstYear = 2026
    LastYear = 2028
    ResetYearly = TRUE
    MaxValue = 3
SYMMETRY CreationSymmetry
INVARIANTS
    GapFree
    CollidesOnlyAtRollover
