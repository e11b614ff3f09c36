\* Three categories, one product, two requests; the walk gives up after two.
SPECIFICATION TreeSpec
CONSTANTS
    c1 = c1
    c2 = c2
    c3 = c3
    p1 = p1
    r1 = r1
    r2 = r2
    Root = Root
    CategoryIds <- MCCategories
    ProductIds <- MCProducts
    Calls <- MCCalls
    WalkLimit = 2
SYMMETRY Symmetry
INVARIANTS
    AncestryIsSound
    ArchivedIsEmpty
