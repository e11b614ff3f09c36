\* One request in flight, one page, three questions, one committed edit.
\* A deleted product ends the behaviour.
SPECIFICATION Spec
CONSTANTS
    g1 = g1
    g2 = g2
    g3 = g3
    c1 = c1
    c2 = c2
    r1 = r1
    Always = Always
    Typed = Typed
    Blank = Blank
    Invalid = Invalid
    Groups <- MCGroups
    Codes <- MCCodes
    Requests <- MCRequests
    Drafts <- MCDrafts
    GroupForms <- MCGroupForms
    MaxEdits = 1
CHECK_DEADLOCK FALSE
INVARIANTS
    PublishedIsSellable
    SavedIsComplete
    ShallowPreviewIsSaved
