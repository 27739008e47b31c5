SPECIFICATION Spec
CONSTANTS
    Previews = {a, b}
    Blocked = {b}
    Calls = {c1, c2}
    MaxApprovals = 2
    MaxMessages = 2
    None = None
INVARIANTS
    TypeOK
    PrintsAreApproved
    UndecidedIsListed
    PanelTruthful
PROPERTIES
    NewestIsReviewed
CHECK_DEADLOCK FALSE
