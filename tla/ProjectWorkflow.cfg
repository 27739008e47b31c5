SPECIFICATION WorkflowSpec
CONSTANTS
    Projects = {p1, p2}
    Existing = {p1}
    Calls = {c1, c2}
    Local = Local
    None = None
    Deleted = Deleted
INVARIANTS
    SessionIsActive
    QuietPageAgrees
PROPERTIES
    BusyEnds
CHECK_DEADLOCK FALSE
