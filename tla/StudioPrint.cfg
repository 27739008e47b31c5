SPECIFICATION Spec
CONSTANTS
    Documents = {d1, bad}
    Blocked = {bad}
    Previews = {p1, p2}
    Jobs = {j1, j2}
    Calls = {c1, c2}
    MaxHistory = 1
    None = None
INVARIANTS
    StudioTruthful
    HistoryAgrees
    BlockedNeverReady
PROPERTIES
    BusyEnds
CHECK_DEADLOCK FALSE
