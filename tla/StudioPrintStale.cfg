SPECIFICATION Spec
CONSTANTS
    Documents = {d1, bad}
    Blocked = {bad}
    Previews = {p1, p2}
    Jobs = {j1, j2}
    Calls = {c1, c2}
    MaxHistory = 1
    None = None
INVARIANT ReadyPreviewIsCurrent
CHECK_DEADLOCK FALSE
