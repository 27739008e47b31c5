SPECIFICATION Spec
CONSTANTS
    Printers = {p1, p2}
    Exports = {e1, e2}
    Jobs = {j1, j2}
    MaxEditions = 2
    None = None
    Torn = Torn
SYMMETRY Symmetry
INVARIANTS
    GateIsEarned
CHECK_DEADLOCK FALSE
