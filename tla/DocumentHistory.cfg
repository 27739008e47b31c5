SPECIFICATION Spec
CONSTANTS
    Elements = {e1, marker}
    Marker = marker
    Contents = {plain, bold, photo}
    NewContents = {plain, photo}
    LargeContents = {photo}
    Limit = 3
    NoElement = NoElement
    Absent = Absent
INVARIANTS
    ReloadLosesOneStep
PROPERTIES
    ImplementsHistory
    AutosaveCatchesUp
CHECK_DEADLOCK FALSE
