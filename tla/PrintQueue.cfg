SPECIFICATION HSpec
CONSTANTS
    Handlers = {h1, h2}
    Jobs = {j1, j2}
    Previews = {p1}
    BlockedPreviews = {}
    TotalBytes = 2
    Modes = {"physical", "mock", "mock_disconnect"}
    MockSent = 1
    CanCrash = TRUE
    NoJob = NoJob
    NoRecord = NoRecord
INVARIANTS
    RecordsTruthful
    AnswersDurable
PROPERTIES
    ImplementsLifecycle
    RequestsEnd
CHECK_DEADLOCK FALSE
