SPECIFICATION RSpec
CONSTANTS
    RowBytes = 1
    MaxBandHeight = 4
    TailRows = 2
    PacingEnabled = TRUE
    BaseDelay = 125
    CoverageLimit = 35
    MsPerPoint = 3000
    MaxCooldown = 2000
    Coverages <- MCCoverages
    ContentHeights <- MCContentHeights
    PreviewRowBytes <- MCPreviewRowBytes
    Elements <- MCElements
    MaxElements = 2
    SafetyBand = 2
    BlockCoverage = 70
    HeaderBase = 3
INVARIANTS
    PacingBetweenBandsOnly
    PaperShowsPicture
    SentBandsAreCool
PROPERTIES
    DrawingStaysInBox
CHECK_DEADLOCK FALSE
