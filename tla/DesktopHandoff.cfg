SPECIFICATION HandoffSpec
CONSTANTS
    Calls = {c1, c2}
    MaxLaunches = 3
    MaxPicks = 2
    MaxDamage = 2
INVARIANTS
    OptInSurvives
    QuietCallsAnswered
    LaunchMends
CHECK_DEADLOCK FALSE
