SPECIFICATION Spec
CONSTANTS
    Bands <- MCBands
    TotalRows = 5
    TotalBytes = 20
    Profiles <- MCProfiles
    Target = target
    Others = {neighbour}
INVARIANTS
    ScriptArrivesInOrder
    CountersBracketOutput
    ErrorReleasesPrinter
PROPERTIES
    CooldownHonoured
    ImplementsContract
CHECK_DEADLOCK FALSE
