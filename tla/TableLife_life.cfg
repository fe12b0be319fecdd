SPECIFICATION TurnsSpec
CONSTANTS
    Names <- MCNames
    Inside <- MCInside
    Header <- MCHeader
    JsonSettings <- MCJsonSettings
    PlatformSettings <- MCPlatformSettings
    None = None
    Candidates <- MCCandidates
    Defaults = {None, 0, 1}
    GateDefault = 2
    LoadColumn = "load"
    EventDays = {0, 9}
    MaxNow = 2
    MaxRows = 2
INVARIANTS
    ShippedCreates
    LedgerAnswers
PROPERTIES
    RowsExpire
    KeptAsDeclared
