SPECIFICATION Spec
CONSTANTS
    Views = {cores}
    Up = {}
    DayLen = 2
    LateWindow <- OneMinuteLate
    MaxBackDays = 2
    FixedBackDays = 1
    Overlap = 2
    RetentionDays = 3
    MaxNow = 8
    Active = {0, 1, 3, 6}
    MaxReadings = 1
    MaxLate = 0
    MaxGap = 8
    MinuteRun = 1
    DailyRun = 1
    HandDays = {}
INVARIANTS
    NothingLeftBehind
    NothingStranded
    MissesOnlyTheLatest
PROPERTY
    ImplementsLedger
