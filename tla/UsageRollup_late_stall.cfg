SPECIFICATION Spec
CONSTANTS
    Views = {cores}
    Up = {}
    DayLen = 4
    LateWindow <- ThreeMinutesLate
    MaxBackDays = 2
    FixedBackDays = 1
    Overlap = 2
    RetentionDays = 3
    MaxNow = 8
    Active = {1, 2, 3, 6}
    MaxReadings = 2
    MaxLate = 2
    MaxGap = 8
    MinuteRun = 1
    DailyRun = 1
    HandDays = {}
INVARIANT
    NothingLeftBehind
