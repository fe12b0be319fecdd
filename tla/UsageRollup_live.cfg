SPECIFICATION FairSpec
CONSTANTS
    Views = {cores, ingest}
    Up = {ingest}
    DayLen = 2
    LateWindow <- OneMinuteLate
    MaxBackDays = 1
    FixedBackDays = 0
    Overlap = 2
    RetentionDays = 2
    MaxNow = 4
    Active = {2, 3}
    MaxReadings = 1
    MaxLate = 1
    MaxGap = 4
    MinuteRun = 1
    DailyRun = 1
    HandDays = {1}
PROPERTY
    UpViewsConverge
    ImplementsLedger
