SPECIFICATION Spec
CONSTANTS
    Cumulative = {receiver}
    Delta = {fetcher}
    Gains = {0, 1}
    Lookback = 2
    LateWindow = 2
    MaxBack = 5
    MaxNow = 5
    MaxExports = 3
    MaxLate = 1
    MaxGap = 2
    MaxRepeats = 1
    MaxSilence = 2
INVARIANTS
    TypeOK
    FinalRowsExact
    NeverOvercounts
PROPERTIES
    RightStaysRight
    NeverTakenBack
CHECK_DEADLOCK FALSE
