SPECIFICATION Spec
CONSTANTS
    Cumulative = {receiver}
    Delta = {}
    Gains = {0, 1, 2}
    Lookback = 2
    LateWindow = 2
    MaxBack = 5
    MaxNow = 6
    MaxExports = 3
    MaxLate = 1
    MaxGap = 1
    MaxRepeats = 0
    MaxSilence = 4
INVARIANT
    FinalRowsExact
CHECK_DEADLOCK FALSE
