SPECIFICATION Spec
CONSTANTS
    Limited = {TRUE, FALSE}
    Interval = 2
    MaxTimes = 3
    ClockBack = TRUE
    CommitMayFail = TRUE
    MaxTime = 6
    MaxLosses = 2
    MaxSlips = 1
INVARIANTS TypeOK RowBounded OneVerdict RefusalEndsRow
CHECK_DEADLOCK FALSE
