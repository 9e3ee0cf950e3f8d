SPECIFICATION FairSpec
CONSTANTS
    N = 2
    Guards = {g1, g2}
    Honoured <- OnlyInstrumentation
    ForceStop = TRUE
    Reschedules = TRUE
    FlockMayFail = TRUE
    StartMayFail = FALSE
    MaxKills = 1
    g1 = g1
    g2 = g2
INVARIANTS LockDiscipline
PROPERTIES DaemonRevived
CHECK_DEADLOCK FALSE
