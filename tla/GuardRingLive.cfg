SPECIFICATION FairSpec
CONSTANTS
    N = 2
    Guards = {g1, g2, g3}
    Honoured <- AllKinds
    ForceStop = FALSE
    Reschedules = TRUE
    FlockMayFail = FALSE
    StartMayFail = FALSE
    MaxKills = 1
    g1 = g1
    g2 = g2
    g3 = g3
PROPERTIES DaemonRevived Settles ImplementsDeathWatch
CHECK_DEADLOCK FALSE
