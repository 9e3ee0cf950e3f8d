SPECIFICATION Spec
CONSTANTS
    N = 3
    Guards = {g1, g2}
    Honoured <- OnlyBroadcast
    ForceStop = FALSE
    Reschedules = FALSE
    FlockMayFail = FALSE
    StartMayFail = TRUE
    MaxKills = 1
    g1 = g1
    g2 = g2
SYMMETRY Slots
INVARIANTS TypeOK LockDiscipline OneAlarm DaemonLockInPassing
CHECK_DEADLOCK FALSE
