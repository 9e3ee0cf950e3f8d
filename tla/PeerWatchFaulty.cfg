SPECIFICATION Spec
CONSTANTS
    Kids = {1}
    LockTries = 2
    FlockMayFail = TRUE
    ForkMayFail = TRUE
    ServiceMayFail = TRUE
    AmsMayFail = TRUE
    LeadsGroup = TRUE
    MaxKills = 0
INVARIANTS OneDaemonPerFile
CHECK_DEADLOCK FALSE
