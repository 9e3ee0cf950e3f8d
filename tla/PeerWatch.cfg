SPECIFICATION FairSpec
CONSTANTS
    Kids = {1, 2}
    LockTries = 2
    FlockMayFail = FALSE
    ForkMayFail = FALSE
    ServiceMayFail = FALSE
    AmsMayFail = TRUE
    LeadsGroup = FALSE
    MaxKills = 1
INVARIANTS TypeOK HandshakeSound OneDaemonPerFile
PROPERTIES EndUpArmed
CHECK_DEADLOCK FALSE
