SPECIFICATION FairSpec
CONSTANTS
    Kids = {1}
    LockTries = 3
    FlockMayFail = FALSE
    ForkMayFail = FALSE
    ServiceMayFail = FALSE
    AmsMayFail = FALSE
    LeadsGroup = FALSE
    MaxKills = 1
PROPERTIES DeadPeerRestarted
CHECK_DEADLOCK FALSE
