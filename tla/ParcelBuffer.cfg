SPECIFICATION Spec
CONSTANTS
    Words = {1}
    Junk = 2
    Lengths = {1, 2}
    MaxWords = 7
    MaxLent = 4
    MaxObjects = 2
    MallocMayFail = TRUE
INVARIANTS TypeOK DataWritten TableInOrder HintFinds
PROPERTIES ImplementsParcelLog
CHECK_DEADLOCK FALSE
