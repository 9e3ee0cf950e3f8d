SPECIFICATION FairSpec
CONSTANTS
    Services = {"amsBefore", "amsAfter"}
    ContextManager = "contextManager"
    Asides = {"NOOP"}
    MaxSignals = 2
INVARIANTS TypeOK AtMostOnce OutcomeTrue
PROPERTIES NothingLeft CallsReturn ImplementsRemoteCall
CHECK_DEADLOCK FALSE
