SPECIFICATION Spec
CONSTANTS
    Services = {"amsBefore", "amsAfter"}
    ContextManager = "contextManager"
    Asides = {"NOOP"}
    MaxSignals = 1
INVARIANTS LookupRetried
CHECK_DEADLOCK FALSE
