SPECIFICATION Spec
CONSTANTS
    Inputs <- Strings
    JavaStrings <- MCJavaStrings
    Texts <- MCTexts
    ShortRoom = TRUE
    AllocMayFail = TRUE
    Junk = Junk
    SignedChar = FALSE
INVARIANTS TypeOK Fits WholeCharacters RoundTrips AcceptedIsSafe OrderAgrees SearchFinds
CHECK_DEADLOCK FALSE
