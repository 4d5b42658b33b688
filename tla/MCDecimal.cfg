SPECIFICATION Spec
CONSTANTS
    Texts <- MCTexts
    MaxExp = 20
    Samples <- MCSamples
INVARIANTS TypeOK UnreadIntact Exact RefusesExactly RoundTrip OrderIsNumeric OneReal
CHECK_DEADLOCK FALSE
