SPECIFICATION Spec
CONSTANTS
    AnyState = anyState
    anyState = anyState
    Suite <- AllSuites
    Safe <- MCSafe
INVARIANTS
    CoveredIsWitnessed
    UncoveredIsRefuted
CHECK_DEADLOCK FALSE
