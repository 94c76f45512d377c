SPECIFICATION Spec
CONSTANTS
    AnyState = anyState
    anyState = anyState
    Suite <- AllSuites
    Safe <- MCSafe
INVARIANTS
    UncoveredIsUnreachable
CHECK_DEADLOCK FALSE
