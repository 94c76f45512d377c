SPECIFICATION Spec
CONSTANTS
    NoHart <- MCNoHart
    Graphs <- MCGraphs
INVARIANTS
    WitnessIsIrrelevant
    ForbiddenMeansNoOrder
    CoherentPerLocation
    AmoAtomicityFollows
CHECK_DEADLOCK FALSE
