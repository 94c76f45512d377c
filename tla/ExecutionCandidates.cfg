SPECIFICATION PairSpec
CONSTANTS
    NoHart <- MCNoHart
    Checks <- MCChecks
    Pairs <- MCPairs
    Bounds <- MCBounds
    MaxCandidates <- MCMaxCandidates
INVARIANTS
    AllowedIffExplained
    RefusedMeansUnexplainable
    ReductionsAreSound
    PreservedMeansSameExecutions
CHECK_DEADLOCK FALSE
