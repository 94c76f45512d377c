SPECIFICATION PairSpec
CONSTANTS
    NoHart <- MCNoHart
    Checks <- AmoChecks
    Pairs <- NoPairs
    Bounds <- MCBounds
    MaxCandidates <- MCMaxCandidates
INVARIANTS
    RefusedMeansUnexplainable
CHECK_DEADLOCK FALSE
