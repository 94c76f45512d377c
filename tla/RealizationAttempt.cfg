SPECIFICATION AttemptSpec
CONSTANTS
    NoHart <- MCNoHart
    Checks <- MCChecks
    Bounds <- MCBounds
    MaxCandidates <- MCMaxCandidates
    Stages <- MCStages
INVARIANTS
    FirstScheduleExplains
    RealizedIsForbidden
    RetiresTheSkeleton
    ReportIsTrue
CHECK_DEADLOCK FALSE
