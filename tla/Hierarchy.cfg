SPECIFICATION Spec
CONSTANTS
    Catalog <- MCCatalog
    Project <- MCProjects
INVARIANTS
    NothingIsShared
    EqualItemsStayApart
    ProjectionFollowsOwner
    ConstraintsKeepMeaning
    OnlyJustifiedPasses
CHECK_DEADLOCK FALSE
