SPECIFICATION FairSpec
CONSTANT
    Search <- MCSearch
INVARIANTS
    WitnessIsReal
    ExhaustedIsComplete
    UnrealizableIsRefuted
PROPERTY ReportIsReached
