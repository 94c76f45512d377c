SPECIFICATION GlobalSpec
CONSTANTS
    Node <- MCNode
    Input <- MCInput
INVARIANTS
    ReturnedOrderIsGmo
    ReportedCycleIsReal
    OrderXorCycle
PROPERTY VerdictIsReached
