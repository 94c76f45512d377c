SPECIFICATION Spec
CONSTANTS
    Cell <- MCCell
    Value <- MCValue
    Horizon <- MCHorizon
    Unknown = unknown
    unknown = unknown
    Event <- MCEvent
    TypeOf <- MCTypeOf
    Eval <- MCEval
    Problem <- MCProblem
    Code <- MCCode
INVARIANTS
    FeasibleIffExplained
    EncodingMirrorsSimulation
    CompletionIsLawful
    ReportExplainsTrace
PROPERTY CyclesAreAtomic
