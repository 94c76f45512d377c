SPECIFICATION CompletionSpec
CONSTANTS
    Unknown = unknown
    unknown = unknown
    Raised = raised
    raised = raised
    Refused = refused
    refused = refused
    None = absent
    absent = absent
    Place <- MCPlace
    Problem <- MCProblem
    StateFeasible <- GuardsObeyed
    Slot = {s1, s2}
    s1 = s1
    s2 = s2
    MaxRejections = 5
    Query <- MCQuery
    Backend = {"auto", "z3", "cvc5"}
INVARIANTS
    UnsatIsExhaustive
    SatIsFirstSolution
    UnknownIsForced
    KnownIsFinal
    BindingKeepsMeaning
    EncodingAgrees
    UnsatHasNoCompletion
    WitnessIsSmallest
