SPECIFICATION CompletionSpec
CONSTANTS
    Unknown = unknown
    unknown = unknown
    Raised = raised
    raised = raised
    Refused = refused
    refused = refused
    None = absent
    absent = absent
    Place <- MCPlace
    Problem = {}
    StateFeasible <- GuardsObeyed
    Slot = {s1, s2}
    s1 = s1
    s2 = s2
    MaxRejections = 5
    Query <- MCRequired
    Backend = {"z3"}
INVARIANTS
    UnsatHasNoCompletion
