---------------------- MODULE TransformationInstances ----------------------
(***************************************************************************)
(* Operational transformations over a bounded universe of events: what     *)
(* `_instantiate_transformation`, src/src/umcm/solver/problem.py, makes of *)
(* them for the state semantics, and which of them the completed trace     *)
(* reports as active (`_active_transformations`, solver/completion.py).    *)
(*                                                                         *)
(* A rule maps its input and output roles to event types.  A binding maps  *)
(* roles to events; substituting it in an expression of the rule and       *)
(* evaluating the result under an execution is Eval.  The problem carries  *)
(* its rules and the execution, the assignment that is being judged.       *)
(***************************************************************************)
EXTENDS StateSimulation, FiniteSets, SequencesExt

CONSTANTS Event,            \* trace events and completion slots
          TypeOf,           \* their event types
          Eval(_, _, _)     \* Eval(expression, binding, execution)

\* _role_bindings: no binding at all if a role has no event of its type.
Bindings(roles) ==
    {b \in [DOMAIN roles -> Event] : \A r \in DOMAIN roles : TypeOf[b[r]] = roles[r]}

\* Mutant: an event may play two roles.
AnyRoles(b) == TRUE

\* A binding of the inputs and one of the outputs.
Both(i, o) == [r \in DOMAIN i \cup DOMAIN o |-> IF r \in DOMAIN i THEN i[r] ELSE o[r]]

Distinct(b) == \A r, q \in DOMAIN b : b[r] = b[q] => r = q

Inputs(rule) == {i \in Bindings(rule.inputs) : Distinct(i)}
Outputs(rule) == {o \in Bindings(rule.outputs) : Distinct(o)}

Occur(x, b) == \A r \in DOMAIN b : x[b[r]].occurs

Antecedent(rule, x, i) == Occur(x, i) /\ Eval(rule.when, i, x)

\* The other roles of a binding are played by an output; c binds all roles.
Alternative(rule, x, o, c) ==
    /\ Occur(x, o)
    /\ Eval(rule.output_when, c, x)
    /\ \A e \in rule.ensure : Eval(e, c, x)

AlternativesOf(rule, i) == {o \in Bindings(rule.outputs) : Distinct(Both(i, o))}

Fires(rule, x, i) == \E o \in AlternativesOf(rule, i) : Alternative(rule, x, o, Both(i, o))

Scope(rule, x, o) == Occur(x, o) /\ Eval(rule.output_when, o, x)

SupportsOf(rule, o) == {i \in Bindings(rule.inputs) : Distinct(Both(i, o))}

Supporting(rule, x, i, c) == Antecedent(rule, x, i) /\ \A e \in rule.ensure : Eval(e, c, x)

-----------------------------------------------------------------------------
(* state_mode: require -- plain constraints, requirements and updates. *)

Forward(rule, x) == \A i \in Inputs(rule) : Antecedent(rule, x, i) => Fires(rule, x, i)

Support(rule, x) ==
    \A o \in Outputs(rule) :
        Scope(rule, x, o) => \E i \in SupportsOf(rule, o) : Supporting(rule, x, i, Both(i, o))

CycleBounds(x) == \A e \in Event : x[e].occurs => ValidCycle(x[e].cycle)

Constraints(rules, x) ==
    /\ CycleBounds(x)
    /\ \A rule \in rules :
        ~ rule.guarded => Forward(rule, x) /\ (rule.exact => Support(rule, x))

\* Every complete binding is an instance of the rule, with its activation.
Instances(rule) == UNION {{Both(i, o) : o \in AlternativesOf(rule, i)} : i \in Inputs(rule)}

InputOf(rule, c) == [r \in DOMAIN rule.inputs |-> c[r]]
OutputOf(rule, c) == [r \in DOMAIN rule.outputs |-> c[r]]

Active(rule, x, c) ==
    Antecedent(rule, x, InputOf(rule, c)) /\ Alternative(rule, x, OutputOf(rule, c), c)

RequirementInstances(rule, x) ==
    UNION {{[active |-> Active(rule, x, c), cycle |-> x[c[r.at]].cycle, state |-> r.state,
             op |-> r.op, expected |-> Eval(r.value, c, x)] :
                r \in {rule.requirements[k] : k \in DOMAIN rule.requirements}} :
            c \in Instances(rule)}

UpdateInstances(rule, x) ==
    UNION {{[active |-> Active(rule, x, c), cycle |-> x[c[u.at]].cycle, state |-> u.state,
             value |-> Eval(u.value, c, x)] : u \in rule.updates} :
            c \in Instances(rule)}

-----------------------------------------------------------------------------
(* state_mode: guard -- a false state guard disables the rule. *)

Predicates(rule, x, b) ==
    [k \in DOMAIN rule.requirements |->
        [cycle |-> x[b[rule.requirements[k].at]].cycle, state |-> rule.requirements[k].state,
         op |-> rule.requirements[k].op, expected |-> Eval(rule.requirements[k].value, b, x)]]

AnchoredAtInputs(rule) ==
    \A k \in DOMAIN rule.requirements : rule.requirements[k].at \in DOMAIN rule.inputs

\* A guard at an output does not force the rule: there is no output to evaluate it at.
GuardedForwards(rule, x) ==
    IF ~ AnchoredAtInputs(rule) THEN {}
    ELSE {[antecedent |-> Antecedent(rule, x, i), predicates |-> Predicates(rule, x, i),
           consequent |-> Fires(rule, x, i)] : i \in Inputs(rule)}

GuardedSupports(rule, x) ==
    IF ~ rule.exact THEN {}
    ELSE {[antecedent |-> Scope(rule, x, o),
           supports |-> SetToSeq({[expression |-> Supporting(rule, x, i, Both(i, o)),
                                   predicates |-> Predicates(rule, x, Both(i, o))] :
                                      i \in SupportsOf(rule, o)})] : o \in Outputs(rule)}

\* build_problem, evaluated under the execution.
Instantiate(rules, x, initial) ==
    LET required == {r \in rules : ~ r.guarded}
        guarded == {r \in rules : r.guarded}
    IN  [rules |-> rules, execution |-> x, initial |-> initial,
         requirements |-> UNION {RequirementInstances(r, x) : r \in required},
         updates |-> UNION {UpdateInstances(r, x) : r \in required},
         forwards |-> UNION {GuardedForwards(r, x) : r \in guarded},
         supports |-> UNION {GuardedSupports(r, x) : r \in guarded}]

-----------------------------------------------------------------------------
(* The problems considered. *)

\* What a Transformation checks when it is made.
WellFormed(rule) ==
    LET roles == DOMAIN rule.inputs \cup DOMAIN rule.outputs
    IN  /\ IsFiniteSet(roles) /\ DOMAIN rule.inputs \cap DOMAIN rule.outputs = {}
        /\ rule.exact => \E r \in DOMAIN rule.outputs : DOMAIN rule.outputs = {r}
        /\ rule.guarded => DOMAIN rule.outputs # {} /\ rule.updates = {}
        /\ \A k \in DOMAIN rule.requirements : rule.requirements[k].at \in roles
        /\ \A u \in rule.updates : u.at \in roles

\* Its expressions have values for events that occur, and the guards of inputs and of
\* outputs refer to their own roles.  The code does not check the last conjunct: a value
\* that refers to an output is unknown in a guard that is anchored at the inputs.
Evaluates(rule, x) ==
    LET Occurring == {e \in Event : x[e].occurs}
    IN  /\ \A i \in [DOMAIN rule.inputs -> Occurring] : Eval(rule.when, i, x) \in BOOLEAN
        /\ \A o \in [DOMAIN rule.outputs -> Occurring] : Eval(rule.output_when, o, x) \in BOOLEAN
        /\ \A b \in [DOMAIN rule.inputs \cup DOMAIN rule.outputs -> Occurring] :
            /\ \A e \in rule.ensure : Eval(e, b, x) \in BOOLEAN
            /\ Eval(rule.when, b, x) = Eval(rule.when, InputOf(rule, b), x)
            /\ Eval(rule.output_when, b, x) = Eval(rule.output_when, OutputOf(rule, b), x)
            /\ \A u \in rule.updates : Eval(u.value, b, x) \in Value
            /\ \A k \in DOMAIN rule.requirements :
                LET v == rule.requirements[k].value
                IN  /\ Eval(v, b, x) \in Value
                    /\ rule.guarded /\ AnchoredAtInputs(rule) =>
                        Eval(v, b, x) = Eval(v, InputOf(rule, b), x)

ASSUME EventAssumption ==
    IsFiniteSet(Event) /\ Unknown \notin BOOLEAN /\ Unknown \notin Int /\ Unknown \notin Value

ASSUME RulesAssumption ==
    \A p \in Problem : p.rules # {} =>
        /\ p = Instantiate(p.rules, p.execution, p.initial)
        /\ p.execution \in [Event -> [occurs : BOOLEAN, cycle : Int]]
        /\ \A rule \in p.rules : WellFormed(rule) /\ Evaluates(rule, p.execution)

\* Mutant: a state-guarded rule is reported as soon as its events match.
ReportedOnceMatched(rule) ==
    {c \in Instances(rule) : Active(rule, problem.execution, c)}

\* What the completed trace reports of a rule.
Reported(rule) ==
    {c \in Instances(rule) :
        /\ Active(rule, problem.execution, c)
        /\ rule.guarded => StatePredicatesHold(Predicates(rule, problem.execution, c))}

-----------------------------------------------------------------------------
(* The semantics that the Transformation class documents, without instances. *)

X == problem.execution

\* A rule may fire for events of its types, no two roles the same, that occur and
\* satisfy its guards and its ensure relation.
Firings(rule) ==
    {f \in [DOMAIN rule.inputs \cup DOMAIN rule.outputs -> {e \in Event : X[e].occurs}] :
        /\ \A r \in DOMAIN f : TypeOf[f[r]] = Both(rule.inputs, rule.outputs)[r]
        /\ \A r, q \in DOMAIN f : r # q => f[r] # f[q]
        /\ \A e \in {rule.when, rule.output_when} \cup rule.ensure : Eval(e, f, X)}

\* Its state requirements in a trajectory of states, s[t + 1] the one before cycle t.
Permitted(rule, s, f) ==
    \A k \in DOMAIN rule.requirements :
        LET r == rule.requirements[k]
        IN  Compare(r.op, s[X[f[r.at]].cycle + 1][r.state], Eval(r.value, f, X))

\* Inputs that match, in a state that lets the rule fire, have an output.
Responds(rule, s) ==
    \A i \in [DOMAIN rule.inputs -> {e \in Event : X[e].occurs}] :
        /\ \A r \in DOMAIN i : TypeOf[i[r]] = rule.inputs[r]
        /\ \A r, q \in DOMAIN i : r # q => i[r] # i[q]
        /\ Eval(rule.when, i, X)
        /\ rule.guarded => AnchoredAtInputs(rule) /\ Permitted(rule, s, i)
        => \E f \in Firings(rule) : i = InputOf(rule, f)

\* An exact rule accounts for every output in its scope.
Accounts(rule, s) ==
    \A r \in DOMAIN rule.outputs : \A e \in Event :
        /\ X[e].occurs
        /\ TypeOf[e] = rule.outputs[r]
        /\ Eval(rule.output_when, [q \in {r} |-> e], X)
        => \E f \in Firings(rule) : f[r] = e /\ (rule.guarded => Permitted(rule, s, f))

\* The writes of the firings, as <<cell, cycle, value>>.
Written ==
    UNION {UNION {{<<u.state, X[f[u.at]].cycle, Eval(u.value, f, X)>> : u \in rule.updates} :
                    f \in Firings(rule)} : rule \in problem.rules}

Lawful ==
    /\ \A e \in Event : X[e].occurs => X[e].cycle \in 0 .. Horizon
    /\ \E s \in Trajectories :
        /\ s[1] = problem.initial
        /\ \A rule \in problem.rules :
            /\ Responds(rule, s)
            /\ rule.exact => Accounts(rule, s)
            /\ ~ rule.guarded => \A f \in Firings(rule) : Permitted(rule, s, f)
        /\ \A w \in Written : s[w[2] + 2][w[1]] = w[3]
        /\ \A c \in Cell : \A t \in 0 .. Horizon :
            (\A w \in Written : ~ (w[1] = c /\ w[2] = t)) => s[t + 2][c] = s[t + 1][c]

\* The instances and the simulation together accept an execution exactly when it obeys
\* the rules as documented: no rule is missed for a binding, none is enforced twice or
\* for an event in two roles, and the two state modes do not get in each other's way.
CompletionIsLawful ==
    Returned /\ problem.rules # {} =>
        (Constraints(problem.rules, X) /\ phase = "feasible" <=> Lawful)

\* The report of a completed trace explains it: every output of an exact rule has a
\* reported firing, every change of state a reported writer, and the requirements of
\* whatever is reported held in the state before its cycle.
ReportExplainsTrace ==
    phase = "feasible" /\ problem.rules # {} /\ Constraints(problem.rules, X) =>
        /\ \A rule \in problem.rules : rule.exact =>
            \A o \in Outputs(rule) : Scope(rule, X, o) =>
                \E c \in Reported(rule) : o = OutputOf(rule, c)
        /\ \A t \in 0 .. Horizon : \A c \in Cell : StateBefore(t)[c] # StateBefore(t + 1)[c] =>
            \E rule \in problem.rules : \E f \in Reported(rule) : \E u \in rule.updates :
                u.state = c /\ X[f[u.at]].cycle = t
        /\ \A rule \in problem.rules : \A f \in Reported(rule) :
            Permitted(rule, pre, f)
=============================================================================
