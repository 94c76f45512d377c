------------------------- MODULE MCStateSimulation -------------------------
(***************************************************************************)
(* Two cells of two values over three cycles.  Plain problems have one or  *)
(* two requirements and up to two updates; guarded problems have an update *)
(* and a guarded rule; faulty ones have an item that cannot be evaluated.  *)
(* Instantiated problems come from a request (event 1) and two responses   *)
(* (2 and 3), absent or in one of the cycles 0 and 1, for response 3 in 1  *)
(* or beyond the horizon; one rule of every shape, or rules that write the *)
(* cell beside rules it guards.                                            *)
(***************************************************************************)
EXTENDS StateEncoding, TransformationInstances, FiniteSets

CONSTANT unknown

MCCell == 1 .. 2
MCValue == 0 .. 1
MCHorizon == 2
MCCode == [v \in MCValue |-> v]
MCEvent == 1 .. 3
MCTypeOf == <<"request", "response", "response">>

Requirement(active, t, c, op, v) ==
    [active |-> active, cycle |-> t, state |-> c, op |-> op, expected |-> v]
Update(active, t, c, v) == [active |-> active, cycle |-> t, state |-> c, value |-> v]
Predicate(t, op, v) == [cycle |-> t, state |-> 1, op |-> op, expected |-> v]

Store(v, w) == [c \in MCCell |-> IF c = 1 THEN v ELSE w]

Plain(initial, requirements, updates) ==
    [initial |-> initial, requirements |-> requirements, updates |-> updates,
     forwards |-> {}, supports |-> {}, rules |-> {}, execution |-> << >>]

Updates == {Update(TRUE, t, c, v) : t \in 0 .. 2, c \in MCCell, v \in MCValue}

UpdateSets == {{u, v} : u \in Updates, v \in Updates} \cup {{}}

RequirementSets ==
    {{Requirement(TRUE, t, c, op, v)} : t \in 0 .. 2, c \in MCCell,
        op \in {"eq", "ne"}, v \in MCValue} \cup
    {{Requirement(TRUE, 1, 1, op, v), Requirement(a, 2, 2, "eq", 1)} :
        op \in {"lt", "le", "gt", "ge"}, v \in MCValue, a \in BOOLEAN} \cup {{}}

Faulty ==
    {{Update(TRUE, 1, 1, 1), u} : u \in {Update(unknown, 0, 1, 1), Update(TRUE, 3, 1, 1),
        Update(TRUE, -1, 2, 1), Update(TRUE, unknown, 2, 1), Update(TRUE, 2, 2, unknown),
        Update(FALSE, unknown, 2, unknown)}}

FaultyRequirements ==
    {{Requirement(unknown, 0, 1, "eq", 0)}, {Requirement(TRUE, 3, 1, "eq", 0)},
     {Requirement(TRUE, 1, 2, "eq", unknown)}, {Requirement(FALSE, 1, 2, "eq", unknown)}}

GuardPredicates ==
    {Predicate(t, "eq", v) : t \in 0 .. 2, v \in MCValue} \cup
    {Predicate(unknown, "eq", 0), Predicate(3, "eq", 0), Predicate(0, "eq", unknown)}

PredicateLists == {<<p>> : p \in GuardPredicates} \cup {<<p, q>> : p \in GuardPredicates, q \in GuardPredicates}

Truth == {TRUE, FALSE, unknown}

GuardForwards == {[antecedent |-> a, predicates |-> ps, consequent |-> c] :
                a \in Truth, c \in Truth, ps \in PredicateLists}

Candidate(e, ps) == [expression |-> e, predicates |-> ps]

GuardSupports ==
    {[antecedent |-> a, supports |-> <<Candidate(e, <<p>>), Candidate(TRUE, <<q>>)>>] :
        a \in Truth, e \in Truth, p \in GuardPredicates, q \in GuardPredicates}

Guarded(updates, forwards, supports) ==
    [initial |-> Store(0, 0), requirements |-> {}, updates |-> updates,
     forwards |-> forwards, supports |-> supports, rules |-> {}, execution |-> << >>]

-----------------------------------------------------------------------------
(* Instances of rules. *)

MCEval(e, b, x) ==
    CASE e = "true"  -> TRUE
      [] e = "zero"  -> 0
      [] e = "one"   -> 1
      [] e = "early" -> x[b["i"]].cycle = 0
      [] e = "late"  -> x[b["o"]].cycle = 1
      [] e = "later" -> x[b["i"]].cycle < x[b["o"]].cycle

Absent == [occurs |-> FALSE, cycle |-> 0]
At(t) == [occurs |-> TRUE, cycle |-> t]

Executions == {<<a, b, c>> : a \in {Absent, At(0), At(1)}, b \in {Absent, At(0), At(1)},
                             c \in {Absent, At(1), At(3)}}

Requires(role, value) == <<[state |-> 1, at |-> role, op |-> "eq", value |-> value]>>
Sets(role, value) == {[state |-> 1, at |-> role, value |-> value]}

Rule(in, when, scope, ensure, requirements, updates, exact, guarded) ==
    [inputs |-> [i |-> in], outputs |-> [o |-> "response"], when |-> when, output_when |-> scope,
     ensure |-> ensure, requirements |-> requirements, updates |-> updates,
     exact |-> exact, guarded |-> guarded]

\* A rule without outputs, or without inputs.
Effect(in, updates) ==
    [Rule(in, "true", "true", {}, << >>, updates, FALSE, FALSE) EXCEPT !.outputs = << >>]
Source(scope, exact) ==
    [Rule("request", "true", scope, {}, << >>, {}, exact, FALSE) EXCEPT !.inputs = << >>]
\* Two responses that meet.
Join(updates) ==
    [Effect("response", updates) EXCEPT !.inputs = [i |-> "response", j |-> "response"]]

Anchors == {<< >>, Requires("i", "one"), Requires("o", "zero")}

OneRule ==
    {{Rule(in, w, s, e, r, u, exact, FALSE)} : in \in {"request", "response"},
        w \in {"true", "early"}, s \in {"true", "late"}, e \in {{}, {"later"}}, r \in Anchors,
        u \in {{}, Sets("o", "one")}, exact \in BOOLEAN}
    \cup {{Rule(in, "true", s, e, r, {}, exact, TRUE)} : in \in {"request", "response"},
        s \in {"true", "late"}, e \in {{}, {"later"}}, r \in Anchors, exact \in BOOLEAN}
    \cup {{Source(s, exact)} : s \in {"true", "late"}, exact \in BOOLEAN}
    \cup {{Effect("missing", {})}, {Join(Sets("j", "one"))}, {Join(Sets("i", "zero"))}}

Guarding(in, r, exact) == Rule(in, "true", "true", {"later"}, r, {}, exact, TRUE)

TwoRules ==
    {{w, Guarding(in, r, exact)} : w \in {Effect("request", Sets("i", "one")),
                                          Effect("response", Sets("i", "zero"))},
        in \in {"request", "response"}, r \in {Requires("i", "one"), Requires("o", "one")},
        exact \in BOOLEAN}
    \cup {{Effect("request", Sets("i", "one")), Effect("response", Sets("i", "zero"))}}

MCInstantiated ==
    {Instantiate(rules, x, [c \in MCCell |-> v]) :
        rules \in OneRule \cup TwoRules, x \in Executions, v \in MCValue}

MCEvaluated == UNION {
    {Plain(Store(v, 0), rs, us) : v \in MCValue, rs \in RequirementSets, us \in UpdateSets},
    {Plain(Store(v, w), rs, {Update(TRUE, 1, 1, 1)}) : v \in {0, unknown}, w \in {1, unknown},
        rs \in FaultyRequirements},
    {Plain(Store(0, 0), {}, us) : us \in Faulty},
    {Guarded({Update(TRUE, 1, 1, 1)}, {f}, {}) : f \in GuardForwards},
    {Guarded({Update(TRUE, 0, 1, 1)}, {}, {s}) : s \in GuardSupports}}

MCProblem == MCEvaluated \cup MCInstantiated
=============================================================================
