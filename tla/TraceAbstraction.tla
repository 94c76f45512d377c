-------------------------- MODULE TraceAbstraction --------------------------
(***************************************************************************)
(* Summaries of a completed trace and the check of their justification,    *)
(* abstract_trace and check_refinement in src/src/umcm/hierarchy/engine.py.*)
(*                                                                         *)
(* A rule has a sequence of roles; a match is a sequence of events.  The   *)
(* id of a summary is the number of its template and the bound values.     *)
(* Events retained by visibility are retained by type.                     *)
(***************************************************************************)
EXTENDS Integers, Sequences, FiniteSets, SequencesExt

ValidRule(rule) ==
    /\ rule.roles # << >>
    /\ rule.min >= 0 /\ rule.max > 0 /\ rule.max >= rule.min

ValidAbstraction(spec) ==
    /\ \A rule \in ToSet(spec.rules) : ValidRule(rule)
    /\ IsInjective([i \in DOMAIN spec.rules |-> spec.rules[i].name])

Timed(e) == e.cycle >= 0

InOrder(rule, d, e) ==
    Timed(d) /\ Timed(e) => IF rule.strict THEN d.cycle < e.cycle ELSE d.cycle <= e.cycle

Literals(role, e) ==
    \A f \in DOMAIN role.fields :
        /\ f \in DOMAIN e.values
        /\ "value" \in DOMAIN role.fields[f] => e.values[f] = role.fields[f].value

\* The values bound to a variable, over all roles of a rule.
Bound(rule, m, v) ==
    UNION {{m[i].values[f] : f \in {g \in DOMAIN rule.roles[i].fields : rule.roles[i].fields[g] = [var |-> v]}} :
            i \in DOMAIN rule.roles}

Variables(rule) ==
    {p.var : p \in {q \in UNION {Range(rule.roles[i].fields) : i \in DOMAIN rule.roles} : "var" \in DOMAIN q}}

\* Only neighbouring roles are compared in time.
IsMatch(rule, m) ==
    /\ \A i \in DOMAIN m : m[i].type = rule.roles[i].type /\ Literals(rule.roles[i], m[i])
    /\ rule.distinct => IsInjective(m)
    /\ rule.ordered => \A i \in 2 .. Len(m) : InOrder(rule, m[i - 1], m[i])
    /\ \A v \in Variables(rule) : Cardinality(Bound(rule, m, v)) = 1

Matches(rule, events) == {m \in [DOMAIN rule.roles -> events] : IsMatch(rule, m)}

Value(rule, m, v) == CHOOSE x \in Bound(rule, m, v) : TRUE

SummaryId(rule, m) == <<rule.output.base>> \o [i \in DOMAIN rule.output.vars |-> Value(rule, m, rule.output.vars[i])]

\* A field is a variable, a field of a role, or a literal.
HasOutput(rule, m, o) ==
    /\ "var" \in DOMAIN o => o.var \in Variables(rule)
    /\ "role" \in DOMAIN o => o.role \in DOMAIN rule.roles /\ o.field \in DOMAIN m[o.role].values

Output(rule, m, o) ==
    IF "var" \in DOMAIN o THEN Value(rule, m, o.var)
    ELSE IF "role" \in DOMAIN o THEN m[o.role].values[o.field] ELSE o.value

\* The first or the last cycle of some of the roles: all, one, or none of them.
SummaryCycle(rule, m) ==
    LET cycles == {m[i].cycle : i \in {j \in rule.output.cycleOf : Timed(m[j])}}
    IN  IF cycles = {} THEN -1 ELSE IF rule.output.first THEN Min(cycles) ELSE Max(cycles)

Summary(rule, m) ==
    [id |-> SummaryId(rule, m), type |-> rule.output.type, cycle |-> SummaryCycle(rule, m), occurs |-> TRUE,
     owner |-> {}, public |-> FALSE,
     values |-> [f \in DOMAIN rule.output.fields |-> Output(rule, m, rule.output.fields[f])]]

Evidence(rule, m) == [rule |-> rule.name, output |-> Summary(rule, m), sources |-> [i \in DOMAIN m |-> m[i].id]]

-----------------------------------------------------------------------------
(* What a specification makes of a trace; NoTrace if it raises. *)

NoTrace == [raised |-> TRUE]

Bindable(rule) == ToSet(rule.output.vars) \subseteq Variables(rule)

RuleApplies(rule, events) ==
    LET ms == Matches(rule, events)
    IN  /\ rule.min <= Cardinality(ms) /\ Cardinality(ms) <= rule.max
        /\ ms # {} => Bindable(rule)
        /\ \A m \in ms : \A f \in DOMAIN rule.output.fields : HasOutput(rule, m, rule.output.fields[f])

EvidenceOf(spec, events) ==
    UNION {{Evidence(rule, m) : m \in Matches(rule, events)} : rule \in ToSet(spec.rules)}

SourcesToHide(spec, events) ==
    UNION {UNION {{m[i].id : i \in DOMAIN m} : m \in Matches(rule, events)} :
            rule \in {r \in ToSet(spec.rules) : r.hide}}

Explicit(spec, e) == e.id \in spec.ids \/ e.type \in spec.types

Keeps(spec, e, hide) == Explicit(spec, e) \/ (spec.keep /\ e.id \notin hide)

Abstraction(spec, source) ==
    LET concrete == {e \in source.events : e.occurs}
        kept == {e \in concrete : Keeps(spec, e, SourcesToHide(spec, concrete))}
        evidence == EvidenceOf(spec, concrete)
        events == kept \cup {v.output : v \in evidence}
        ids == {e.id : e \in events}
        preserved == {c \in source.constraints : c \subseteq ids}
    IN  [events |-> events, constraints |-> preserved,
         certificate |-> [source |-> source, retained |-> {e.id : e \in kept},
                          hidden |-> {e.id : e \in concrete \ kept}, summaries |-> evidence,
                          dropped |-> Cardinality(source.constraints \ preserved)]]

\* Mutant: summaries are compared with one another only.
DistinctSummaries(spec, source) ==
    LET evidence == EvidenceOf(spec, {e \in source.events : e.occurs})
    IN  \A v \in evidence : \A w \in evidence : v.output.id = w.output.id => v = w

\* No two events of the result have one id.
Distinguished(spec, source) ==
    LET concrete == {e \in source.events : e.occurs}
        evidence == EvidenceOf(spec, concrete)
    IN  /\ \A v \in evidence : \A w \in evidence : v.output.id = w.output.id => v = w
        /\ \A e \in concrete : Keeps(spec, e, SourcesToHide(spec, concrete)) =>
            \A v \in evidence : v.output.id # e.id

AbstractTrace(spec, source) ==
    IF /\ \A rule \in ToSet(spec.rules) : RuleApplies(rule, {e \in source.events : e.occurs})
       /\ Distinguished(spec, source)
    THEN Abstraction(spec, source) ELSE NoTrace

-----------------------------------------------------------------------------
(* Refinement: the abstraction is done again and has to give the same.     *)

\* Mutant: events are compared by their ids.
VerdictById(spec, source, actual) ==
    LET expected == AbstractTrace(spec, source)
    IN  IF expected = NoTrace THEN "raised"
        ELSE IF {e.id : e \in expected.events} # {e.id : e \in actual.events} THEN "events"
        ELSE IF expected.constraints # actual.constraints THEN "constraints"
        ELSE IF expected.certificate # actual.certificate THEN "certificate" ELSE "valid"

Verdict(spec, source, actual) ==
    LET expected == AbstractTrace(spec, source)
    IN  IF expected = NoTrace THEN "raised"
        ELSE IF expected.events # actual.events THEN "events"
        ELSE IF expected.constraints # actual.constraints THEN "constraints"
        ELSE IF expected.certificate # actual.certificate THEN "certificate" ELSE "valid"
=============================================================================
