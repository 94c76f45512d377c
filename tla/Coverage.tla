------------------------------ MODULE Coverage ------------------------------
(***************************************************************************)
(* Reachability goals over bounded problems, src/src/umcm/coverage/.       *)
(*                                                                         *)
(* A case is one input trace of a model, instantiated.  What its problem   *)
(* admits is given by its worlds, the traces that complete it: which of    *)
(* the bounded events occur, which activations of rules match, which of    *)
(* these the state permits, what every update writes over what, and the    *)
(* last cycle.  A goal is a sequence of probes that all have to be met.    *)
(* Name patterns are the sets of names they match; the field predicates    *)
(* of event probes are left out.                                           *)
(***************************************************************************)
EXTENDS Integers, Sequences, FiniteSets, SequencesExt

CONSTANTS Suite,
          Safe(_),        \* the characters of a name that may be part of a goal id
          AnyState             \* no pre-state is requested

\* Suites are finite lists of cases, goals and selectors, goals finite lists of probes;
\* models have finitely many names to select, and worlds finitely many events.
ASSUME SuiteAssumption ==
    \A s \in Suite :
        /\ s.cases \in Seq(ToSet(s.cases))
        /\ s.goals \in Seq(ToSet(s.goals))
        /\ s.selectors \in Seq(ToSet(s.selectors))
        /\ \A g \in ToSet(s.goals) : g.probes \in Seq(ToSet(g.probes))
        /\ \A r \in ToSet(s.selectors) : r.kind \in {"transformation", "public_interface", "private_event"}
        /\ \A c \in ToSet(s.cases) :
            /\ IsFiniteSet(c.rules) /\ IsFiniteSet(DOMAIN c.ports) /\ IsFiniteSet(c.private)
            /\ \A w \in c.worlds : IsFiniteSet(w.occurs) /\ w.last \in Nat

VARIABLES suite,
          phase,          \* "load", "prepare", "goal", "case", "compile", "reported" or "raised"
          prepared,       \* the cases instantiated so far
          goals, goal,    \* the expanded goals, and the one that is being covered
          case,           \* its next case
          probe,          \* the next probe to compile
          query,          \* the copy of the problem with what the goal adds
          feasible, missing, failed,      \* outcomes of the cases of the goal
          saw_unknown,
          results

vars == <<suite, phase, prepared, goals, goal, case, probe, query, feasible,
          missing, failed, saw_unknown, results>>

goalVars == <<case, probe, query, feasible, missing, failed, saw_unknown>>

-----------------------------------------------------------------------------
(* Inventory of the models and generated goals. *)

\* The cases of a model, those of the given inputs or all, in the order they have.
CasesOf(cases, model, inputs) ==
    LET Wanted(c) == c.model = model /\ (inputs = {} \/ c.name \in inputs)
        kept[i \in 0 .. Len(cases)] ==
            IF i = 0 THEN << >>
            ELSE IF Wanted(cases[i]) THEN Append(kept[i - 1], cases[i]) ELSE kept[i - 1]
    IN  kept[Len(cases)]

Inventory(model) == ToSet(CasesOf(prepared, model, {}))

Transformations(c) == c.rules
Interfaces(c) == DOMAIN c.ports
Private(c) == c.private
Selectable(s) ==
    CASE s.kind = "transformation"   -> UNION {Transformations(c) : c \in Inventory(s.model)}
      [] s.kind = "public_interface" -> UNION {Interfaces(c) : c \in Inventory(s.model)}
      [] s.kind = "private_event"    -> UNION {Private(c) : c \in Inventory(s.model)}

ProbeKind(s) ==
    CASE s.kind = "transformation"   -> "transformation"
      [] s.kind = "public_interface" -> "interface"
      [] s.kind = "private_event"    -> "event"

AutoGoal(s, name) ==
    [id |-> <<"auto", s.model, s.kind, Safe(name)>>, model |-> s.model, inputs |-> s.inputs,
     probes |-> <<[kind |-> ProbeKind(s), names |-> {name}]>>]

AutoGoals(s) ==
    LET chosen == (Selectable(s) \cap s.include) \ s.exclude
    IN  [i \in 1 .. Cardinality(chosen) |-> AutoGoal(s, SetToSeq(chosen)[i])]

-----------------------------------------------------------------------------
(* Probes. *)

\* What could meet a probe in a case: bounded events, activations or updates.
Alternatives(c, p) ==
    CASE p.kind = "event"            -> {e \in c.events : e.type \in p.names}
      [] p.kind = "transformation"   -> {a \in c.activations : a.rule \in p.names}
      [] p.kind = "interface"        ->
            {e \in c.events : \E n \in p.names \cap DOMAIN c.ports : e.type = c.ports[n]}
      [] p.kind = "state_transition" -> {u \in c.updates : u.state \in p.names}

\* The expression of an alternative, in a world ...
Meets(w, p, a) ==
    CASE p.kind \in {"event", "interface"} -> a.id \in w.occurs
      [] p.kind = "transformation"         -> a.id \in w.matched
      [] p.kind = "state_transition"       -> a.id \in DOMAIN w.written /\ w.written[a.id].to = p.to

\* ... and what it asks of the state, which is not part of the expression.
Conditional(p, a) ==
    \/ p.kind = "transformation" /\ a.guarded
    \/ p.kind = "state_transition" /\ p.from # AnyState

Permits(w, p, a) ==
    IF p.kind = "transformation" THEN a.id \in w.permitted ELSE w.written[a.id].from = p.from

\* State requirements bind whichever alternative is taken.
Requirements(c, p) == {[probe |-> p, of |-> a] : a \in {b \in Alternatives(c, p) : Conditional(p, b)}}

\* Mutant: the lists of the prepared problem itself are extended.
Reused == [constraints |-> << >>, requirements |-> query.requirements]

\* The problem is copied for every query, so nothing is left of the goals before.
Fresh == [constraints |-> << >>, requirements |-> {}]

Accepts(w, c, q) ==
    /\ \A i \in DOMAIN q.constraints : \E a \in Alternatives(c, q.constraints[i]) :
        Meets(w, q.constraints[i], a)
    /\ \A r \in q.requirements : r.of \in Alternatives(c, r.probe) =>
        (Meets(w, r.probe, r.of) => Permits(w, r.probe, r.of))

Solutions(c, q) == {w \in c.worlds : Accepts(w, c, q)}

Hidden(c, w) == Cardinality(w.occurs \cap c.slots)

\* Z3 minimizes the selected slots, the finite search returns what it meets first.
Solved(c, q) ==
    IF suite.backend = "z3"
    THEN {w \in Solutions(c, q) : \A v \in Solutions(c, q) : Hidden(c, w) <= Hidden(c, v)}
    ELSE Solutions(c, q)

Score(f) == <<Hidden(f.of, f.world), Cardinality(f.world.occurs), f.world.last>>

\* Mutant: the last cycle is compared first.
EarliestFirst(s, t) == s[3] < t[3] \/ (s[3] = t[3] /\ s[1] < t[1])

Precedes(s, t) == \E i \in 1 .. 3 : s[i] < t[i] /\ \A j \in 1 .. i - 1 : s[j] = t[j]

\* The first of the smallest.
Best(fs) ==
    fs[Min({i \in DOMAIN fs : \A j \in DOMAIN fs : ~ Precedes(Score(fs[j]), Score(fs[i]))})]

-----------------------------------------------------------------------------
Init ==
    /\ suite \in Suite
    /\ phase = "load"
    /\ prepared = << >>
    /\ goals = << >>
    /\ goal = 1
    /\ case = 1
    /\ probe = 1
    /\ query = [constraints |-> << >>, requirements |-> {}]
    /\ feasible = << >>
    /\ missing = 0
    /\ failed = 0
    /\ saw_unknown = FALSE
    /\ results = << >>

\* Goals and selectors refer to models of the suite and to inputs of these.
ValidSuite ==
    LET inputs(model) == {c.name : c \in {d \in ToSet(suite.cases) : d.model = model}}
    IN  /\ IsInjective([i \in DOMAIN suite.goals |-> suite.goals[i].id])
        /\ \A g \in ToSet(suite.goals \o suite.selectors) :
            g.model \in DOMAIN suite.declared /\ g.inputs \subseteq inputs(g.model)

Load ==
    /\ phase = "load"
    /\ phase' = IF ValidSuite THEN "prepare" ELSE "raised"
    /\ UNCHANGED <<suite, prepared, goals, goal, goalVars, results>>

\* Input traces hold declared public events only.
Prepare ==
    /\ phase = "prepare"
    /\ Len(prepared) < Len(suite.cases)
    /\ LET c == suite.cases[Len(prepared) + 1]
       IN  IF {e.type : e \in {d \in c.events : d.id \notin c.slots}} \subseteq suite.declared[c.model]
           THEN prepared' = Append(prepared, c) /\ UNCHANGED phase
           ELSE phase' = "raised" /\ UNCHANGED prepared
    /\ UNCHANGED <<suite, goals, goal, goalVars, results>>

Expand ==
    /\ phase = "prepare"
    /\ Len(prepared) = Len(suite.cases)
    /\ goals' = suite.goals \o FlattenSeq([i \in DOMAIN suite.selectors |-> AutoGoals(suite.selectors[i])])
    /\ phase' = IF IsInjective([i \in DOMAIN goals' |-> goals'[i].id]) THEN "goal" ELSE "raised"
    /\ UNCHANGED <<suite, prepared, goal, goalVars, results>>

Goal == goals[goal]
Cases == CasesOf(prepared, Goal.model, Goal.inputs)
Case == Cases[case]

Begin ==
    /\ phase = "goal"
    /\ goal <= Len(goals)
    /\ case' = 1
    /\ feasible' = << >>
    /\ missing' = 0
    /\ failed' = 0
    /\ saw_unknown' = FALSE
    /\ phase' = "case"
    /\ UNCHANGED <<suite, prepared, goals, goal, probe, query, results>>

NextCase ==
    /\ phase = "case"
    /\ case <= Len(Cases)
    /\ query' = Fresh
    /\ probe' = 1
    /\ phase' = "compile"
    /\ UNCHANGED <<suite, prepared, goals, goal, case, feasible, missing, failed, saw_unknown, results>>

Compile ==
    /\ phase = "compile"
    /\ probe <= Len(Goal.probes)
    /\ LET p == Goal.probes[probe]
       IN  query' = [constraints |-> IF Alternatives(Case, p) = {} THEN query.constraints
                                     ELSE Append(query.constraints, p),
                     requirements |-> query.requirements \cup Requirements(Case, p)]
    /\ probe' = probe + 1
    /\ UNCHANGED <<suite, phase, prepared, goals, goal, case, feasible, missing, failed, saw_unknown, results>>

\* A probe without alternatives: the case is not solved.
Miss ==
    /\ phase = "compile"
    /\ probe > Len(Goal.probes)
    /\ Len(query.constraints) < Len(Goal.probes)
    /\ missing' = missing + 1
    /\ case' = case + 1
    /\ phase' = "case"
    /\ UNCHANGED <<suite, prepared, goals, goal, probe, query, feasible, failed, saw_unknown, results>>

Solving ==
    /\ phase = "compile"
    /\ probe > Len(Goal.probes)
    /\ Len(query.constraints) = Len(Goal.probes)
    /\ case' = case + 1
    /\ phase' = "case"
    /\ UNCHANGED <<suite, prepared, goals, goal, probe, query, missing, results>>

Found ==
    /\ Solving
    /\ \E w \in Solved(Case, query) :
        feasible' = Append(feasible, [of |-> Case, world |-> w])
    /\ UNCHANGED <<failed, saw_unknown>>

Refuted ==
    /\ Solving
    /\ Solutions(Case, query) = {}
    /\ failed' = failed + 1
    /\ UNCHANGED <<feasible, saw_unknown>>

\* A limit of the solver, or an error: both are only a reason, the first is remembered.
Undecided ==
    /\ Solving
    /\ Case.hard
    /\ failed' = failed + 1
    /\ saw_unknown' \in {saw_unknown, TRUE}
    /\ UNCHANGED feasible

Status ==
    IF Cases = << >> THEN "unreachable"
    ELSE IF feasible # << >> THEN "covered"
    ELSE IF missing > 0 /\ failed = 0 THEN "unreachable"
    ELSE IF saw_unknown THEN "unknown" ELSE "uncovered"

Conclude ==
    /\ phase = "case"
    /\ case > Len(Cases)
    /\ results' = Append(results,
            [status |-> Status, witness |-> IF feasible = << >> THEN << >> ELSE <<Best(feasible)>>])
    /\ goal' = goal + 1
    /\ phase' = "goal"
    /\ UNCHANGED <<suite, prepared, goals, goalVars>>

Report ==
    /\ phase = "goal"
    /\ goal > Len(goals)
    /\ phase' = "reported"
    /\ UNCHANGED <<suite, prepared, goals, goal, goalVars, results>>

Next ==
    \/ Load \/ Prepare \/ Expand \/ Begin \/ NextCase \/ Compile \/ Miss
    \/ Found \/ Refuted \/ Undecided \/ Conclude \/ Report

Spec == Init /\ [][Next]_vars

-----------------------------------------------------------------------------
(* What a report claims. *)

CasesFor(g) == ToSet(CasesOf(prepared, g.model, g.inputs))

\* The meaning of a goal in PATH_COVERAGE_V0.19.md: one activation or update that
\* matches and that the state permits.
Achieves(w, c, g) ==
    \A i \in DOMAIN g.probes : \E a \in Alternatives(c, g.probes[i]) :
        Meets(w, g.probes[i], a) /\ (Conditional(g.probes[i], a) => Permits(w, g.probes[i], a))

\* The meaning the queries give it, which is narrower: the state has to permit every
\* alternative that matches, also those that are not needed.
Strictly(w, c, g) ==
    /\ Achieves(w, c, g)
    /\ \A i \in DOMAIN g.probes : \A a \in Alternatives(c, g.probes[i]) :
        Conditional(g.probes[i], a) /\ Meets(w, g.probes[i], a) => Permits(w, g.probes[i], a)

\* The traces on which the two agree: an alternative with a condition on the state is
\* the only match of its probe.
Unambiguous(w, c, g) ==
    \A i \in DOMAIN g.probes : \A a, b \in Alternatives(c, g.probes[i]) :
        Meets(w, g.probes[i], a) /\ Meets(w, g.probes[i], b) /\ Conditional(g.probes[i], b) => a = b

Decided(g) == \A c \in CasesFor(g) : ~ c.hard

\* A goal counts as covered only by a trace of one of its declared inputs in which every
\* probe is met, the state included: an event of the right type is not enough, nor is a
\* rule that matches while its guard forbids it.  With Z3 no trace of any of its inputs in
\* which the state permits every alternative that matches needs fewer hidden events,
\* although every input is minimized alone and only one witness per input is kept.
CoveredIsWitnessed ==
    \A i \in DOMAIN results : results[i].status = "covered" =>
        LET f == results[i].witness[1]
        IN  /\ f.of \in CasesFor(goals[i]) /\ f.world \in f.of.worlds /\ Achieves(f.world, f.of, goals[i])
            /\ Decided(goals[i]) /\ suite.backend = "z3" =>
                \A c \in CasesFor(goals[i]) : \A w \in c.worlds :
                    Strictly(w, c, goals[i]) => Hidden(f.of, f.world) <= Hidden(c, w)

\* A goal is uncovered only if no unambiguous trace of its inputs reaches it, whatever
\* goals and cases were tried before it, unless a solver gave up.
UncoveredIsRefuted ==
    \A i \in DOMAIN results : results[i].status = "uncovered" /\ Decided(goals[i]) =>
        \A c \in CasesFor(goals[i]) : \A w \in c.worlds :
            Unambiguous(w, c, goals[i]) => ~ Achieves(w, c, goals[i])

\* The documented status: a goal is uncovered if its inputs have no trace that reaches it
\* (PATH_COVERAGE_V0.19.md).  The queries ask for more, so a goal can be reported uncovered
\* that one of several matches reaches.
UncoveredIsUnreachable ==
    \A i \in DOMAIN results : results[i].status = "uncovered" /\ Decided(goals[i]) =>
        \A c \in CasesFor(goals[i]) : \A w \in c.worlds : ~ Achieves(w, c, goals[i])
=============================================================================
