---------------------------- MODULE FiniteSearch ----------------------------
(***************************************************************************)
(* The finite completion backend: `solve_finite`,                          *)
(* src/src/umcm/solver/finite.py.                                          *)
(*                                                                         *)
(* A backtracking search over the ordered variables of a bounded problem.  *)
(* The recursive calls are the sequence `path`: path[i] is the place, in   *)
(* the domain of variable i, of the value it currently has, so Len(path)   *)
(* is the argument `index` of the running call.  Variables left by a call  *)
(* are popped from the assignment, so it binds exactly the first           *)
(* Len(path) variables whenever the constraints are evaluated.             *)
(***************************************************************************)
EXTENDS Integers, Sequences

CONSTANTS Problem,         \* the bounded problems considered
          Unknown,         \* the evaluator's UNKNOWN
          Raised,          \* its error
          None,            \* the cycle of an event that has none
          Refused, Place,  \* as in Expressions
          StateFeasible(_, _)  \* check_state_semantics(problem, values).feasible

Expr == INSTANCE Expressions

\* What stands in place of a value.
Verdictless == {Unknown, Raised, Refused, None}

ASSUME ValueAssumption ==
    /\ Verdictless \cap (BOOLEAN \cup Int) = {}
    /\ Unknown # Raised /\ Unknown # Refused /\ Raised # Refused
    /\ None \notin {Unknown, Raised, Refused}

\* Every variable has a value to try (_domain_for raises otherwise).
ASSUME ProblemAssumption ==
    \A pr \in Problem :
        /\ Len(pr.domains) \in Nat
        /\ \A i \in 1 .. Len(pr.domains) : Len(pr.domains[i]) \in Nat \ {0}
        /\ Len(pr.constraints) \in Nat
        /\ pr.limit \in Nat

\* The values of the variables bound by a path, a path that binds all the variables
\* to values of their domains, and its first n places.
ValuesOf(pr, p) == [i \in DOMAIN p |-> pr.domains[i][p[i]]]

TotalPathsOf(pr) ==
    LET places == UNION {1 .. Len(pr.domains[i]) : i \in 1 .. Len(pr.domains)}
    IN  {p \in [1 .. Len(pr.domains) -> places] :
            \A i \in 1 .. Len(pr.domains) : p[i] <= Len(pr.domains[i])}

FirstOf(p, n) == [i \in 1 .. n |-> p[i]]

\* The assignment of the search as a function on the names of the symbols.
Assignment(pr, values) ==
    [n \in {pr.names[i] : i \in DOMAIN values} |-> values[CHOOSE i \in DOMAIN values : pr.names[i] = n]]

Evaluated(pr, c, values) == Expr!Evaluate(c, pr.events, Assignment(pr, values))

Fits(sort, value) == Expr!Accepts(sort, value) /\ value \notin Verdictless

\* A literal or a symbol of this sort, whose domain has values of this sort, or nothing:
\* cycles, which are integers, may be None.
LeafFits(pr, leaf, sort) ==
    \/ leaf.op = "literal" /\ leaf.sort = sort /\ Fits(sort, leaf.value)
    \/ leaf.op = "symbol" /\ leaf.sort = sort
        /\ \E i \in DOMAIN pr.names :
              pr.names[i] = leaf.name /\ \A place \in 1 .. Len(pr.domains[i]) : Fits(sort, pr.domains[i][place])
    \/ leaf.op = "missing"
    \/ leaf.op = "none" /\ sort.kind = "int"

\* A constraint is well formed, well typed and Boolean, its calls are predicates, its fields
\* are those of events, and it is over variables.
WellPosed(pr, c) ==
    /\ Expr!WellFormed(c) /\ Expr!Typed(c) /\ c[Len(c)].sort = Expr!BoolSort
    /\ \A i \in DOMAIN c :
        /\ c[i].op \in Expr!Functions => c[i].sort = Expr!BoolSort
        /\ c[i].op = "field" =>
            /\ c[i].event \in DOMAIN pr.events /\ c[i].field \in DOMAIN pr.events[c[i].event]
            /\ LET held == Expr!Held(c[i], pr.events)
               IN  /\ held.op = "none" => c[i].field = "cycle"
                   /\ held.op = "missing" => c[i].field \notin {"occurs", "cycle"}
        /\ c[i].op \in {"literal", "symbol", "field"} => LeafFits(pr, Expr!Held(c[i], pr.events), c[i].sort)

ASSUME ExpressionAssumption ==
    \A pr \in Problem :
        /\ DOMAIN pr.names = 1 .. Len(pr.domains) /\ DOMAIN pr.constraints = 1 .. Len(pr.constraints)
        /\ \A i, j \in DOMAIN pr.names : pr.names[i] = pr.names[j] => i = j
        /\ \A i \in 1 .. Len(pr.constraints) : WellPosed(pr, pr.constraints[i])

VARIABLES problem,       \* domains, constraints and the node limit
          phase,         \* "enter" or "leave" a call, "done" or "raised"
          path,          \* the places of the values in the active calls
          explored,      \* calls of search so far
          unresolved,    \* hit_unknown_leaf
          witness        \* the values returned, or NoWitness

vars == <<problem, phase, path, explored, unresolved, witness>>

NoWitness == << >>

Width == Len(problem.domains)

Assigned(p) == ValuesOf(problem, p)

Verdict(p, i) == Evaluated(problem, problem.constraints[i], Assigned(p))
Verdicts(p) == {Verdict(p, i) : i \in 1 .. Len(problem.constraints)}

\* The constraints are evaluated in order, up to the first that is False or raises.
Refuted(p) ==
    \E i \in 1 .. Len(problem.constraints) :
        Verdict(p, i) = FALSE /\ \A j \in 1 .. i - 1 : Verdict(p, j) # Raised
Raises(p) ==
    \E i \in 1 .. Len(problem.constraints) :
        Verdict(p, i) = Raised /\ \A j \in 1 .. i - 1 : Verdict(p, j) # FALSE
Consistent(p) == ~ Refuted(p) /\ ~ Raises(p)

Init ==
    /\ problem \in Problem
    /\ phase = "enter"
    /\ path = << >>
    /\ explored = 0
    /\ unresolved = FALSE
    /\ witness = [found |-> FALSE, values |-> NoWitness]

Exceeded(count) == count > problem.limit

\* A call that goes no further: over the limit, or some constraint is False.
Prune ==
    /\ phase = "enter"
    /\ explored' = explored + 1
    /\ Exceeded(explored') \/ Refuted(path)
    /\ phase' = "leave"
    /\ UNCHANGED <<problem, path, unresolved, witness>>

\* A call whose constraints raise: the whole search ends in the error.
Raise ==
    /\ phase = "enter"
    /\ explored' = explored + 1
    /\ ~ Exceeded(explored') /\ Raises(path)
    /\ phase' = "raised"
    /\ UNCHANGED <<problem, path, unresolved, witness>>

\* Mutant: a full assignment with unresolved constraints is just dropped.
NeverUnresolved(p) == FALSE

LeafUnresolved(p) == Unknown \in Verdicts(p)

\* Mutant: the state semantics are not consulted.
AlwaysAccepted(p) == Verdicts(p) \subseteq {TRUE}

Accepted(p) == Verdicts(p) \subseteq {TRUE} /\ StateFeasible(problem, Assigned(p))

\* A call with every variable bound and no constraint False.
Leaf ==
    /\ phase = "enter"
    /\ explored' = explored + 1
    /\ ~ Exceeded(explored') /\ Consistent(path) /\ Len(path) = Width
    /\ unresolved' = (unresolved \/ LeafUnresolved(path))
    /\ IF Accepted(path)
       THEN phase' = "done" /\ witness' = [found |-> TRUE, values |-> Assigned(path)]
       ELSE phase' = "leave" /\ UNCHANGED witness
    /\ UNCHANGED <<problem, path>>

\* A call that tries the first value of its variable.
Descend ==
    /\ phase = "enter"
    /\ explored' = explored + 1
    /\ ~ Exceeded(explored') /\ Consistent(path) /\ Len(path) < Width
    /\ path' = Append(path, 1)
    /\ UNCHANGED <<problem, phase, unresolved, witness>>

Last == path[Len(path)]
Callers == SubSeq(path, 1, Len(path) - 1)

\* Mutant: the loop over the values does not look at the counter.
NextValueInDomain == Last < Len(problem.domains[Len(path)])

HasNextValue == Last < Len(problem.domains[Len(path)]) /\ ~ Exceeded(explored)

\* The call returned None: its caller tries the next value of its variable.
NextValue ==
    /\ phase = "leave"
    /\ path # << >>
    /\ HasNextValue
    /\ path' = Append(Callers, Last + 1)
    /\ phase' = "enter"
    /\ UNCHANGED <<problem, explored, unresolved, witness>>

\* The loop of the caller is over as well: it returns None in turn.
Return ==
    /\ phase = "leave"
    /\ path # << >>
    /\ ~ HasNextValue
    /\ path' = Callers
    /\ UNCHANGED <<problem, phase, explored, unresolved, witness>>

Finish ==
    /\ phase = "leave"
    /\ path = << >>
    /\ phase' = "done"
    /\ UNCHANGED <<problem, path, explored, unresolved, witness>>

Terminated == phase \in {"done", "raised"} /\ UNCHANGED vars

Next == Prune \/ Raise \/ Leaf \/ Descend \/ NextValue \/ Return \/ Finish \/ Terminated

Spec == Init /\ [][Next]_vars

\* The status of the result, in the order the function decides it.
Status ==
    IF witness.found THEN "sat"
    ELSE IF Exceeded(explored) \/ unresolved THEN "unknown" ELSE "unsat"

-----------------------------------------------------------------------------
(* What the completion of a trace may conclude from `solve_finite`. *)

TotalPaths == TotalPathsOf(problem)

Solves(p) == Verdicts(p) \subseteq {TRUE} /\ StateFeasible(problem, Assigned(p))

\* A total assignment that some resolution of its unknowns might make a solution.
Possible(p) == Verdicts(p) \subseteq {TRUE, Unknown} /\ (Unknown \in Verdicts(p) \/ Solves(p))

\* p is tried before q: it has the earlier value where they first differ.
Before(p, q) ==
    \E i \in DOMAIN p \cap DOMAIN q : p[i] < q[i] /\ \A j \in 1 .. i - 1 : p[j] = q[j]

\* The path binds a first part of the variables to values of their domains.
TypeOK ==
    /\ phase \in {"enter", "leave", "done", "raised"}
    /\ path \in Seq(Nat \ {0})
    /\ Len(path) <= Width
    /\ \A i \in 1 .. Len(path) : path[i] <= Len(problem.domains[i])
    /\ explored \in Nat
    /\ unresolved \in BOOLEAN
    /\ witness.found \in BOOLEAN

\* INFEASIBLE is only reported when no assignment within the domains could be a
\* completion, pruned and unresolved ones included.
UnsatIsExhaustive ==
    phase = "done" /\ Status = "unsat" => \A p \in TotalPaths : ~ Possible(p)

\* A completion is a solution, state semantics included, and it is the first one in
\* the order of the domains: the backend is deterministic although it prunes.
SatIsFirstSolution ==
    witness.found =>
        /\ phase = "done" /\ Len(path) = Width /\ Solves(path)
        /\ witness.values = Assigned(path)
        /\ \A p \in TotalPaths : Before(p, path) => ~ Solves(p)

\* What a call knows of a constraint is final: no extension of its assignment gives it
\* another value than the evaluator gives under it, unless it raises, so that pruning early
\* and skipping a constraint that is True are both safe.
KnownIsFinal ==
    phase = "enter" => \A p \in TotalPaths : FirstOf(p, Len(path)) = path =>
        \A i \in 1 .. Len(problem.constraints) :
            Verdict(path, i) \in {TRUE, FALSE} => Verdict(p, i) \in {Verdict(path, i), Raised}

\* The node limit bounds the work: at most one call is made beyond it, however many of
\* the calls on the stack still have values to try when it is exceeded.
LimitIsKept == explored <= problem.limit + 1

\* UNKNOWN is not a way out: without an unresolved constraint there is a definite answer,
\* unless the limit was exceeded, and then the search unwinds without another call.
UnknownIsForced ==
    phase = "done" /\ Status = "unknown" =>
        \/ explored = problem.limit + 1
        \/ \E p \in TotalPaths : Possible(p) /\ ~ Solves(p)
=============================================================================
