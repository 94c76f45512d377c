--------------------------- MODULE StateEncoding ---------------------------
(***************************************************************************)
(* The state semantics as assertions for Z3: `_state_smt_constraints`,     *)
(* src/src/umcm/solver/z3ctypes.py.  One constant is declared for every    *)
(* cell and every cycle up to the one after the horizon: a model of the    *)
(* assertions is a sequence of snapshots, s[t + 1] the one before cycle t. *)
(***************************************************************************)
EXTENDS StateSimulation

CONSTANT Code       \* the number that stands for a value: itself, or its place in its sort

\* Numbers compare as the values they stand for: an integer stands for itself, and the
\* values of any other sort are numbered in order.
ASSUME CodeAssumption ==
    \A op \in {"eq", "ne", "lt", "le", "gt", "ge"} : \A v, w \in Value :
        Compare(op, Code[v], Code[w]) <=> Compare(op, v, w)

\* Requirements and guards are about declared cells and compare them with values.
Comparison(item) == item.state \in Cell /\ item.expected \in Datum

ASSUME ComparisonAssumption ==
    \A p \in Problem :
        /\ \A r \in p.requirements : Comparison(r)
        /\ \A item \in p.forwards : \A i \in DOMAIN item.predicates : Comparison(item.predicates[i])
        /\ \A item \in p.supports : \A i \in DOMAIN item.supports :
            \A j \in DOMAIN item.supports[i].predicates : Comparison(item.supports[i].predicates[j])

Snapshots == [1 .. Horizon + 2 -> [Cell -> {Code[v] : v \in Value}]]

\* Values are compared by their numbers.
Holds(op, actual, expected) == Compare(op, actual, Code[expected])

InitialAssertion(s) == \A c \in Cell : s[1][c] = Code[problem.initial[c]]

ActiveIn(item, t) == item.active = TRUE /\ item.cycle = t

RequirementAssertions(s) ==
    \A r \in problem.requirements : \A t \in 0 .. Horizon :
        ActiveIn(r, t) => Holds(r.op, s[t + 1][r.state], r.expected)

\* A predicate holds in one of the cycles its anchor may be in.
PredicateHolds(s, p) ==
    \E t \in 0 .. Horizon : p.cycle = t /\ Holds(p.op, s[t + 1][p.state], p.expected)

AllHold(s, predicates) == \A i \in DOMAIN predicates : PredicateHolds(s, predicates[i])

ForwardAssertions(s) ==
    \A item \in problem.forwards :
        item.antecedent = TRUE /\ AllHold(s, item.predicates) => item.consequent = TRUE

SupportAssertions(s) ==
    \A item \in problem.supports :
        item.antecedent = TRUE =>
            \E i \in DOMAIN item.supports :
                item.supports[i].expression = TRUE /\ AllHold(s, item.supports[i].predicates)

Writing(c, t) == {u \in problem.updates : u.state = c /\ ActiveIn(u, t)}

\* Mutant: a cell without updates anywhere is left unconstrained.
WrittenCellsOnly(s, c, t) ==
    /\ \A u \in Writing(c, t) : s[t + 2][c] = Code[u.value]
    /\ (\E u \in problem.updates : u.state = c) /\ Writing(c, t) = {} => s[t + 2][c] = s[t + 1][c]

\* Writes that are active in a cycle share the next constant, so they must agree; a
\* cell without one keeps its value.
CellAssertions(s, c, t) ==
    /\ \A u \in Writing(c, t) : s[t + 2][c] = Code[u.value]
    /\ Writing(c, t) = {} => s[t + 2][c] = s[t + 1][c]

Models ==
    {s \in Snapshots :
        /\ InitialAssertion(s) /\ RequirementAssertions(s)
        /\ ForwardAssertions(s) /\ SupportAssertions(s)
        /\ \A c \in Cell : \A t \in 0 .. Horizon : CellAssertions(s, c, t)}

\* What build_problem provides: nothing is left unevaluated, and what is active lies
\* within the horizon.
InHorizon(predicates) ==
    \A i \in DOMAIN predicates : ValidCycle(predicates[i].cycle) /\ predicates[i].expected # Unknown

Encodable ==
    /\ ~ InitialUnresolved /\ ~ Malformed
    /\ \A item \in problem.forwards :
          Unknown \notin {item.antecedent, item.consequent} /\ InHorizon(item.predicates)
    /\ \A item \in problem.supports : /\ item.antecedent # Unknown
                                      /\ \A i \in DOMAIN item.supports :
                                            /\ item.supports[i].expression # Unknown
                                            /\ InHorizon(item.supports[i].predicates)

\* "This mirrors check_state_semantics" (z3ctypes.py:309): the assertions have a
\* model exactly for the assignments that the simulation accepts, and its snapshots
\* are the pre-states that the simulation went through.  Otherwise Z3 would report
\* traces infeasible that are not, or enumerate candidates that are always rejected.
EncodingMirrorsSimulation ==
    Returned /\ Encodable =>
        /\ phase = "feasible" =>
              Models = {[t \in 1 .. Horizon + 2 |-> [c \in Cell |-> Code[Append(pre, state)[t][c]]]]}
        /\ phase = "infeasible" => Models = {}
=============================================================================
