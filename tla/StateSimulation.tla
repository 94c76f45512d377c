-------------------------- MODULE StateSimulation --------------------------
(***************************************************************************)
(* The operational state of a fully assigned bounded trace:                *)
(* `check_state_semantics`, src/src/umcm/solver/state.py, and the state    *)
(* predicates of the completed trace, src/src/umcm/solver/completion.py.   *)
(*                                                                         *)
(* A problem is given with its expressions evaluated under the assignment: *)
(* a literal, or Unknown where the evaluator cannot tell.  Cells are       *)
(* naturals in the order the code sorts their names.  Requirements and     *)
(* updates are sets, since their order only picks the reason text; guard   *)
(* predicates and support candidates are sequences, since the first one    *)
(* that decides ends the loop.                                             *)
(***************************************************************************)
EXTENDS Integers, Sequences

CONSTANTS Cell,       \* the declared state cells
          Horizon,    \* the last cycle
          Value,      \* the values a cell may hold
          Unknown,    \* the evaluator's UNKNOWN
          Problem     \* the evaluated problems considered

ASSUME CellAssumption == Cell \in SUBSET Nat
ASSUME HorizonAssumption == Horizon \in Nat

Activation == BOOLEAN \cup {Unknown}
Time == Int \cup {Unknown}
Datum == Value \cup {Unknown}

ASSUME ProblemAssumption ==
    \A p \in Problem :
        /\ p.initial \in [Cell -> Datum]
        /\ \A u \in p.updates :
            u.active \in Activation /\ u.cycle \in Time /\ u.state \in Cell /\ u.value \in Datum
        /\ \A item \in p.supports :
            Len(item.supports) \in Nat /\ DOMAIN item.supports = 1 .. Len(item.supports)

VARIABLES problem,    \* the argument
          phase,      \* the part of the function that runs, or its verdict
          cycle,      \* the cycle of the loop
          state,      \* the cells, written in place
          before,     \* the copy taken at the start of the cycle
          pending,    \* cells of this cycle whose writes are not applied yet
          pre,        \* pre_state_by_cycle, as a sequence: pre[t + 1] for cycle t
          steps       \* the recorded steps of the active cycles

vars == <<problem, phase, cycle, state, before, pending, pre, steps>>

ValidCycle(t) == t \in 0 .. Horizon

\* _compare_state, and the comparison table of _state_predicates_hold.
Compare(op, actual, expected) ==
    \/ op = "eq" /\ actual = expected
    \/ op = "ne" /\ actual # expected
    \/ op = "lt" /\ actual < expected
    \/ op = "le" /\ actual <= expected
    \/ op = "gt" /\ actual > expected
    \/ op = "ge" /\ actual >= expected

\* An activation that is unknown, or an active item that is not fully evaluated
\* or lies outside the horizon, refuses the assignment.
Rejected(item, value) ==
    \/ item.active = Unknown
    \/ item.active = TRUE /\ (~ ValidCycle(item.cycle) \/ value = Unknown)

Malformed ==
    \/ \E r \in problem.requirements : Rejected(r, r.expected)
    \/ \E u \in problem.updates : Rejected(u, u.value)

RequirementsAt(t) == {r \in problem.requirements : r.active = TRUE /\ r.cycle = t}
UpdatesAt(t) == {u \in problem.updates : u.active = TRUE /\ u.cycle = t}

WritesTo(c, t) == {u.value : u \in {v \in UpdatesAt(t) : v.state = c}}

-----------------------------------------------------------------------------
(* Guards of state-guarded transitions, over the recorded pre-states. *)

\* A predicate that cannot be evaluated, and one that does not hold.
Unresolved(p) == ~ ValidCycle(p.cycle) \/ p.expected = Unknown
Fails(p) == ~ Compare(p.op, pre[p.cycle + 1][p.state], p.expected)

\* The first deciding predicate ends the loop of _guard_predicates_hold.
GuardResult(predicates) ==
    LET Stops(i) == Unresolved(predicates[i]) \/ Fails(predicates[i])
        First(i) == Stops(i) /\ \A j \in 1 .. i - 1 : ~ Stops(j)
    IN  IF \E i \in DOMAIN predicates : First(i) /\ Unresolved(predicates[i]) THEN "error"
        ELSE IF \E i \in DOMAIN predicates : Stops(i) THEN "false"
        ELSE "true"

ForwardError(item) ==
    \/ item.antecedent = Unknown
    \/ /\ item.antecedent = TRUE
       /\ \/ GuardResult(item.predicates) = "error"
          \/ GuardResult(item.predicates) = "true" /\ item.consequent # TRUE

\* Candidates are tried in turn; the first whose guards hold supports the output,
\* unless one before it could not be evaluated.
Supported(candidates) ==
    \E i \in DOMAIN candidates :
        /\ candidates[i].expression = TRUE
        /\ GuardResult(candidates[i].predicates) = "true"
        /\ \A j \in 1 .. i - 1 : candidates[j].expression = TRUE =>
                GuardResult(candidates[j].predicates) = "false"

SupportError(item) ==
    \/ item.antecedent = Unknown
    \/ item.antecedent = TRUE /\ ~ Supported(item.supports)

GuardedError ==
    \/ \E item \in problem.forwards : ForwardError(item)
    \/ \E item \in problem.supports : SupportError(item)

-----------------------------------------------------------------------------
(* The simulation. *)

Init ==
    /\ problem \in Problem
    /\ phase = "collect"
    /\ cycle = 0
    /\ state = problem.initial
    /\ before = problem.initial
    /\ pending = {}
    /\ pre = << >>
    /\ steps = << >>

InitialUnresolved == \E c \in Cell : problem.initial[c] = Unknown

\* Initial values, requirements and updates are evaluated and grouped by cycle.
Collect ==
    /\ phase = "collect"
    /\ phase' = IF InitialUnresolved \/ Malformed THEN "infeasible" ELSE "cycle"
    /\ UNCHANGED <<problem, cycle, state, before, pending, pre, steps>>

\* Mutant: requirements are checked against the state after the cycle's updates.
HoldsAfter(r) ==
    LET after == IF WritesTo(r.state, cycle) = {} THEN state[r.state]
                 ELSE CHOOSE value \in WritesTo(r.state, cycle) : TRUE
    IN  Compare(r.op, after, r.expected)

HoldsBefore(r) == Compare(r.op, state[r.state], r.expected)

\* The pre-state of the cycle is recorded and every requirement checked against it.
BeginCycle ==
    /\ phase = "cycle"
    /\ cycle <= Horizon
    /\ before' = state
    /\ pre' = Append(pre, state)
    /\ IF \A r \in RequirementsAt(cycle) : HoldsBefore(r)
       THEN phase' = "write" /\ pending' = {u.state : u \in UpdatesAt(cycle)}
       ELSE phase' = "infeasible" /\ UNCHANGED pending
    /\ UNCHANGED <<problem, cycle, state, steps>>

\* Mutant: the last write of a cell wins.
AnyWrite(c) == TRUE

WritesAgree(c) == \A v, w \in WritesTo(c, cycle) : v = w

\* The grouped updates are applied cell by cell, in the order of the names.
WriteCell ==
    /\ phase = "write"
    /\ \E c \in pending :
        /\ \A other \in pending : c <= other
        /\ pending' = pending \ {c}
        /\ IF WritesAgree(c)
           THEN /\ \E value \in WritesTo(c, cycle) : state' = [state EXCEPT ![c] = value]
                /\ UNCHANGED phase
           ELSE phase' = "infeasible" /\ UNCHANGED state
    /\ UNCHANGED <<problem, cycle, before, pre, steps>>

ActiveAt(t) == RequirementsAt(t) # {} \/ UpdatesAt(t) # {}

EndCycle ==
    /\ phase = "write"
    /\ pending = {}
    /\ steps' = IF ActiveAt(cycle)
                THEN Append(steps, [cycle |-> cycle, before |-> before, after |-> state])
                ELSE steps
    /\ cycle' = cycle + 1
    /\ phase' = "cycle"
    /\ UNCHANGED <<problem, state, before, pending, pre>>

CheckGuards ==
    /\ phase = "cycle"
    /\ cycle = Horizon + 1
    /\ phase' = IF GuardedError THEN "infeasible" ELSE "feasible"
    /\ UNCHANGED <<problem, cycle, state, before, pending, pre, steps>>

Terminated == phase \in {"feasible", "infeasible"} /\ UNCHANGED vars

Next == Collect \/ BeginCycle \/ WriteCell \/ EndCycle \/ CheckGuards \/ Terminated

Spec == Init /\ [][Next]_vars

-----------------------------------------------------------------------------
(* _state_predicates_hold: what the completed trace reports as active. *)

\* The state before cycle t, from the initial state and the recorded steps.
StateBefore(t) ==
    LET Earlier == {i \in DOMAIN steps : steps[i].cycle < t}
    IN  IF Earlier = {} THEN problem.initial
        ELSE steps[CHOOSE i \in Earlier : \A j \in Earlier : j <= i].after

StatePredicatesHold(predicates) ==
    \A i \in DOMAIN predicates :
        /\ predicates[i].cycle # Unknown
        /\ predicates[i].expected # Unknown
        /\ Compare(predicates[i].op, StateBefore(predicates[i].cycle)[predicates[i].state],
                   predicates[i].expected)

-----------------------------------------------------------------------------
(* What a feasible simulation means, stated without running it: some trajectory
   of states explains the trace. *)

Returned == phase \in {"feasible", "infeasible"}

\* The cells, the recorded pre-states and the steps hold values once collected.
TypeOK ==
    /\ phase \in {"collect", "cycle", "write", "feasible", "infeasible"}
    /\ cycle \in 0 .. Horizon + 1
    /\ phase \in {"cycle", "write", "feasible"} => state \in [Cell -> Value]
    /\ pending \subseteq Cell
    /\ pre \in Seq([Cell -> Value])
    /\ Len(pre) <= Horizon + 1
    /\ steps \in Seq([cycle : 0 .. Horizon, before : [Cell -> Value], after : [Cell -> Value]])

\* A trajectory s[1], s[2], ... of states, s[t + 1] the one before cycle t.
Follows(s) ==
    /\ s[1] = problem.initial
    /\ \A t \in 0 .. Horizon :
        /\ \A r \in RequirementsAt(t) : Compare(r.op, s[t + 1][r.state], r.expected)
        /\ \A u \in UpdatesAt(t) : s[t + 2][u.state] = u.value
        /\ \A c \in Cell : WritesTo(c, t) = {} => s[t + 2][c] = s[t + 1][c]

Trajectories == [1 .. Horizon + 2 -> [Cell -> Value]]

\* A guard list over a trajectory: decided by its first unresolved or false entry.
Decides(s, p) ==
    \/ ~ ValidCycle(p.cycle) \/ p.expected = Unknown
    \/ ~ Compare(p.op, s[p.cycle + 1][p.state], p.expected)

Enabled(s, predicates) == \A i \in DOMAIN predicates : ~ Decides(s, predicates[i])

Undecidable(s, predicates) ==
    \E i \in DOMAIN predicates :
        /\ ~ ValidCycle(predicates[i].cycle) \/ predicates[i].expected = Unknown
        /\ \A j \in 1 .. i - 1 : ~ Decides(s, predicates[j])

\* Guarded rules fire: an enabled input has its output, an output its support.
Obeys(s) ==
    /\ \A item \in problem.forwards :
        /\ item.antecedent # Unknown
        /\ item.antecedent = TRUE =>
            /\ ~ Undecidable(s, item.predicates)
            /\ Enabled(s, item.predicates) => item.consequent = TRUE
    /\ \A item \in problem.supports :
        /\ item.antecedent # Unknown
        /\ item.antecedent = TRUE => \E i \in DOMAIN item.supports :
            /\ item.supports[i].expression = TRUE /\ Enabled(s, item.supports[i].predicates)
            /\ \A j \in 1 .. i - 1 : ~ (/\ item.supports[j].expression = TRUE
                                        /\ Undecidable(s, item.supports[j].predicates))

Explained ==
    /\ ~ InitialUnresolved /\ ~ Malformed
    /\ \E s \in Trajectories : Follows(s) /\ Obeys(s)

\* An assignment is accepted exactly when a trajectory of states explains it: the
\* in-place, cell-by-cell simulation neither leaks a write into its own cycle nor
\* lets one of two conflicting writes win.
FeasibleIffExplained == Returned => (phase = "feasible" <=> Explained)

\* The simulation implements atomic cycles: while a cycle's writes are applied one
\* by one, and when it is refused half-way, the store is still the pre-state.
Atomic == INSTANCE AtomicCycles WITH
    Holds <- Compare,
    store <- IF phase = "write" \/ (phase = "infeasible" /\ cycle <= Horizon)
             THEN before ELSE state,
    time <- cycle

CyclesAreAtomic == Atomic!Spec
=============================================================================
