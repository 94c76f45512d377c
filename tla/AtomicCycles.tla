---------------------------- MODULE AtomicCycles ----------------------------
(***************************************************************************)
(* What persistent state promises to a bounded trace (the docstring of     *)
(* check_state_semantics): time advances one cycle at a time; the          *)
(* requirements of a cycle observe one shared state, the one before the    *)
(* cycle; all its updates then take effect at once; cells nobody writes    *)
(* keep their value; and two writes of a cell in a cycle must agree.       *)
(***************************************************************************)
EXTENDS Integers

CONSTANTS Cell, Horizon,
          Holds(_, _, _)    \* Holds(op, actual, expected) of a requirement

VARIABLES problem,    \* the requirements, updates and initial values; never changes
          store, time

RequiredAt(t) == {r \in problem.requirements : r.active = TRUE /\ r.cycle = t}
WrittenAt(t) == {u \in problem.updates : u.active = TRUE /\ u.cycle = t}

Init ==
    /\ store = problem.initial
    /\ time = 0

Cycle ==
    /\ time <= Horizon
    /\ \A r \in RequiredAt(time) : Holds(r.op, store[r.state], r.expected)
    /\ \A u \in WrittenAt(time) : store'[u.state] = u.value
    /\ \A c \in Cell : (\A u \in WrittenAt(time) : u.state # c) => store'[c] = store[c]
    /\ time' = time + 1
    /\ UNCHANGED problem

Spec == Init /\ [][Cycle]_<<problem, store, time>>
=============================================================================
