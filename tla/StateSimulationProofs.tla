----------------------- MODULE StateSimulationProofs -----------------------
(***************************************************************************)
(* Proofs, for every set of cells and values, every horizon and every      *)
(* evaluated problem, that check_state_semantics implements AtomicCycles,  *)
(* accepts exactly what a trajectory explains, as the assertions for Z3    *)
(* do, and that with the instances that build_problem makes of the rules   *)
(* this is what the rules say.                                             *)
(*                                                                         *)
(* While the writes of a cycle are applied one by one, `before` is still   *)
(* the state its requirements were checked against, and every cell either  *)
(* holds what all its writers agree on or what it held before.             *)
(***************************************************************************)
EXTENDS StateEncoding, TransformationInstances, FiniteSetTheorems, FunctionTheorems, SequenceTheorems,
        TLAPS

\* A non-empty set of naturals has a least element: the intervals up to its elements
\* are finite sets, and strict inclusion of finite sets is well-founded.
LEMMA LeastNatural ==
    ASSUME NEW S \in SUBSET Nat, S # {}
    PROVE  \E n \in S : \A m \in S : n <= m
<1> DEFINE T == {0 .. n : n \in S}
<1>1. T # {} /\ T \subseteq FiniteSubsetsOf(Nat)
  <2>1. \A n \in S : IsFiniteSet(0 .. n) /\ 0 .. n \in SUBSET Nat
    BY FS_Interval
  <2> QED
    BY <2>1, Zenon DEF FiniteSubsetsOf
<1>2. PICK t \in T : \A u \in T : ~ (<<u, t>> \in StrictSubsetOrdering(Nat))
  <2> HIDE DEF T
  <2> QED
    BY <1>1, WFMin, FS_StrictSubsetOrderingWellFounded
<1>3. PICK n \in S : t = 0 .. n
  OBVIOUS
<1>4. ASSUME NEW m \in S, m < n PROVE <<0 .. m, 0 .. n>> \in StrictSubsetOrdering(Nat)
  <2>1. 0 .. m \subseteq 0 .. n /\ 0 .. n \subseteq Nat /\ n \in 0 .. n /\ n \notin 0 .. m
    BY <1>4
  <2> QED
    BY <2>1 DEF StrictSubsetOrdering
<1>5. \A m \in S : ~ (m < n)
  BY <1>2, <1>3, <1>4, Zenon
<1> QED
  BY <1>5

\* Past the collection every active item is evaluated and within the horizon.
Collected ==
    phase \in {"cycle", "write", "feasible"} => ~ InitialUnresolved /\ ~ Malformed

\* Nothing has moved when the collection ends.
Untouched == phase = "collect" => cycle = 0 /\ state = problem.initial /\ before = state

\* Half-way through a cycle: checked against `before`, cells written or waiting.
HalfWritten ==
    phase = "write" =>
        /\ cycle <= Horizon
        /\ before \in [Cell -> Value]
        /\ \A r \in RequirementsAt(cycle) : Compare(r.op, before[r.state], r.expected)
        /\ \A u \in UpdatesAt(cycle) : u.state \in pending \/ state[u.state] = u.value
        /\ \A c \in Cell : WritesTo(c, cycle) = {} => state[c] = before[c]

\* One pre-state per cycle begun.
PreIsPerCycle ==
    /\ phase = "cycle" => Len(pre) = cycle
    /\ phase = "write" => Len(pre) = cycle + 1
    /\ phase = "collect" => Len(pre) = 0

IInv ==
    /\ problem \in Problem
    /\ TypeOK
    /\ Collected
    /\ Untouched
    /\ HalfWritten
    /\ PreIsPerCycle

\* The value of an active update of a collected problem is a value of the cell.
LEMMA UpdatesAreTyped ==
    ASSUME problem \in Problem, ~ Malformed, NEW t, NEW u \in UpdatesAt(t)
    PROVE  u.state \in Cell /\ u.value \in Value
BY ProblemAssumption DEF Malformed, Rejected, UpdatesAt, Datum

-----------------------------------------------------------------------------
(* The inductive invariant. *)

LEMMA InitIInv == Init => IInv
<1> SUFFICES ASSUME Init PROVE IInv
  OBVIOUS
<1>1. TypeOK
  BY HorizonAssumption DEF Init, TypeOK
<1>2. Collected /\ Untouched /\ HalfWritten /\ PreIsPerCycle
  BY DEF Init, Collected, Untouched, HalfWritten, PreIsPerCycle
<1> QED
  BY <1>1, <1>2 DEF IInv, Init

LEMMA CollectKeepsIInv == ASSUME IInv, Collect PROVE IInv'
<1>1. /\ phase = "collect" /\ cycle = 0 /\ state = problem.initial /\ problem \in Problem
      /\ UNCHANGED <<problem, cycle, state, before, pending, pre, steps>>
      /\ phase' = IF InitialUnresolved \/ Malformed THEN "infeasible" ELSE "cycle"
  BY DEF IInv, Untouched, Collect
<1>2. ~ InitialUnresolved => state \in [Cell -> Value]
  <2>1. problem.initial \in [Cell -> Datum]
    BY <1>1, ProblemAssumption
  <2> QED
    BY <1>1, <2>1 DEF InitialUnresolved, Datum
<1>3. InitialUnresolved' = InitialUnresolved /\ Malformed' = Malformed
  BY <1>1 DEF InitialUnresolved, Malformed
<1>4. TypeOK'
  BY <1>1, <1>2 DEF IInv, TypeOK
<1>5. Collected' /\ Untouched' /\ HalfWritten'
  BY <1>1, <1>3 DEF Collected, Untouched, HalfWritten
<1>6. PreIsPerCycle'
  BY <1>1 DEF IInv, PreIsPerCycle
<1> QED
  BY <1>1, <1>4, <1>5, <1>6 DEF IInv

LEMMA BeginCycleKeepsIInv == ASSUME IInv, BeginCycle PROVE IInv'
<1>1. /\ phase = "cycle" /\ cycle <= Horizon /\ before' = state /\ pre' = Append(pre, state)
      /\ UNCHANGED <<problem, cycle, state, steps>>
      /\ phase' \in {"write", "infeasible"}
      /\ phase' = "write" => pending' = {u.state : u \in UpdatesAt(cycle)}
      /\ phase' = "infeasible" => pending' = pending
      /\ phase' = "write" => \A r \in RequirementsAt(cycle) : HoldsBefore(r)
  BY DEF BeginCycle
<1>2. /\ problem \in Problem /\ ~ InitialUnresolved /\ ~ Malformed
      /\ state \in [Cell -> Value] /\ pre \in Seq([Cell -> Value]) /\ Len(pre) = cycle
      /\ cycle \in 0 .. Horizon + 1
  BY <1>1 DEF IInv, TypeOK, Collected, PreIsPerCycle
<1>3. /\ InitialUnresolved' = InitialUnresolved /\ Malformed' = Malformed
      /\ RequirementsAt(cycle)' = RequirementsAt(cycle) /\ UpdatesAt(cycle)' = UpdatesAt(cycle)
  BY <1>1 DEF InitialUnresolved, Malformed, RequirementsAt, UpdatesAt
<1>4. pre' \in Seq([Cell -> Value]) /\ Len(pre') = cycle + 1
  BY <1>1, <1>2
<1>5. pending' \subseteq Cell
  <2>1. \A u \in UpdatesAt(cycle) : u.state \in Cell
    BY <1>2, UpdatesAreTyped
  <2> QED
    BY <1>1, <2>1 DEF IInv, TypeOK
<1>6. TypeOK'
  BY <1>1, <1>2, <1>4, <1>5, HorizonAssumption DEF IInv, TypeOK
<1>7. Collected' /\ Untouched' /\ PreIsPerCycle'
  BY <1>1, <1>2, <1>3, <1>4 DEF Collected, Untouched, PreIsPerCycle
<1>8. HalfWritten'
  BY <1>1, <1>2, <1>3 DEF HalfWritten, HoldsBefore
<1> QED
  BY <1>1, <1>2, <1>6, <1>7, <1>8 DEF IInv

LEMMA WriteCellKeepsIInv == ASSUME IInv, WriteCell PROVE IInv'
<1>1. PICK c \in pending :
        /\ pending' = pending \ {c}
        /\ \/ /\ WritesAgree(c) /\ phase' = phase
              /\ \E value \in WritesTo(c, cycle) : state' = [state EXCEPT ![c] = value]
           \/ phase' = "infeasible" /\ state' = state
  BY DEF WriteCell
<1>2. phase = "write" /\ UNCHANGED <<problem, cycle, before, pre, steps>>
  BY DEF WriteCell
<1>3. /\ problem \in Problem /\ ~ InitialUnresolved /\ ~ Malformed
      /\ state \in [Cell -> Value] /\ c \in Cell /\ before \in [Cell -> Value]
  BY <1>2 DEF IInv, TypeOK, Collected, HalfWritten
<1>4. /\ InitialUnresolved' = InitialUnresolved /\ Malformed' = Malformed
      /\ RequirementsAt(cycle)' = RequirementsAt(cycle) /\ UpdatesAt(cycle)' = UpdatesAt(cycle)
      /\ \A d : WritesTo(d, cycle)' = WritesTo(d, cycle)
  BY <1>2 DEF InitialUnresolved, Malformed, RequirementsAt, UpdatesAt, WritesTo
<1>5. Collected' /\ Untouched' /\ PreIsPerCycle'
  BY <1>1, <1>2, <1>3, <1>4 DEF Collected, Untouched, IInv, PreIsPerCycle
<1>6. CASE phase' = "infeasible"
  <2>1. TypeOK'
    BY <1>1, <1>2, <1>3, <1>6 DEF IInv, TypeOK
  <2>2. HalfWritten'
    BY <1>6 DEF HalfWritten
  <2> QED
    BY <2>1, <2>2, <1>2, <1>3, <1>5 DEF IInv
<1>7. CASE phase' = "write"
  <2>1. PICK value \in WritesTo(c, cycle) : state' = [state EXCEPT ![c] = value]
    BY <1>1, <1>7
  <2>2. WritesAgree(c)
    BY <1>1, <1>7
  <2>3. PICK writer \in UpdatesAt(cycle) : writer.state = c /\ writer.value = value
    BY <2>1 DEF WritesTo
  <2>4. value \in Value
    BY <1>3, <2>3, UpdatesAreTyped
  <2>5. state' \in [Cell -> Value] /\ state'[c] = value
           /\ \A d \in Cell \ {c} : state'[d] = state[d]
    BY <1>3, <2>1, <2>4
  <2>6. TypeOK'
    BY <1>1, <1>2, <1>3, <1>7, <2>5 DEF IInv, TypeOK
  <2>7. \A u \in UpdatesAt(cycle) : u.state \in pending' \/ state'[u.state] = u.value
    <3> SUFFICES ASSUME NEW u \in UpdatesAt(cycle), u.state \notin pending'
                 PROVE  state'[u.state] = u.value
      OBVIOUS
    <3>1. CASE u.state = c
      <4>1. u.value \in WritesTo(c, cycle)
        BY <3>1 DEF WritesTo
      <4>2. u.value = value
        BY <2>1, <2>2, <4>1 DEF WritesAgree
      <4> QED
        BY <3>1, <4>2, <2>5
    <3>2. CASE u.state # c
      <4>1. u.state \notin pending /\ u.state \in Cell
        BY <3>2, <1>1, <1>3, UpdatesAreTyped
      <4>2. state[u.state] = u.value
        BY <4>1, <1>2 DEF IInv, HalfWritten
      <4> QED
        BY <3>2, <4>1, <4>2, <2>5
    <3> QED
      BY <3>1, <3>2
  <2>8. \A d \in Cell : WritesTo(d, cycle) = {} => state'[d] = before[d]
    BY <2>1, <2>5, <1>2 DEF IInv, HalfWritten
  <2>9. HalfWritten'
    BY <1>2, <1>3, <1>4, <2>7, <2>8 DEF IInv, HalfWritten
  <2> QED
    BY <2>6, <2>9, <1>2, <1>3, <1>5 DEF IInv
<1> QED
  BY <1>1, <1>2, <1>6, <1>7

LEMMA EndCycleKeepsIInv == ASSUME IInv, EndCycle PROVE IInv'
<1>1. /\ phase = "write" /\ pending = {} /\ cycle' = cycle + 1 /\ phase' = "cycle"
      /\ UNCHANGED <<problem, state, before, pending, pre>>
      /\ \/ steps' = steps
         \/ steps' = Append(steps, [cycle |-> cycle, before |-> before, after |-> state])
  BY DEF EndCycle
<1>2. /\ ~ InitialUnresolved /\ ~ Malformed /\ problem \in Problem
      /\ cycle \in 0 .. Horizon + 1 /\ cycle <= Horizon
      /\ state \in [Cell -> Value] /\ before \in [Cell -> Value] /\ Len(pre) = cycle + 1
  BY <1>1 DEF IInv, Collected, TypeOK, HalfWritten, PreIsPerCycle
<1>3. InitialUnresolved' = InitialUnresolved /\ Malformed' = Malformed
  BY <1>1 DEF InitialUnresolved, Malformed
<1>4. steps' \in Seq([cycle : 0 .. Horizon, before : [Cell -> Value], after : [Cell -> Value]])
  <2> DEFINE step == [cycle |-> cycle, before |-> before, after |-> state]
             Step == [cycle : 0 .. Horizon, before : [Cell -> Value], after : [Cell -> Value]]
  <2>1. steps \in Seq(Step)
    BY DEF IInv, TypeOK
  <2>2. cycle \in 0 .. Horizon
    BY <1>2, HorizonAssumption
  <2>3. step \in Step
    BY <1>2, <2>2
  <2>4. steps' = steps \/ steps' = Append(steps, step)
    BY <1>1
  <2>5. steps' \in Seq(Step)
    <3> HIDE DEF step, Step
    <3> QED
      BY <2>1, <2>3, <2>4
  <2> QED
    BY <2>5
<1>5. cycle' \in 0 .. Horizon + 1
  BY <1>1, <1>2, HorizonAssumption
<1>6. TypeOK'
  BY <1>1, <1>2, <1>4, <1>5 DEF IInv, TypeOK
<1>7. Collected' /\ Untouched' /\ HalfWritten' /\ PreIsPerCycle'
  BY <1>1, <1>2, <1>3 DEF Collected, Untouched, HalfWritten, PreIsPerCycle
<1> QED
  BY <1>1, <1>2, <1>6, <1>7 DEF IInv

LEMMA CheckGuardsKeepsIInv == ASSUME IInv, CheckGuards PROVE IInv'
<1>1. /\ phase = "cycle" /\ phase' \in {"feasible", "infeasible"}
      /\ UNCHANGED <<problem, cycle, state, before, pending, pre, steps>>
  BY DEF CheckGuards
<1>2. InitialUnresolved' = InitialUnresolved /\ Malformed' = Malformed
  BY <1>1 DEF InitialUnresolved, Malformed
<1>3. TypeOK'
  BY <1>1 DEF IInv, TypeOK
<1>4. Collected' /\ Untouched' /\ HalfWritten' /\ PreIsPerCycle'
  BY <1>1, <1>2 DEF IInv, Collected, Untouched, HalfWritten, PreIsPerCycle
<1> QED
  BY <1>1, <1>3, <1>4 DEF IInv

LEMMA StutterKeepsIInv == ASSUME IInv, UNCHANGED vars PROVE IInv'
<1>1. UNCHANGED <<problem, phase, cycle, state, before, pending, pre, steps>>
  BY DEF vars
<1>2. /\ InitialUnresolved' = InitialUnresolved /\ Malformed' = Malformed
      /\ RequirementsAt(cycle)' = RequirementsAt(cycle) /\ UpdatesAt(cycle)' = UpdatesAt(cycle)
      /\ \A d : WritesTo(d, cycle)' = WritesTo(d, cycle)
  BY <1>1 DEF InitialUnresolved, Malformed, RequirementsAt, UpdatesAt, WritesTo
<1>3. TypeOK' /\ Collected' /\ Untouched' /\ PreIsPerCycle'
  BY <1>1, <1>2 DEF IInv, TypeOK, Collected, Untouched, PreIsPerCycle
<1>4. HalfWritten'
  BY <1>1, <1>2 DEF IInv, HalfWritten
<1> QED
  BY <1>1, <1>3, <1>4 DEF IInv

LEMMA NextIInv == IInv /\ [Next]_vars => IInv'
BY CollectKeepsIInv, BeginCycleKeepsIInv, WriteCellKeepsIInv, EndCycleKeepsIInv,
   CheckGuardsKeepsIInv, StutterKeepsIInv DEF Next, Terminated

LEMMA Invariance == Spec => []IInv
BY InitIInv, NextIInv, PTL DEF Spec

-----------------------------------------------------------------------------
(* The trajectory that the simulation goes through, and that it is the only one. *)

\* The state after cycle t: the next recorded pre-state, or the store itself.
StateAfter(t) == IF t + 2 <= Len(pre) THEN pre[t + 2] ELSE state

\* Cycle t took its pre-state to the next as a trajectory must.
Passed(t) ==
    /\ \A r \in RequirementsAt(t) : Compare(r.op, pre[t + 1][r.state], r.expected)
    /\ \A u \in UpdatesAt(t) : StateAfter(t)[u.state] = u.value
    /\ \A c \in Cell : WritesTo(c, t) = {} => StateAfter(t)[c] = pre[t + 1][c]

\* The recorded pre-states start a trajectory that follows the problem.
Recorded ==
    phase \in {"cycle", "write", "feasible"} =>
        /\ \A t \in 0 .. cycle - 1 : Passed(t)
        /\ cycle = 0 /\ phase = "cycle" => state = problem.initial
        /\ Len(pre) > 0 => pre[1] = problem.initial
        /\ phase = "write" => before = pre[cycle + 1]
        /\ phase = "feasible" => cycle = Horizon + 1 /\ Len(pre) = cycle

\* No other trajectory does.
Forced ==
    phase \in {"cycle", "write", "feasible"} =>
        \A s \in Trajectories : Follows(s) =>
            /\ \A t \in 1 .. Len(pre) : s[t] = pre[t]
            /\ phase # "write" => s[cycle + 1] = state

HInv == Recorded /\ Forced /\ FeasibleIffExplained

LEMMA SameProblem ==
    ASSUME problem' = problem
    PROVE  /\ InitialUnresolved' = InitialUnresolved /\ Malformed' = Malformed
           /\ \A t : RequirementsAt(t)' = RequirementsAt(t) /\ UpdatesAt(t)' = UpdatesAt(t)
           /\ \A c, t : WritesTo(c, t)' = WritesTo(c, t)
           /\ \A s : Follows(s)' = Follows(s)
<1>1. \A t : RequirementsAt(t)' = RequirementsAt(t) /\ UpdatesAt(t)' = UpdatesAt(t)
  BY DEF RequirementsAt, UpdatesAt
<1>2. \A c, t : WritesTo(c, t)' = WritesTo(c, t)
  BY <1>1 DEF WritesTo
<1>3. InitialUnresolved' = InitialUnresolved /\ Malformed' = Malformed
  BY DEF InitialUnresolved, Malformed
<1>4. \A s : Follows(s)' = Follows(s)
  BY <1>1, <1>2 DEF Follows
<1> QED
  BY <1>1, <1>2, <1>3, <1>4

\* A cycle that has passed stays passed while its snapshots do.
LEMMA PassedKept ==
    ASSUME problem' = problem, NEW t, Passed(t),
           pre'[t + 1] = pre[t + 1], StateAfter(t)' = StateAfter(t)
    PROVE  Passed(t)'
BY SameProblem DEF Passed

LEMMA InitHInv == Init => HInv
BY DEF Init, HInv, Recorded, Forced, FeasibleIffExplained, Returned

LEMMA CollectKeepsHInv == ASSUME IInv, HInv, Collect PROVE HInv'
<1>1. /\ phase = "collect" /\ cycle = 0 /\ state = problem.initial /\ pre = << >>
      /\ UNCHANGED <<problem, cycle, state, before, pending, pre, steps>>
      /\ phase' = IF InitialUnresolved \/ Malformed THEN "infeasible" ELSE "cycle"
  <2>1. pre \in Seq([Cell -> Value]) /\ (phase = "collect" => Len(pre) = 0)
    BY DEF IInv, TypeOK, PreIsPerCycle
  <2> QED
    BY <2>1, EmptySeq DEF IInv, Untouched, Collect
<1>2. FeasibleIffExplained'
  BY <1>1, SameProblem DEF FeasibleIffExplained, Returned, Explained
<1>3. Recorded'
  BY <1>1 DEF Recorded
<1>4. Forced'
  BY <1>1, SameProblem DEF Forced, Follows
<1> QED
  BY <1>2, <1>3, <1>4 DEF HInv

LEMMA BeginCycleKeepsHInv == ASSUME IInv, HInv, BeginCycle PROVE HInv'
<1>1. /\ phase = "cycle" /\ cycle <= Horizon /\ before' = state /\ pre' = Append(pre, state)
      /\ UNCHANGED <<problem, cycle, state, steps>>
      /\ \/ phase' = "write" 
         \/ phase' = "infeasible" /\ \E r \in RequirementsAt(cycle) : ~ HoldsBefore(r)
  BY DEF BeginCycle
<1>2. /\ pre \in Seq([Cell -> Value]) /\ Len(pre) = cycle /\ cycle \in 0 .. Horizon
      /\ state \in [Cell -> Value]
  BY <1>1, HorizonAssumption DEF IInv, TypeOK, PreIsPerCycle
<1>3. /\ Len(pre') = cycle + 1 /\ pre'[cycle + 1] = state
      /\ \A t \in 1 .. cycle : pre'[t] = pre[t]
  BY <1>1, <1>2
<1>4. \A s \in Trajectories : Follows(s) =>
            s[cycle + 1] = state /\ \A t \in 1 .. cycle : s[t] = pre[t]
  BY <1>1, <1>2 DEF HInv, Forced
<1>5. FeasibleIffExplained'
  <2>1. CASE phase' = "write"
    BY <2>1 DEF FeasibleIffExplained, Returned
  <2>2. ASSUME NEW r \in RequirementsAt(cycle), ~ HoldsBefore(r), NEW s \in Trajectories, Follows(s)
        PROVE  FALSE
    BY <1>2, <1>4, <2>2 DEF Follows, HoldsBefore
  <2> QED
    BY <1>1, <2>1, <2>2, SameProblem DEF FeasibleIffExplained, Returned, Explained
<1>6. Recorded'
  <2>1. \A t \in 0 .. cycle - 1 : Passed(t)'
    <3> SUFFICES ASSUME NEW t \in 0 .. cycle - 1 PROVE Passed(t)'
      OBVIOUS
    <3>1. Passed(t)
      BY <1>1 DEF HInv, Recorded
    <3>2. StateAfter(t)' = StateAfter(t)
      BY <1>1, <1>2, <1>3 DEF StateAfter
    <3>3. pre'[t + 1] = pre[t + 1]
      BY <1>2, <1>3
    <3> QED
      BY <1>1, <3>1, <3>2, <3>3, PassedKept
  <2>2. pre'[1] = problem.initial
    BY <1>1, <1>2, <1>3 DEF HInv, Recorded
  <2> QED
    BY <1>1, <1>2, <1>3, <2>1, <2>2 DEF Recorded
<1>7. Forced'
  BY <1>1, <1>2, <1>3, <1>4, SameProblem DEF Forced
<1> QED
  BY <1>5, <1>6, <1>7 DEF HInv

LEMMA WriteCellKeepsHInv == ASSUME IInv, HInv, WriteCell PROVE HInv'
<1>1. /\ phase = "write" /\ UNCHANGED <<problem, cycle, before, pre, steps>>
      /\ phase' = "write" \/ (phase' = "infeasible" /\ \E c \in Cell : ~ WritesAgree(c))
  BY DEF WriteCell, IInv, TypeOK
<1>2. cycle \in 0 .. Horizon /\ Len(pre) = cycle + 1
  BY <1>1, HorizonAssumption DEF IInv, TypeOK, HalfWritten, PreIsPerCycle
<1>3. FeasibleIffExplained'
  <2>1. CASE phase' = "write"
    BY <2>1 DEF FeasibleIffExplained, Returned
  <2>2. ASSUME NEW c \in Cell, ~ WritesAgree(c), NEW s \in Trajectories, Follows(s)
        PROVE  FALSE
    <3>1. PICK u, v \in UpdatesAt(cycle) : u.state = c /\ v.state = c /\ u.value # v.value
      BY <2>2 DEF WritesAgree, WritesTo
    <3>2. s[cycle + 2][c] = u.value /\ s[cycle + 2][c] = v.value
      BY <1>2, <2>2, <3>1 DEF Follows
    <3> QED
      BY <3>1, <3>2
  <2> QED
    BY <1>1, <2>1, <2>2, SameProblem DEF FeasibleIffExplained, Returned, Explained
<1>4. Recorded'
  <2>1. \A t \in 0 .. cycle - 1 : Passed(t)'
    <3> SUFFICES ASSUME NEW t \in 0 .. cycle - 1 PROVE Passed(t)'
      OBVIOUS
    <3>1. Passed(t)
      BY <1>1 DEF HInv, Recorded
    <3>2. StateAfter(t)' = StateAfter(t)
      BY <1>1, <1>2 DEF StateAfter
    <3> QED
      BY <1>1, <3>1, <3>2, PassedKept
  <2> QED
    BY <1>1, <1>2, <2>1 DEF HInv, Recorded
<1>5. Forced'
  BY <1>1, SameProblem DEF HInv, Forced
<1> QED
  BY <1>3, <1>4, <1>5 DEF HInv

LEMMA EndCycleKeepsHInv == ASSUME IInv, HInv, EndCycle PROVE HInv'
<1>1. /\ phase = "write" /\ pending = {} /\ cycle' = cycle + 1 /\ phase' = "cycle"
      /\ UNCHANGED <<problem, state, before, pending, pre>>
  BY DEF EndCycle
<1>2. /\ cycle \in 0 .. Horizon /\ Len(pre) = cycle + 1
      /\ state \in [Cell -> Value] /\ before = pre[cycle + 1]
      /\ \A r \in RequirementsAt(cycle) : Compare(r.op, before[r.state], r.expected)
      /\ \A u \in UpdatesAt(cycle) : state[u.state] = u.value
      /\ \A c \in Cell : WritesTo(c, cycle) = {} => state[c] = before[c]
  BY <1>1, HorizonAssumption DEF IInv, TypeOK, HalfWritten, PreIsPerCycle, HInv, Recorded
<1>3. Recorded'
  <2>1. Passed(cycle)
    <3>1. StateAfter(cycle) = state
      BY <1>2 DEF StateAfter
    <3> QED
      BY <1>2, <3>1 DEF Passed
  <2>2. \A t \in 0 .. cycle : Passed(t)
    <3>1. \A t \in 0 .. cycle - 1 : Passed(t)
      BY <1>1 DEF HInv, Recorded
    <3>2. \A t \in 0 .. cycle : t \in 0 .. cycle - 1 \/ t = cycle
      BY <1>2
    <3> QED
      BY <2>1, <3>1, <3>2
  <2>3. \A t : StateAfter(t)' = StateAfter(t)
    BY <1>1 DEF StateAfter
  <2>4. \A t \in 0 .. cycle : Passed(t)'
    BY <1>1, <2>2, <2>3, PassedKept
  <2>5. 0 .. cycle' - 1 = 0 .. cycle
    BY <1>1, <1>2
  <2> QED
    BY <1>1, <1>2, <2>4, <2>5 DEF HInv, Recorded
<1>4. Forced'
  <2> SUFFICES ASSUME NEW s \in Trajectories, Follows(s)
               PROVE  (\A t \in 1 .. Len(pre) : s[t] = pre[t]) /\ s[cycle + 2] = state
    BY <1>1, <1>2, SameProblem DEF Forced
  <2>1. \A t \in 1 .. Len(pre) : s[t] = pre[t]
    BY <1>1 DEF HInv, Forced
  <2>2. s[cycle + 1] = before
    BY <1>2, <2>1
  <2>3. s[cycle + 2] \in [Cell -> Value]
    BY <1>2, HorizonAssumption DEF Trajectories
  <2>4. ASSUME NEW c \in Cell PROVE s[cycle + 2][c] = state[c]
    <3>1. CASE WritesTo(c, cycle) = {}
      BY <1>2, <2>2, <3>1 DEF Follows
    <3>2. CASE WritesTo(c, cycle) # {}
      <4>1. PICK u \in UpdatesAt(cycle) : u.state = c
        BY <3>2 DEF WritesTo
      <4> QED
        BY <1>2, <4>1 DEF Follows
    <3> QED
      BY <3>1, <3>2
  <2> QED
    BY <1>2, <2>1, <2>3, <2>4
<1>5. FeasibleIffExplained'
  BY <1>1 DEF FeasibleIffExplained, Returned
<1> QED
  BY <1>3, <1>4, <1>5 DEF HInv

\* The recorded pre-states and the final state are the one trajectory that follows.
LEMMA OnlyTrajectory ==
    ASSUME IInv, Recorded, Forced, phase \in {"cycle", "feasible"}, cycle = Horizon + 1
    PROVE  /\ Append(pre, state) \in Trajectories
           /\ Follows(Append(pre, state))
           /\ \A s \in Trajectories : Follows(s) => s = Append(pre, state)
<1> DEFINE only == Append(pre, state)
<1>1. /\ pre \in Seq([Cell -> Value]) /\ Len(pre) = Horizon + 1 /\ state \in [Cell -> Value]
      /\ Horizon \in Nat
  BY HorizonAssumption DEF IInv, TypeOK, PreIsPerCycle, Recorded
<1>2. /\ only \in Seq([Cell -> Value]) /\ Len(only) = Horizon + 2
      /\ only[Horizon + 2] = state /\ \A t \in 1 .. Horizon + 1 : only[t] = pre[t]
  BY <1>1
<1>3. only \in Trajectories
  <2> HIDE DEF only
  <2>1. only \in [1 .. Len(only) -> [Cell -> Value]]
    BY <1>2
  <2> QED
    BY <1>2, <2>1 DEF Trajectories
<1>4. Follows(only)
  <2>1. only[1] = problem.initial
    BY <1>1, <1>2 DEF Recorded
  <2>2. ASSUME NEW t \in 0 .. Horizon
        PROVE  only[t + 1] = pre[t + 1] /\ only[t + 2] = StateAfter(t) /\ Passed(t)
    BY <1>1, <1>2 DEF StateAfter, Recorded
  <2> HIDE DEF only
  <2> QED
    BY <2>1, <2>2 DEF Follows, Passed
<1>5. ASSUME NEW s \in Trajectories, Follows(s) PROVE s = only
  <2>1. \A t \in 1 .. Horizon + 1 : s[t] = pre[t]
    BY <1>1, <1>5 DEF Forced
  <2>2. s[Horizon + 2] = state
    BY <1>1, <1>5 DEF Forced
  <2>3. \A t \in 1 .. Horizon + 2 : s[t] = only[t]
    BY <1>1, <1>2, <2>1, <2>2
  <2>4. /\ s = [t \in 1 .. Horizon + 2 |-> s[t]]
        /\ only = [t \in 1 .. Horizon + 2 |-> only[t]]
    <3> HIDE DEF only
    <3> QED
      BY <1>3, Zenon DEF Trajectories
  <2> HIDE DEF only
  <2> QED
    BY <2>3, <2>4, Zenon
<1> QED
  BY <1>3, <1>4, <1>5

\* A guard list over the recorded pre-states ends as it does over the trajectory.
LEMMA GuardsAgree ==
    ASSUME NEW s, \A t \in 0 .. Horizon : s[t + 1] = pre[t + 1], NEW predicates
    PROVE  /\ GuardResult(predicates) = "error" <=> Undecidable(s, predicates)
           /\ GuardResult(predicates) = "true" <=> Enabled(s, predicates)
           /\ GuardResult(predicates) \in {"error", "false", "true"}
<1>1. \A p : Decides(s, p) <=> Unresolved(p) \/ Fails(p)
  BY DEF Decides, Unresolved, Fails, ValidCycle
<1>2. \A p : Unresolved(p) <=> ~ ValidCycle(p.cycle) \/ p.expected = Unknown
  BY DEF Unresolved
<1> QED
  BY <1>1, <1>2 DEF GuardResult, Undecidable, Enabled

\* The loop over candidates ends at the first whose guards hold: it is undecided
\* exactly when an undecidable one comes before.
LEMMA SupportsAgree ==
    ASSUME NEW s, \A t \in 0 .. Horizon : s[t + 1] = pre[t + 1],
           NEW candidates, Len(candidates) \in Nat, DOMAIN candidates = 1 .. Len(candidates)
    PROVE  Supported(candidates) <=>
               \E i \in DOMAIN candidates :
                   /\ candidates[i].expression = TRUE
                   /\ Enabled(s, candidates[i].predicates)
                   /\ \A j \in 1 .. i - 1 : ~ (/\ candidates[j].expression = TRUE
                                               /\ Undecidable(s, candidates[j].predicates))
<1> DEFINE Holding == {i \in DOMAIN candidates : /\ candidates[i].expression = TRUE
                                                 /\ Enabled(s, candidates[i].predicates)}
           Undecided(j) == /\ candidates[j].expression = TRUE
                           /\ Undecidable(s, candidates[j].predicates)
<1>1. ASSUME NEW i \in DOMAIN candidates, i \in Holding, \A j \in 1 .. i - 1 : ~ Undecided(j)
      PROVE  Supported(candidates)
  <2>1. Holding \in SUBSET Nat /\ Holding # {}
    BY <1>1
  <2>2. PICK first \in Holding : \A j \in Holding : first <= j
    <3> HIDE DEF Holding
    <3> QED
      BY <2>1, LeastNatural
  <2>3. \A j \in 1 .. first - 1 : j \in DOMAIN candidates /\ j \notin Holding /\ j \in 1 .. i - 1
    BY <1>1, <2>2
  <2>4. ASSUME NEW j \in 1 .. first - 1, candidates[j].expression = TRUE
        PROVE  GuardResult(candidates[j].predicates) = "false"
    <3>1. ~ Undecidable(s, candidates[j].predicates) /\ ~ Enabled(s, candidates[j].predicates)
      BY <1>1, <2>3, <2>4
    <3> QED
      BY <3>1, GuardsAgree
  <2>5. GuardResult(candidates[first].predicates) = "true" /\ candidates[first].expression = TRUE
    BY <2>2, GuardsAgree
  <2> QED
    BY <2>2, <2>4, <2>5 DEF Supported
<1>2. ASSUME NEW i \in DOMAIN candidates, candidates[i].expression = TRUE,
             GuardResult(candidates[i].predicates) = "true",
             \A j \in 1 .. i - 1 : candidates[j].expression = TRUE =>
                 GuardResult(candidates[j].predicates) = "false"
      PROVE  i \in Holding /\ \A j \in 1 .. i - 1 : ~ Undecided(j)
  <2>1. i \in Holding
    BY <1>2, GuardsAgree
  <2>2. ASSUME NEW j \in 1 .. i - 1, Undecided(j) PROVE FALSE
    <3>1. GuardResult(candidates[j].predicates) = "error"
      BY <2>2, GuardsAgree
    <3>2. GuardResult(candidates[j].predicates) = "false"
      BY <1>2, <2>2
    <3> QED
      BY <3>1, <3>2
  <2> QED
    BY <2>1, <2>2
<1> QED
  BY <1>1, <1>2 DEF Supported

\* The guarded transitions raise no error exactly when the trajectory obeys them.
LEMMA ObeysIsNoError ==
    ASSUME problem \in Problem, NEW s, \A t \in 0 .. Horizon : s[t + 1] = pre[t + 1]
    PROVE  Obeys(s) <=> ~ GuardedError
<1>1. ASSUME NEW item
      PROVE  (/\ item.antecedent # Unknown
              /\ item.antecedent = TRUE =>
                   /\ ~ Undecidable(s, item.predicates)
                   /\ Enabled(s, item.predicates) => item.consequent = TRUE)
             <=> ~ ForwardError(item)
  BY GuardsAgree DEF ForwardError
<1>2. ASSUME NEW item \in problem.supports
      PROVE  (/\ item.antecedent # Unknown
              /\ item.antecedent = TRUE => \E i \in DOMAIN item.supports :
                   /\ item.supports[i].expression = TRUE /\ Enabled(s, item.supports[i].predicates)
                   /\ \A j \in 1 .. i - 1 : ~ (/\ item.supports[j].expression = TRUE
                                               /\ Undecidable(s, item.supports[j].predicates)))
             <=> ~ SupportError(item)
  <2>1. Len(item.supports) \in Nat /\ DOMAIN item.supports = 1 .. Len(item.supports)
    BY ProblemAssumption
  <2> QED
    BY <2>1, SupportsAgree DEF SupportError
<1> QED
  BY <1>1, <1>2 DEF Obeys, GuardedError

LEMMA CheckGuardsKeepsHInv == ASSUME IInv, HInv, CheckGuards PROVE HInv'
<1> DEFINE only == Append(pre, state)
<1>1. /\ phase = "cycle" /\ cycle = Horizon + 1 /\ phase' = IF GuardedError THEN "infeasible" ELSE "feasible"
      /\ UNCHANGED <<problem, cycle, state, before, pending, pre, steps>>
  BY DEF CheckGuards
<1>2. /\ problem \in Problem /\ ~ InitialUnresolved /\ ~ Malformed
      /\ Len(pre) = Horizon + 1 /\ pre \in Seq([Cell -> Value]) /\ Horizon \in Nat
  BY <1>1, HorizonAssumption DEF IInv, TypeOK, Collected, PreIsPerCycle
<1>3. /\ only \in Trajectories /\ Follows(only)
      /\ \A s \in Trajectories : Follows(s) => s = only
  BY <1>1, OnlyTrajectory DEF HInv
<1>4. \A t \in 0 .. Horizon : only[t + 1] = pre[t + 1]
  BY <1>2
<1>5. Explained <=> ~ GuardedError
  <2> HIDE DEF only
  <2>1. Obeys(only) <=> ~ GuardedError
    BY <1>2, <1>4, ObeysIsNoError
  <2> QED
    BY <1>2, <1>3, <2>1 DEF Explained
<1>6. Explained' = Explained
  <2>1. \A s : Obeys(s)' = Obeys(s)
    BY <1>1 DEF Obeys, Undecidable, Enabled, Decides
  <2> QED
    BY <1>1, <2>1, SameProblem DEF Explained
<1>7. FeasibleIffExplained'
  BY <1>1, <1>5, <1>6 DEF FeasibleIffExplained, Returned
<1>8. Recorded'
  <2>1. ASSUME NEW t \in 0 .. cycle - 1 PROVE Passed(t)'
    <3>1. Passed(t) /\ StateAfter(t)' = StateAfter(t)
      BY <1>1 DEF HInv, Recorded, StateAfter
    <3> QED
      BY <1>1, <3>1, PassedKept
  <2> QED
    BY <1>1, <1>2, <2>1 DEF HInv, Recorded
<1>9. Forced'
  BY <1>1, SameProblem DEF HInv, Forced
<1> QED
  BY <1>7, <1>8, <1>9 DEF HInv

LEMMA StutterKeepsHInv == ASSUME HInv, UNCHANGED vars PROVE HInv'
<1>1. UNCHANGED <<problem, phase, cycle, state, before, pending, pre, steps>>
  BY DEF vars
<1>2. \A t : StateAfter(t)' = StateAfter(t) /\ (Passed(t) => Passed(t)')
  BY <1>1, PassedKept DEF StateAfter
<1>3. Explained' = Explained
  <2>1. \A s : Obeys(s)' = Obeys(s)
    BY <1>1 DEF Obeys, Undecidable, Enabled, Decides
  <2> QED
    BY <1>1, <2>1, SameProblem DEF Explained
<1>4. Recorded'
  BY <1>1, <1>2 DEF HInv, Recorded
<1>5. Forced' /\ FeasibleIffExplained'
  BY <1>1, <1>3, SameProblem DEF HInv, Forced, FeasibleIffExplained, Returned
<1> QED
  BY <1>4, <1>5 DEF HInv

LEMMA HistoryInvariance == Spec => [](IInv /\ HInv)
<1>1. IInv /\ HInv /\ [Next]_vars => HInv'
  BY CollectKeepsHInv, BeginCycleKeepsHInv, WriteCellKeepsHInv, EndCycleKeepsHInv,
     CheckGuardsKeepsHInv, StutterKeepsHInv DEF Next, Terminated
<1> QED
  BY <1>1, InitHInv, Invariance, PTL DEF Spec

-----------------------------------------------------------------------------
(* The assertions for Z3. *)

\* A trajectory by the numbers of its values.
Numbered(s) == [t \in 1 .. Horizon + 2 |-> [c \in Cell |-> Code[s[t][c]]]]

LEMMA NumbersCompare ==
    ASSUME NEW v \in Value, NEW w \in Value, NEW op
    PROVE  Holds(op, Code[v], w) <=> Compare(op, v, w)
<1>1. CASE op \in {"eq", "ne", "lt", "le", "gt", "ge"}
  BY <1>1, CodeAssumption DEF Holds
<1>2. CASE op \notin {"eq", "ne", "lt", "le", "gt", "ge"}
  BY <1>2 DEF Holds, Compare
<1> QED
  BY <1>1, <1>2

LEMMA NumbersDiffer ==
    ASSUME NEW v \in Value, NEW w \in Value
    PROVE  Code[v] = Code[w] <=> v = w
<1>1. Compare("eq", Code[v], Code[w]) <=> Compare("eq", v, w)
  BY CodeAssumption
<1> QED
  BY <1>1 DEF Compare

LEMMA NumberedTyped ==
    ASSUME NEW s \in Trajectories, NEW t \in 0 .. Horizon + 1, NEW c \in Cell
    PROVE  s[t + 1][c] \in Value /\ Numbered(s)[t + 1][c] = Code[s[t + 1][c]]
<1>1. t + 1 \in 1 .. Horizon + 2
  BY HorizonAssumption
<1> QED
  BY <1>1 DEF Trajectories, Numbered

\* Every assignment of the cells' constants is the numbers of one trajectory.
LEMMA SnapshotsAreNumbered ==
    ASSUME NEW m \in Snapshots
    PROVE  \E s \in Trajectories : m = Numbered(s)
<1> DEFINE Values(t, c) == {v \in Value : Code[v] = m[t][c]}
           s == [t \in 1 .. Horizon + 2 |-> [c \in Cell |-> CHOOSE v \in Values(t, c) : TRUE]]
<1>1. ASSUME NEW t \in 1 .. Horizon + 2, NEW c \in Cell
      PROVE  (CHOOSE v \in Values(t, c) : TRUE) \in Values(t, c)
  <2>1. m[t] \in [Cell -> {Code[v] : v \in Value}]
    BY DEF Snapshots
  <2>2. m[t][c] \in {Code[v] : v \in Value}
    BY <2>1
  <2> QED
    BY <2>2
<1>2. s \in Trajectories
  BY <1>1, Zenon DEF Trajectories
<1>3. \A t \in 1 .. Horizon + 2 : m[t] = [c \in Cell |-> Code[s[t][c]]]
  <2> SUFFICES ASSUME NEW t \in 1 .. Horizon + 2
               PROVE  m[t] = [c \in Cell |-> Code[s[t][c]]]
    BY Zenon
  <2>1. m[t] = [c \in Cell |-> m[t][c]]
    BY Zenon DEF Snapshots
  <2>2. \A c \in Cell : Code[s[t][c]] = m[t][c]
    BY <1>1, Zenon
  <2> QED
    BY <2>1, <2>2, Zenon
<1>4. m = [t \in 1 .. Horizon + 2 |-> m[t]]
  BY Zenon DEF Snapshots
<1>5. m = Numbered(s)
  <2> HIDE DEF s
  <2> QED
    BY <1>3, <1>4, Zenon DEF Numbered
<1> QED
  BY <1>2, <1>5

\* A guard list that build_problem placed within the horizon holds of the constants as
\* it does of the trajectory.
LEMMA GuardsEncoded ==
    ASSUME NEW s \in Trajectories, NEW predicates, InHorizon(predicates),
           \A i \in DOMAIN predicates : Comparison(predicates[i])
    PROVE  /\ AllHold(Numbered(s), predicates) <=> Enabled(s, predicates)
           /\ ~ Undecidable(s, predicates)
<1>1. ASSUME NEW i \in DOMAIN predicates
      PROVE  PredicateHolds(Numbered(s), predicates[i]) <=> ~ Decides(s, predicates[i])
  <2> DEFINE p == predicates[i]
  <2>1. p.cycle \in 0 .. Horizon /\ p.expected # Unknown /\ p.expected \in Value /\ p.state \in Cell
    BY DEF InHorizon, ValidCycle, Comparison, Datum
  <2>2. Holds(p.op, Numbered(s)[p.cycle + 1][p.state], p.expected)
            <=> Compare(p.op, s[p.cycle + 1][p.state], p.expected)
    <3>1. p.cycle \in 0 .. Horizon + 1
      BY <2>1, HorizonAssumption
    <3> HIDE DEF p
    <3> QED
      BY <2>1, <3>1, NumberedTyped, NumbersCompare
  <2>3. PredicateHolds(Numbered(s), p) <=> Holds(p.op, Numbered(s)[p.cycle + 1][p.state], p.expected)
    BY <2>1 DEF PredicateHolds
  <2> QED
    BY <2>1, <2>2, <2>3 DEF Decides, ValidCycle
<1>2. ~ Undecidable(s, predicates)
  BY DEF Undecidable, InHorizon
<1> QED
  BY <1>1, <1>2 DEF AllHold, Enabled

LEMMA FollowsEncoded ==
    ASSUME problem \in Problem, ~ InitialUnresolved, ~ Malformed, NEW s \in Trajectories
    PROVE  Follows(s) <=> /\ InitialAssertion(Numbered(s))
                          /\ RequirementAssertions(Numbered(s))
                          /\ \A c \in Cell : \A t \in 0 .. Horizon : CellAssertions(Numbered(s), c, t)
<1> DEFINE n == Numbered(s)
<1>1. InitialAssertion(n) <=> s[1] = problem.initial
  <2>1. problem.initial \in [Cell -> Value]
    BY ProblemAssumption DEF InitialUnresolved, Datum
  <2>2. s[1] \in [Cell -> Value]
    BY HorizonAssumption DEF Trajectories
  <2>3. \A c \in Cell : n[1][c] = Code[s[1][c]]
    <3>1. 0 \in 0 .. Horizon + 1
      BY HorizonAssumption
    <3>2. 0 + 1 = 1
      OBVIOUS
    <3> QED
      BY <3>1, <3>2, NumberedTyped
  <2>4. \A c \in Cell : n[1][c] = Code[problem.initial[c]] <=> s[1][c] = problem.initial[c]
    <3> SUFFICES ASSUME NEW c \in Cell
                 PROVE  n[1][c] = Code[problem.initial[c]] <=> s[1][c] = problem.initial[c]
      BY Zenon
    <3>1. s[1][c] \in Value /\ problem.initial[c] \in Value
      BY <2>1, <2>2
    <3> HIDE DEF n
    <3> QED
      BY <2>3, <3>1, NumbersDiffer
  <2>5. (\A c \in Cell : s[1][c] = problem.initial[c]) <=> s[1] = problem.initial
    BY <2>1, <2>2
  <2> QED
    BY <2>4, <2>5 DEF InitialAssertion
<1>2. RequirementAssertions(n) <=>
        \A t \in 0 .. Horizon : \A r \in RequirementsAt(t) : Compare(r.op, s[t + 1][r.state], r.expected)
  <2>1. ASSUME NEW t \in 0 .. Horizon, NEW r \in RequirementsAt(t)
        PROVE  Holds(r.op, n[t + 1][r.state], r.expected) <=> Compare(r.op, s[t + 1][r.state], r.expected)
    <3>1. r.state \in Cell /\ r.expected \in Value
      BY ComparisonAssumption DEF RequirementsAt, Malformed, Rejected, Comparison, Datum
    <3>2. t \in 0 .. Horizon + 1
      BY HorizonAssumption
    <3> QED
      BY <3>1, <3>2, NumberedTyped, NumbersCompare
  <2>2. \A t : RequirementsAt(t) = {r \in problem.requirements : ActiveIn(r, t)}
    BY DEF RequirementsAt, ActiveIn
  <2> HIDE DEF n
  <2> QED
    BY <2>1, <2>2, Zenon DEF RequirementAssertions
<1>3. ASSUME NEW t \in 0 .. Horizon
      PROVE  (\A c \in Cell : CellAssertions(n, c, t)) <=>
                 /\ \A u \in UpdatesAt(t) : s[t + 2][u.state] = u.value
                 /\ \A c \in Cell : WritesTo(c, t) = {} => s[t + 2][c] = s[t + 1][c]
  <2>1. ASSUME NEW c \in Cell
        PROVE  /\ s[t + 2][c] \in Value /\ n[t + 2][c] = Code[s[t + 2][c]]
               /\ s[t + 1][c] \in Value /\ n[t + 1][c] = Code[s[t + 1][c]]
    <3>1. t \in 0 .. Horizon + 1 /\ t + 1 \in 0 .. Horizon + 1 /\ (t + 1) + 1 = t + 2
      BY HorizonAssumption
    <3> QED
      BY <3>1, NumberedTyped
  <2>2. \A u \in UpdatesAt(t) : u.state \in Cell /\ u.value \in Value
    BY UpdatesAreTyped
  <2>3. \A c : Writing(c, t) = {u \in UpdatesAt(t) : u.state = c}
    BY DEF Writing, UpdatesAt, ActiveIn
  <2>4. \A c : WritesTo(c, t) = {} <=> Writing(c, t) = {}
    <3>1. \A c : WritesTo(c, t) = {u.value : u \in Writing(c, t)}
      BY <2>3, Zenon DEF WritesTo
    <3>2. \A S : {u.value : u \in S} = {} <=> S = {}
      OBVIOUS
    <3> QED
      BY <3>1, <3>2, Zenon
  <2>5. ASSUME NEW c \in Cell
        PROVE  n[t + 2][c] = n[t + 1][c] <=> s[t + 2][c] = s[t + 1][c]
    BY <2>1, NumbersDiffer
  <2>6. ASSUME NEW u \in UpdatesAt(t)
        PROVE  n[t + 2][u.state] = Code[u.value] <=> s[t + 2][u.state] = u.value
    BY <2>1, <2>2, NumbersDiffer
  <2> HIDE DEF n
  <2>7. (\A c \in Cell : \A u \in Writing(c, t) : n[t + 2][c] = Code[u.value])
            <=> \A u \in UpdatesAt(t) : s[t + 2][u.state] = u.value
    BY <2>2, <2>3, <2>6
  <2> QED
    BY <2>4, <2>5, <2>7 DEF CellAssertions
<1> HIDE DEF n
<1>4. (\A c \in Cell : \A t \in 0 .. Horizon : CellAssertions(n, c, t)) <=>
        \A t \in 0 .. Horizon :
            /\ \A u \in UpdatesAt(t) : s[t + 2][u.state] = u.value
            /\ \A c \in Cell : WritesTo(c, t) = {} => s[t + 2][c] = s[t + 1][c]
  BY <1>3
<1>5. Follows(s) <=> /\ InitialAssertion(n) /\ RequirementAssertions(n)
                     /\ \A c \in Cell : \A t \in 0 .. Horizon : CellAssertions(n, c, t)
  BY <1>1, <1>2, <1>4 DEF Follows
<1> QED
  BY <1>5 DEF n

LEMMA ObeysEncoded ==
    ASSUME problem \in Problem, Encodable, NEW s \in Trajectories
    PROVE  Obeys(s) <=> ForwardAssertions(Numbered(s)) /\ SupportAssertions(Numbered(s))
<1> DEFINE n == Numbered(s)
<1>1. ASSUME NEW item \in problem.forwards
      PROVE  (/\ item.antecedent # Unknown
              /\ item.antecedent = TRUE =>
                   /\ ~ Undecidable(s, item.predicates)
                   /\ Enabled(s, item.predicates) => item.consequent = TRUE)
             <=> (item.antecedent = TRUE /\ AllHold(n, item.predicates) => item.consequent = TRUE)
  <2>1. item.antecedent # Unknown /\ InHorizon(item.predicates)
    BY DEF Encodable
  <2>2. \A i \in DOMAIN item.predicates : Comparison(item.predicates[i])
    BY ComparisonAssumption
  <2>3. (AllHold(n, item.predicates) <=> Enabled(s, item.predicates)) /\ ~ Undecidable(s, item.predicates)
    BY <2>1, <2>2, GuardsEncoded
  <2> QED
    BY <2>1, <2>3
<1>2. ASSUME NEW item \in problem.supports
      PROVE  (/\ item.antecedent # Unknown
              /\ item.antecedent = TRUE => \E i \in DOMAIN item.supports :
                   /\ item.supports[i].expression = TRUE /\ Enabled(s, item.supports[i].predicates)
                   /\ \A j \in 1 .. i - 1 : ~ (/\ item.supports[j].expression = TRUE
                                               /\ Undecidable(s, item.supports[j].predicates)))
             <=> (item.antecedent = TRUE =>
                    \E i \in DOMAIN item.supports :
                        item.supports[i].expression = TRUE /\ AllHold(n, item.supports[i].predicates))
  <2>1. /\ item.antecedent # Unknown
        /\ Len(item.supports) \in Nat /\ DOMAIN item.supports = 1 .. Len(item.supports)
    BY ProblemAssumption DEF Encodable
  <2>2. ASSUME NEW i \in DOMAIN item.supports
        PROVE  /\ AllHold(n, item.supports[i].predicates) <=> Enabled(s, item.supports[i].predicates)
               /\ ~ Undecidable(s, item.supports[i].predicates)
    <3>1. InHorizon(item.supports[i].predicates)
      BY DEF Encodable
    <3>2. \A j \in DOMAIN item.supports[i].predicates : Comparison(item.supports[i].predicates[j])
      BY ComparisonAssumption
    <3> QED
      BY <3>1, <3>2, GuardsEncoded
  <2>3. \A i \in DOMAIN item.supports : \A j \in 1 .. i - 1 : j \in DOMAIN item.supports
    BY <2>1
  <2> QED
    BY <2>1, <2>2, <2>3
<1> HIDE DEF n
<1>3. Obeys(s) <=> ForwardAssertions(n) /\ SupportAssertions(n)
  BY <1>1, <1>2 DEF Obeys, ForwardAssertions, SupportAssertions
<1> QED
  BY <1>3 DEF n

\* The models of the assertions are the trajectories that explain the assignment.
LEMMA ModelsExplain ==
    ASSUME problem \in Problem, Encodable
    PROVE  Models = {Numbered(s) : s \in {x \in Trajectories : Follows(x) /\ Obeys(x)}}
<1>1. ASSUME NEW s \in Trajectories
      PROVE  Numbered(s) \in Snapshots
  <2>1. \A t \in 1 .. Horizon + 2 : \A c \in Cell : s[t][c] \in Value
    BY DEF Trajectories
  <2> QED
    BY <2>1 DEF Numbered, Snapshots
<1>2. ASSUME NEW s \in Trajectories
      PROVE  Numbered(s) \in Models <=> Follows(s) /\ Obeys(s)
  <2>1. ~ InitialUnresolved /\ ~ Malformed
    BY DEF Encodable
  <2> QED
    BY <1>1, <2>1, FollowsEncoded, ObeysEncoded DEF Models
<1>3. ASSUME NEW m \in Models PROVE \E s \in Trajectories : m = Numbered(s)
  BY SnapshotsAreNumbered DEF Models
<1> QED
  BY <1>2, <1>3

LEMMA MirroredWhenReturned == IInv /\ HInv => EncodingMirrorsSimulation
<1> SUFFICES ASSUME IInv, HInv, Returned, Encodable
             PROVE  /\ phase = "feasible" => Models = {Numbered(Append(pre, state))}
                    /\ phase = "infeasible" => Models = {}
  BY DEF EncodingMirrorsSimulation, Numbered
<1> DEFINE Explaining == {s \in Trajectories : Follows(s) /\ Obeys(s)}
<1>1. Models = {Numbered(s) : s \in Explaining}
  BY ModelsExplain DEF IInv
<1>2. phase = "feasible" <=> Explaining # {}
  BY DEF HInv, FeasibleIffExplained, Encodable, Explained
<1>3. CASE phase = "feasible"
  <2>1. \A s \in Explaining : s = Append(pre, state)
    BY <1>3, OnlyTrajectory DEF HInv, Recorded
  <2>2. Explaining = {Append(pre, state)}
    <3> HIDE DEF Explaining
    <3> QED
      BY <1>2, <1>3, <2>1
  <2> HIDE DEF Explaining
  <2> QED
    BY <1>1, <1>3, <2>2
<1>4. CASE phase = "infeasible"
  <2>1. Explaining = {}
    BY <1>2, <1>4
  <2> HIDE DEF Explaining
  <2> QED
    BY <1>1, <1>4, <2>1
<1> QED
  BY <1>3, <1>4 DEF Returned

-----------------------------------------------------------------------------
(* Instances of rules and firings. *)

Roles(rule) == DOMAIN rule.inputs \cup DOMAIN rule.outputs

Ready(rule) == WellFormed(rule) /\ Evaluates(rule, X) /\ X \in [Event -> [occurs : BOOLEAN, cycle : Int]]

LEMMA RulesAreReady ==
    ASSUME problem \in Problem, problem.rules # {}
    PROVE  /\ problem = Instantiate(problem.rules, X, problem.initial)
           /\ \A rule \in problem.rules : Ready(rule)
BY RulesAssumption DEF Ready, X

LEMMA BothSides ==
    ASSUME NEW I, NEW O, I \cap O = {}, NEW i \in [I -> Event], NEW o \in [O -> Event]
    PROVE  /\ Both(i, o) \in [I \cup O -> Event]
           /\ \A r \in I : Both(i, o)[r] = i[r]
           /\ \A r \in O : Both(i, o)[r] = o[r]
BY DEF Both

LEMMA Sides ==
    ASSUME NEW I, NEW O, NEW c \in [I \cup O -> Event], NEW i \in [I -> Event], NEW o \in [O -> Event],
           \A r \in I : i[r] = c[r], \A r \in O : o[r] = c[r]
    PROVE  Both(i, o) = c
<1>1. Both(i, o) = [r \in I \cup O |-> IF r \in I THEN i[r] ELSE o[r]]
  BY DEF Both
<1>2. \A r \in I \cup O : (IF r \in I THEN i[r] ELSE o[r]) = c[r]
  OBVIOUS
<1>3. c = [r \in I \cup O |-> c[r]]
  OBVIOUS
<1> QED
  BY <1>1, <1>2, <1>3

\* Bindings of all roles, with events of their types, no two roles the same.
Complete(rule) ==
    {c \in [Roles(rule) -> Event] :
        /\ \A r \in Roles(rule) : TypeOf[c[r]] = Both(rule.inputs, rule.outputs)[r]
        /\ Distinct(c)}

\* The halves of a complete binding are bindings.
LEMMA HalvesAreBindings ==
    ASSUME NEW rule, WellFormed(rule), NEW c \in Complete(rule)
    PROVE  /\ InputOf(rule, c) \in Inputs(rule) /\ OutputOf(rule, c) \in Outputs(rule)
           /\ Both(InputOf(rule, c), OutputOf(rule, c)) = c
<1>1. c \in [DOMAIN rule.inputs \cup DOMAIN rule.outputs -> Event]
  BY DEF Complete, Roles
<1>2. /\ InputOf(rule, c) \in [DOMAIN rule.inputs -> Event]
      /\ OutputOf(rule, c) \in [DOMAIN rule.outputs -> Event]
      /\ Both(InputOf(rule, c), OutputOf(rule, c)) = c
  <2> DEFINE I == DOMAIN rule.inputs
             O == DOMAIN rule.outputs
             i == InputOf(rule, c)
             o == OutputOf(rule, c)
  <2>1. i \in [I -> Event] /\ \A r \in I : i[r] = c[r]
    BY <1>1 DEF InputOf
  <2>2. o \in [O -> Event] /\ \A r \in O : o[r] = c[r]
    BY <1>1 DEF OutputOf
  <2> HIDE DEF I, O, i, o
  <2>3. c \in [I \cup O -> Event]
    BY <1>1 DEF I, O
  <2>4. Both(i, o) = c
    BY <2>1, <2>2, <2>3, Sides
  <2> QED
    BY <2>1, <2>2, <2>4 DEF I, O, i, o
<1>3. DOMAIN rule.inputs \cap DOMAIN rule.outputs = {}
  BY DEF WellFormed
<1>4. \A r \in DOMAIN rule.inputs : InputOf(rule, c)[r] = c[r] /\ TypeOf[c[r]] = rule.inputs[r]
  BY DEF InputOf, Complete, Roles, Both
<1>5. \A r \in DOMAIN rule.outputs : OutputOf(rule, c)[r] = c[r] /\ TypeOf[c[r]] = rule.outputs[r]
  BY <1>3 DEF OutputOf, Complete, Roles, Both
<1>6. Distinct(c) /\ DOMAIN c = Roles(rule)
  BY DEF Complete
<1>7. Distinct(InputOf(rule, c)) /\ Distinct(OutputOf(rule, c))
  BY <1>2, <1>4, <1>5, <1>6 DEF Distinct, Roles
<1> QED
  BY <1>2, <1>4, <1>5, <1>7 DEF Inputs, Outputs, Bindings

\* Bindings of the two sides that share no event are a complete binding.
LEMMA SidesComplete ==
    ASSUME NEW rule, WellFormed(rule), NEW i \in Bindings(rule.inputs),
           NEW o \in Bindings(rule.outputs), Distinct(Both(i, o))
    PROVE  /\ Both(i, o) \in Complete(rule)
           /\ InputOf(rule, Both(i, o)) = i /\ OutputOf(rule, Both(i, o)) = o
<1> DEFINE c == Both(i, o)
<1>1. DOMAIN rule.inputs \cap DOMAIN rule.outputs = {}
  BY DEF WellFormed
<1>2. i \in [DOMAIN rule.inputs -> Event] /\ o \in [DOMAIN rule.outputs -> Event]
  BY DEF Bindings
<1>3. c \in [Roles(rule) -> Event] /\ InputOf(rule, c) = i /\ OutputOf(rule, c) = o
  <2> DEFINE I == DOMAIN rule.inputs
             O == DOMAIN rule.outputs
  <2> HIDE DEF I, O, c
  <2>1. I \cap O = {} /\ i \in [I -> Event] /\ o \in [O -> Event]
    BY <1>1, <1>2 DEF I, O
  <2>2. c \in [I \cup O -> Event]
    BY <2>1, BothSides DEF c
  <2>3. \A r \in I : c[r] = i[r]
    BY <2>1 DEF c, Both
  <2>4. \A r \in O : c[r] = o[r]
    BY <2>1 DEF c, Both
  <2>5. InputOf(rule, c) = [r \in I |-> i[r]] /\ OutputOf(rule, c) = [r \in O |-> o[r]]
    BY <2>3, <2>4 DEF InputOf, OutputOf, I, O
  <2> QED
    BY <2>1, <2>2, <2>5 DEF Roles, I, O
<1>4. ASSUME NEW r \in Roles(rule)
      PROVE  TypeOf[c[r]] = Both(rule.inputs, rule.outputs)[r]
  <2>1. CASE r \in DOMAIN rule.inputs
    <3>1. c[r] = i[r] /\ Both(rule.inputs, rule.outputs)[r] = rule.inputs[r]
      BY <1>2, <2>1 DEF Both
    <3> QED
      BY <2>1, <3>1 DEF Bindings
  <2>2. CASE r \notin DOMAIN rule.inputs
    <3>1. r \in DOMAIN rule.outputs
      BY <2>2 DEF Roles
    <3>2. c[r] = o[r] /\ Both(rule.inputs, rule.outputs)[r] = rule.outputs[r]
      BY <1>2, <2>2, <3>1 DEF Both
    <3> QED
      BY <3>1, <3>2 DEF Bindings
  <2> QED
    BY <2>1, <2>2
<1> QED
  BY <1>3, <1>4 DEF Complete

LEMMA InstancesAreComplete ==
    ASSUME NEW rule, WellFormed(rule)
    PROVE  Instances(rule) = Complete(rule)
<1>1. ASSUME NEW c \in Instances(rule) PROVE c \in Complete(rule)
  <2>1. PICK i \in Inputs(rule) : \E o \in AlternativesOf(rule, i) : c = Both(i, o)
    BY DEF Instances
  <2>2. PICK o \in AlternativesOf(rule, i) : c = Both(i, o)
    BY <2>1
  <2> QED
    BY <2>1, <2>2, SidesComplete DEF Inputs, AlternativesOf
<1>2. ASSUME NEW c \in Complete(rule) PROVE c \in Instances(rule)
  <2>1. /\ InputOf(rule, c) \in Inputs(rule) /\ OutputOf(rule, c) \in Bindings(rule.outputs)
        /\ Both(InputOf(rule, c), OutputOf(rule, c)) = c /\ Distinct(c)
    BY HalvesAreBindings DEF Outputs, Complete
  <2>2. OutputOf(rule, c) \in AlternativesOf(rule, InputOf(rule, c))
    BY <2>1 DEF AlternativesOf
  <2> QED
    BY <2>1, <2>2 DEF Instances
<1> QED
  BY <1>1, <1>2

LEMMA SidesOccur ==
    ASSUME NEW rule, NEW c \in [Roles(rule) -> Event]
    PROVE  Occur(X, InputOf(rule, c)) /\ Occur(X, OutputOf(rule, c))
              <=> \A r \in Roles(rule) : X[c[r]].occurs
BY DEF Occur, InputOf, OutputOf, Roles

\* What the expressions of a rule are for events that occur.
LEMMA Evaluated ==
    ASSUME NEW rule, Ready(rule), NEW c \in [Roles(rule) -> Event], \A r \in Roles(rule) : X[c[r]].occurs
    PROVE  /\ Eval(rule.when, c, X) = Eval(rule.when, InputOf(rule, c), X)
           /\ Eval(rule.output_when, c, X) = Eval(rule.output_when, OutputOf(rule, c), X)
           /\ \A u \in rule.updates : Eval(u.value, c, X) \in Value
           /\ \A k \in DOMAIN rule.requirements :
                /\ Eval(rule.requirements[k].value, c, X) \in Value
                /\ rule.guarded /\ AnchoredAtInputs(rule) =>
                    Eval(rule.requirements[k].value, c, X)
                        = Eval(rule.requirements[k].value, InputOf(rule, c), X)
<1>1. c \in [DOMAIN rule.inputs \cup DOMAIN rule.outputs -> {e \in Event : X[e].occurs}]
  BY DEF Roles
<1> QED
  BY <1>1 DEF Ready, Evaluates

\* The active instances of a rule are its firings.
LEMMA FiringsAreActive ==
    ASSUME NEW rule, Ready(rule)
    PROVE  Firings(rule) = {c \in Complete(rule) : Active(rule, X, c)}
<1> DEFINE O == {e \in Event : X[e].occurs}
           T(c) == \A r \in Roles(rule) : TypeOf[c[r]] = Both(rule.inputs, rule.outputs)[r]
           G(c) == \A e \in {rule.when, rule.output_when} \cup rule.ensure : Eval(e, c, X)
           A(c) == Active(rule, X, c)
<1>1. ASSUME NEW c \in [Roles(rule) -> Event]
      PROVE  A(c) <=> (\A r \in Roles(rule) : X[c[r]].occurs) /\ G(c)
  <2>1. (\A r \in Roles(rule) : X[c[r]].occurs) =>
            Eval(rule.when, c, X) = Eval(rule.when, InputOf(rule, c), X)
    BY Evaluated
  <2>2. (Occur(X, InputOf(rule, c)) /\ Occur(X, OutputOf(rule, c)))
          <=> \A r \in Roles(rule) : X[c[r]].occurs
    BY SidesOccur
  <2> QED
    BY <2>1, <2>2 DEF Active, Antecedent, Alternative
<1>2. \A c : c \in [Roles(rule) -> O] <=> c \in [Roles(rule) -> Event] /\ \A r \in Roles(rule) : X[c[r]].occurs
  OBVIOUS
<1>3. ASSUME NEW c \in [Roles(rule) -> Event]
      PROVE  Distinct(c) <=> \A r, q \in Roles(rule) : r # q => c[r] # c[q]
  BY DEF Distinct
<1>4. ASSUME NEW c \in [Roles(rule) -> Event]
      PROVE  (\A r \in DOMAIN c : TypeOf[c[r]] = Both(rule.inputs, rule.outputs)[r]) <=> T(c)
  OBVIOUS
<1>5. ASSUME NEW c \in [Roles(rule) -> Event]
      PROVE  (\A r, q \in DOMAIN c : r # q => c[r] # c[q]) <=> Distinct(c)
  BY <1>3
<1>6. Firings(rule) = {c \in [Roles(rule) -> O] :
                         /\ \A r \in DOMAIN c : TypeOf[c[r]] = Both(rule.inputs, rule.outputs)[r]
                         /\ \A r, q \in DOMAIN c : r # q => c[r] # c[q]
                         /\ G(c)}
  BY Zenon DEF Firings, Roles
<1>7. \A c : c \in Firings(rule) <=>
              c \in [Roles(rule) -> Event] /\ T(c) /\ Distinct(c) /\ A(c)
  <2> HIDE DEF O, T, G, A
  <2> QED
    BY <1>1, <1>2, <1>4, <1>5, <1>6
<1> QED
  BY <1>7 DEF Complete

\* Matching inputs fire when they are the inputs of a firing.
LEMMA FiresIsFiring ==
    ASSUME NEW rule, Ready(rule), NEW i \in Inputs(rule), Antecedent(rule, X, i)
    PROVE  Fires(rule, X, i) <=> \E f \in Firings(rule) : i = InputOf(rule, f)
<1>1. ASSUME Fires(rule, X, i) PROVE \E f \in Firings(rule) : i = InputOf(rule, f)
  <2>1. PICK o \in AlternativesOf(rule, i) : Alternative(rule, X, o, Both(i, o))
    BY <1>1 DEF Fires
  <2>2. /\ Both(i, o) \in Complete(rule)
        /\ InputOf(rule, Both(i, o)) = i /\ OutputOf(rule, Both(i, o)) = o
    BY SidesComplete DEF Inputs, AlternativesOf, Ready
  <2>3. Both(i, o) \in Firings(rule)
    BY <2>1, <2>2, FiringsAreActive DEF Active
  <2> QED
    BY <2>2, <2>3
<1>2. ASSUME NEW f \in Firings(rule), i = InputOf(rule, f) PROVE Fires(rule, X, i)
  <2>1. f \in Complete(rule) /\ Active(rule, X, f)
    BY FiringsAreActive
  <2>2. OutputOf(rule, f) \in Bindings(rule.outputs) /\ Both(i, OutputOf(rule, f)) = f /\ Distinct(f)
    BY <1>2, <2>1, HalvesAreBindings DEF Outputs, Complete, Ready
  <2>3. OutputOf(rule, f) \in AlternativesOf(rule, i)
    BY <2>2 DEF AlternativesOf
  <2> QED
    BY <2>1, <2>2, <2>3 DEF Active, Fires
<1> QED
  BY <1>1, <1>2

LEMMA RespondsIsForward ==
    ASSUME NEW rule, Ready(rule), NEW s
    PROVE  Responds(rule, s) <=>
              \A i \in Inputs(rule) :
                  Antecedent(rule, X, i) /\ (rule.guarded => AnchoredAtInputs(rule) /\ Permitted(rule, s, i))
                    => Fires(rule, X, i)
<1> DEFINE O == {e \in Event : X[e].occurs}
           T(i) == \A r \in DOMAIN i : TypeOf[i[r]] = rule.inputs[r]
           D(i) == \A r, q \in DOMAIN i : r # q => i[r] # i[q]
           P(i) == rule.guarded => AnchoredAtInputs(rule) /\ Permitted(rule, s, i)
           F(i) == \E f \in Firings(rule) : i = InputOf(rule, f)
           M(i) == i \in Inputs(rule) /\ Antecedent(rule, X, i)
<1>1. Responds(rule, s) <=>
        \A i \in [DOMAIN rule.inputs -> O] : T(i) /\ D(i) /\ Eval(rule.when, i, X) /\ P(i) => F(i)
  BY Zenon DEF Responds
<1>2. ASSUME NEW i
      PROVE  (i \in [DOMAIN rule.inputs -> O] /\ T(i) /\ D(i) /\ Eval(rule.when, i, X)) <=> M(i)
  <2>1. i \in [DOMAIN rule.inputs -> O] <=>
          i \in [DOMAIN rule.inputs -> Event] /\ \A r \in DOMAIN i : X[i[r]].occurs
    OBVIOUS
  <2>2. i \in [DOMAIN rule.inputs -> Event] => (D(i) <=> Distinct(i))
    BY DEF Distinct
  <2>3. i \in [DOMAIN rule.inputs -> Event] => (T(i) <=> \A r \in DOMAIN rule.inputs : TypeOf[i[r]] = rule.inputs[r])
    OBVIOUS
  <2> HIDE DEF O, T, D
  <2> QED
    BY <2>1, <2>2, <2>3 DEF Inputs, Bindings, Antecedent, Occur
<1>3. \A i : M(i) => (Fires(rule, X, i) <=> F(i))
  BY FiresIsFiring
<1> HIDE DEF O, T, D, P, F
<1>4. Responds(rule, s) <=> \A i : M(i) /\ P(i) => F(i)
  BY <1>1, <1>2
<1> QED
  BY <1>3, <1>4 DEF P

\* The outputs of an exact rule, one event each, and their supports.
LEMMA AccountsIsSupport ==
    ASSUME NEW rule, Ready(rule), rule.exact, NEW s
    PROVE  Accounts(rule, s) <=>
              \A o \in Outputs(rule) : Scope(rule, X, o) =>
                  \E i \in SupportsOf(rule, o) :
                      /\ Supporting(rule, X, i, Both(i, o))
                      /\ rule.guarded => Permitted(rule, s, Both(i, o))
<1>1. PICK r \in DOMAIN rule.outputs : DOMAIN rule.outputs = {r}
  BY DEF Ready, WellFormed
<1> DEFINE P(f) == rule.guarded => Permitted(rule, s, f)
           At(e) == [q \in {r} |-> e]
<1>2. ASSUME NEW e \in Event
      PROVE  /\ TypeOf[e] = rule.outputs[r] <=> At(e) \in Outputs(rule)
             /\ X[e].occurs /\ Eval(rule.output_when, At(e), X) <=> Scope(rule, X, At(e))
  <2>1. Distinct(At(e)) /\ At(e) \in [DOMAIN rule.outputs -> Event]
    BY <1>1 DEF Distinct
  <2>2. (\A q \in DOMAIN rule.outputs : TypeOf[At(e)[q]] = rule.outputs[q]) <=> TypeOf[e] = rule.outputs[r]
    BY <1>1
  <2>3. Occur(X, At(e)) <=> X[e].occurs
    BY DEF Occur
  <2> HIDE DEF At
  <2> QED
    BY <2>1, <2>2, <2>3 DEF Outputs, Bindings, Scope
<1>3. ASSUME NEW o \in Outputs(rule)
      PROVE  \E e \in Event : o = At(e)
  <2>1. o \in [{r} -> Event]
    BY <1>1 DEF Outputs, Bindings
  <2>2. o = At(o[r]) /\ o[r] \in Event
    BY <2>1
  <2> HIDE DEF At
  <2> QED
    BY <2>2
<1>4. ASSUME NEW e \in Event, NEW f \in Complete(rule)
      PROVE  f[r] = e <=> OutputOf(rule, f) = At(e)
  BY <1>1 DEF OutputOf
<1>5. ASSUME NEW e \in Event, At(e) \in Outputs(rule), Scope(rule, X, At(e))
      PROVE  (\E f \in Firings(rule) : f[r] = e /\ P(f)) <=>
                \E i \in SupportsOf(rule, At(e)) :
                    Supporting(rule, X, i, Both(i, At(e))) /\ P(Both(i, At(e)))
  <2> HIDE DEF P, At
  <2>1. ASSUME NEW f \in Firings(rule), f[r] = e, P(f)
        PROVE  \E i \in SupportsOf(rule, At(e)) :
                    Supporting(rule, X, i, Both(i, At(e))) /\ P(Both(i, At(e)))
    <3>1. f \in Complete(rule) /\ Active(rule, X, f)
      BY FiringsAreActive
    <3>2. OutputOf(rule, f) = At(e)
      BY <1>4, <2>1, <3>1
    <3>3. InputOf(rule, f) \in Bindings(rule.inputs) /\ Both(InputOf(rule, f), At(e)) = f /\ Distinct(f)
      BY <3>1, <3>2, HalvesAreBindings DEF Inputs, Complete, Ready
    <3>4. InputOf(rule, f) \in SupportsOf(rule, At(e))
      BY <3>3 DEF SupportsOf
    <3>5. Supporting(rule, X, InputOf(rule, f), f)
      BY <3>1 DEF Active, Alternative, Supporting
    <3> QED
      BY <2>1, <3>3, <3>4, <3>5
  <2>2. ASSUME NEW i \in SupportsOf(rule, At(e)),
               Supporting(rule, X, i, Both(i, At(e))), P(Both(i, At(e)))
        PROVE  \E f \in Firings(rule) : f[r] = e /\ P(f)
    <3> DEFINE f == Both(i, At(e))
    <3>1. /\ f \in Complete(rule) /\ InputOf(rule, f) = i /\ OutputOf(rule, f) = At(e)
      BY <1>5, SidesComplete DEF Outputs, SupportsOf, Ready
    <3> HIDE DEF f
    <3>2. Eval(rule.output_when, f, X) = Eval(rule.output_when, At(e), X)
      <4>1. Occur(X, i) /\ Occur(X, At(e))
        BY <1>5, <2>2 DEF Supporting, Antecedent, Scope
      <4>2. f \in [Roles(rule) -> Event] /\ \A q \in Roles(rule) : X[f[q]].occurs
        BY <3>1, <4>1, SidesOccur DEF Complete
      <4> QED
        BY <3>1, <4>2, Evaluated
    <3>3. Active(rule, X, f)
      BY <1>5, <2>2, <3>1, <3>2 DEF Active, Supporting, Alternative, Scope, f
    <3>4. f \in Firings(rule) /\ f[r] = e
      BY <1>4, <3>1, <3>3, FiringsAreActive
    <3> QED
      BY <2>2, <3>4 DEF f
  <2> QED
    BY <2>1, <2>2
<1>6. Accounts(rule, s) <=>
        \A e \in Event : X[e].occurs /\ TypeOf[e] = rule.outputs[r] /\ Eval(rule.output_when, At(e), X)
            => \E f \in Firings(rule) : f[r] = e /\ P(f)
  BY <1>1 DEF Accounts
<1> HIDE DEF At, P
<1>7. Accounts(rule, s) <=>
        \A e \in Event : At(e) \in Outputs(rule) /\ Scope(rule, X, At(e))
            => \E i \in SupportsOf(rule, At(e)) :
                    Supporting(rule, X, i, Both(i, At(e))) /\ P(Both(i, At(e)))
  BY <1>2, <1>5, <1>6
<1> QED
  BY <1>3, <1>7 DEF P

-----------------------------------------------------------------------------
(* Plain rules: their instances say what their firings have to do. *)

\* An event of a firing is in a cycle of the horizon.
LEMMA FiringsAreTimed ==
    ASSUME NEW rule, Ready(rule), CycleBounds(X), NEW f \in Firings(rule), NEW r \in Roles(rule)
    PROVE  ValidCycle(X[f[r]].cycle)
<1>1. f \in [Roles(rule) -> {e \in Event : X[e].occurs}]
  BY Zenon DEF Firings, Roles
<1>2. f[r] \in Event /\ X[f[r]].occurs
  BY <1>1
<1> QED
  BY <1>2 DEF CycleBounds

LEMMA ActiveIsBoolean ==
    ASSUME NEW rule, Ready(rule), NEW c \in Complete(rule)
    PROVE  Active(rule, X, c) \in BOOLEAN
BY DEF Active, Antecedent, Alternative

\* A requirement and an update of a rule, of an active instance.
RequirementOf(rule, f, k) ==
    [active |-> TRUE, cycle |-> X[f[rule.requirements[k].at]].cycle,
     state |-> rule.requirements[k].state, op |-> rule.requirements[k].op,
     expected |-> Eval(rule.requirements[k].value, f, X)]

UpdateOf(f, u) ==
    [active |-> TRUE, cycle |-> X[f[u.at]].cycle, state |-> u.state, value |-> Eval(u.value, f, X)]

\* The active requirements and updates of a rule are those of its firings.
LEMMA RequirementsOfFirings ==
    ASSUME NEW rule, Ready(rule), NEW q
    PROVE  q \in RequirementInstances(rule, X) /\ q.active = TRUE <=>
              \E f \in Firings(rule) : \E k \in DOMAIN rule.requirements : q = RequirementOf(rule, f, k)
<1> DEFINE Item(c, k, a) ==
             [active |-> a, cycle |-> X[c[rule.requirements[k].at]].cycle,
              state |-> rule.requirements[k].state, op |-> rule.requirements[k].op,
              expected |-> Eval(rule.requirements[k].value, c, X)]
<1>1. q \in RequirementInstances(rule, X) <=>
        \E c \in Complete(rule) : \E k \in DOMAIN rule.requirements : q = Item(c, k, Active(rule, X, c))
  <2>1. Instances(rule) = Complete(rule)
    BY InstancesAreComplete DEF Ready
  <2> QED
    BY <2>1 DEF RequirementInstances
<1>2. \A c, k, a : Item(c, k, a).active = a
  OBVIOUS
<1>3. \A c : c \in Firings(rule) <=> c \in Complete(rule) /\ Active(rule, X, c)
  BY FiringsAreActive
<1>4. \A c \in Complete(rule) : Active(rule, X, c) \in BOOLEAN
  BY ActiveIsBoolean
<1> HIDE DEF Item
<1>5. q \in RequirementInstances(rule, X) /\ q.active = TRUE <=>
        \E f \in Firings(rule) : \E k \in DOMAIN rule.requirements : q = Item(f, k, TRUE)
  <2>1. ASSUME q \in RequirementInstances(rule, X), q.active = TRUE
        PROVE  \E f \in Firings(rule) : \E k \in DOMAIN rule.requirements : q = Item(f, k, TRUE)
    <3>1. PICK c \in Complete(rule), k \in DOMAIN rule.requirements : q = Item(c, k, Active(rule, X, c))
      BY <1>1, <2>1
    <3>2. Active(rule, X, c) = TRUE
      BY <1>2, <2>1, <3>1
    <3> QED
      BY <1>3, <3>1, <3>2
  <2>2. ASSUME NEW f \in Firings(rule), NEW k \in DOMAIN rule.requirements, q = Item(f, k, TRUE)
        PROVE  q \in RequirementInstances(rule, X) /\ q.active = TRUE
    <3>1. f \in Complete(rule) /\ Active(rule, X, f) = TRUE
      BY <1>3, <1>4
    <3> QED
      BY <1>1, <1>2, <2>2, <3>1
  <2> QED
    BY <2>1, <2>2
<1> QED
  BY <1>5 DEF Item, RequirementOf

LEMMA UpdatesOfFirings ==
    ASSUME NEW rule, Ready(rule)
    PROVE  /\ \A q \in UpdateInstances(rule, X) : q.active = TRUE =>
                \E f \in Firings(rule) : \E u \in rule.updates : q = UpdateOf(f, u)
           /\ \A f \in Firings(rule) : \A u \in rule.updates :
                UpdateOf(f, u) \in UpdateInstances(rule, X) /\ UpdateOf(f, u).active = TRUE
<1> DEFINE Item(c, u, a) ==
             [active |-> a, cycle |-> X[c[u.at]].cycle, state |-> u.state, value |-> Eval(u.value, c, X)]
<1>1. \A q : q \in UpdateInstances(rule, X) <=>
        \E c \in Complete(rule) : \E u \in rule.updates : q = Item(c, u, Active(rule, X, c))
  <2>1. Instances(rule) = Complete(rule)
    BY InstancesAreComplete DEF Ready
  <2> QED
    BY <2>1 DEF UpdateInstances
<1>2. \A c, u, a : Item(c, u, a).active = a
  OBVIOUS
<1>3. \A c : c \in Firings(rule) <=> c \in Complete(rule) /\ Active(rule, X, c)
  BY FiringsAreActive
<1>4. \A c \in Complete(rule) : Active(rule, X, c) \in BOOLEAN
  BY ActiveIsBoolean
<1>5. \A f, u : UpdateOf(f, u) = Item(f, u, TRUE)
  BY DEF UpdateOf
<1> HIDE DEF Item
<1>6. ASSUME NEW q \in UpdateInstances(rule, X), q.active = TRUE
      PROVE  \E f \in Firings(rule) : \E u \in rule.updates : q = UpdateOf(f, u)
  <2>1. PICK c \in Complete(rule), u \in rule.updates : q = Item(c, u, Active(rule, X, c))
    BY <1>1, <1>6
  <2>2. Active(rule, X, c) = TRUE
    BY <1>2, <1>6, <2>1
  <2> QED
    BY <1>3, <1>5, <2>1, <2>2
<1>7. ASSUME NEW f \in Firings(rule), NEW u \in rule.updates
      PROVE  UpdateOf(f, u) \in UpdateInstances(rule, X) /\ UpdateOf(f, u).active = TRUE
  <2>1. f \in Complete(rule) /\ Active(rule, X, f) = TRUE
    BY <1>3, <1>4
  <2> QED
    BY <1>1, <1>2, <1>5, <2>1
<1> QED
  BY <1>6, <1>7

\* No instance is unknown.
LEMMA InstancesAreKnown ==
    ASSUME NEW rule, Ready(rule), CycleBounds(X)
    PROVE  /\ \A q \in RequirementInstances(rule, X) : ~ Rejected(q, q.expected)
           /\ \A q \in UpdateInstances(rule, X) : ~ Rejected(q, q.value)
<1>1. Instances(rule) = Complete(rule)
  BY InstancesAreComplete DEF Ready
<1>2. ASSUME NEW c \in Complete(rule)
      PROVE  /\ Active(rule, X, c) # Unknown
             /\ Active(rule, X, c) => c \in Firings(rule)
             /\ Active(rule, X, c) =>
                  \A k \in DOMAIN rule.requirements : Eval(rule.requirements[k].value, c, X) # Unknown
             /\ Active(rule, X, c) => \A u \in rule.updates : Eval(u.value, c, X) # Unknown
  <2>1. c \in [Roles(rule) -> Event]
    BY DEF Complete
  <2>2. Active(rule, X, c) => \A r \in Roles(rule) : X[c[r]].occurs
    BY <2>1, SidesOccur DEF Active, Antecedent, Alternative
  <2>3. ASSUME Active(rule, X, c)
        PROVE  /\ \A k \in DOMAIN rule.requirements : Eval(rule.requirements[k].value, c, X) # Unknown
               /\ \A u \in rule.updates : Eval(u.value, c, X) # Unknown
    BY <2>1, <2>2, <2>3, Evaluated, EventAssumption
  <2> QED
    BY <2>3, ActiveIsBoolean, FiringsAreActive, EventAssumption
<1>3. ASSUME NEW q \in RequirementInstances(rule, X) PROVE ~ Rejected(q, q.expected)
  <2>1. PICK c \in Complete(rule), k \in DOMAIN rule.requirements :
          q = [active |-> Active(rule, X, c), cycle |-> X[c[rule.requirements[k].at]].cycle,
               state |-> rule.requirements[k].state, op |-> rule.requirements[k].op,
               expected |-> Eval(rule.requirements[k].value, c, X)]
    BY <1>1 DEF RequirementInstances
  <2>2. rule.requirements[k].at \in Roles(rule)
    BY DEF Ready, WellFormed, Roles
  <2>3. Active(rule, X, c) => ValidCycle(q.cycle)
    BY <1>2, <2>1, <2>2, FiringsAreTimed
  <2> QED
    BY <1>2, <2>1, <2>3 DEF Rejected
<1>4. ASSUME NEW q \in UpdateInstances(rule, X) PROVE ~ Rejected(q, q.value)
  <2>1. PICK c \in Complete(rule), u \in rule.updates :
          q = [active |-> Active(rule, X, c), cycle |-> X[c[u.at]].cycle, state |-> u.state,
               value |-> Eval(u.value, c, X)]
    BY <1>1 DEF UpdateInstances
  <2>2. u.at \in Roles(rule)
    BY DEF Ready, WellFormed, Roles
  <2>3. Active(rule, X, c) => ValidCycle(q.cycle)
    BY <1>2, <2>1, <2>2, FiringsAreTimed
  <2> QED
    BY <1>2, <2>1, <2>3 DEF Rejected
<1> QED
  BY <1>3, <1>4

Plain(rule) == rule \in problem.rules /\ ~ rule.guarded

LEMMA ItemsOfProblem ==
    ASSUME problem \in Problem, problem.rules # {}
    PROVE  /\ problem.requirements = UNION {RequirementInstances(r, X) : r \in {q \in problem.rules : ~ q.guarded}}
           /\ problem.updates = UNION {UpdateInstances(r, X) : r \in {q \in problem.rules : ~ q.guarded}}
           /\ problem.forwards = UNION {GuardedForwards(r, X) : r \in {q \in problem.rules : q.guarded}}
           /\ problem.supports = UNION {GuardedSupports(r, X) : r \in {q \in problem.rules : q.guarded}}
<1> DEFINE rules == problem.rules
           initial == problem.initial
<1>1. problem = Instantiate(rules, X, initial)
  BY RulesAreReady
<1> HIDE DEF rules, initial
<1>2. /\ Instantiate(rules, X, initial).requirements =
            UNION {RequirementInstances(r, X) : r \in {q \in rules : ~ q.guarded}}
      /\ Instantiate(rules, X, initial).updates = UNION {UpdateInstances(r, X) : r \in {q \in rules : ~ q.guarded}}
      /\ Instantiate(rules, X, initial).forwards = UNION {GuardedForwards(r, X) : r \in {q \in rules : q.guarded}}
      /\ Instantiate(rules, X, initial).supports = UNION {GuardedSupports(r, X) : r \in {q \in rules : q.guarded}}
  BY DEF Instantiate
<1> QED
  BY <1>1, <1>2 DEF rules

LEMMA NothingMalformed ==
    ASSUME problem \in Problem, problem.rules # {}, CycleBounds(X)
    PROVE  ~ Malformed
<1>1. ASSUME NEW q \in problem.requirements PROVE ~ Rejected(q, q.expected)
  <2>1. PICK rule : Plain(rule) /\ q \in RequirementInstances(rule, X)
    BY ItemsOfProblem DEF Plain
  <2> QED
    BY <2>1, InstancesAreKnown, RulesAreReady DEF Plain
<1>2. ASSUME NEW q \in problem.updates PROVE ~ Rejected(q, q.value)
  <2>1. PICK rule : Plain(rule) /\ q \in UpdateInstances(rule, X)
    BY ItemsOfProblem DEF Plain
  <2> QED
    BY <2>1, InstancesAreKnown, RulesAreReady DEF Plain
<1> QED
  BY <1>1, <1>2 DEF Malformed

\* The requirements of a problem hold in a trajectory that permits every plain firing.
LEMMA RequirementsArePermitted ==
    ASSUME problem \in Problem, problem.rules # {}, CycleBounds(X), NEW s
    PROVE  (\A t \in 0 .. Horizon : \A q \in RequirementsAt(t) : Compare(q.op, s[t + 1][q.state], q.expected))
             <=> \A rule \in problem.rules : ~ rule.guarded => \A f \in Firings(rule) : Permitted(rule, s, f)
<1> DEFINE Met(q) == Compare(q.op, s[q.cycle + 1][q.state], q.expected)
<1>1. ASSUME NEW q
      PROVE  q \in problem.requirements /\ q.active = TRUE <=>
                \E rule \in problem.rules : ~ rule.guarded /\
                    \E f \in Firings(rule) : \E k \in DOMAIN rule.requirements : q = RequirementOf(rule, f, k)
  <2>1. q \in problem.requirements <=>
          \E rule \in problem.rules : ~ rule.guarded /\ q \in RequirementInstances(rule, X)
    BY ItemsOfProblem
  <2>2. ASSUME NEW rule \in problem.rules
        PROVE  q \in RequirementInstances(rule, X) /\ q.active = TRUE <=>
                  \E f \in Firings(rule) : \E k \in DOMAIN rule.requirements : q = RequirementOf(rule, f, k)
    <3>1. Ready(rule)
      BY RulesAreReady
    <3> QED
      BY <3>1, RequirementsOfFirings
  <2> QED
    BY <2>1, <2>2
<1>2. ASSUME NEW q \in problem.requirements, q.active = TRUE PROVE q.cycle \in 0 .. Horizon
  BY <1>2, NothingMalformed DEF Malformed, Rejected, ValidCycle
<1>3. (\A t \in 0 .. Horizon : \A q \in RequirementsAt(t) : Compare(q.op, s[t + 1][q.state], q.expected))
        <=> \A q \in problem.requirements : q.active = TRUE => Met(q)
  <2>1. ASSUME \A t \in 0 .. Horizon : \A q \in RequirementsAt(t) : Compare(q.op, s[t + 1][q.state], q.expected),
               NEW q \in problem.requirements, q.active = TRUE
        PROVE  Met(q)
    <3>1. q.cycle \in 0 .. Horizon /\ q \in RequirementsAt(q.cycle)
      BY <1>2, <2>1 DEF RequirementsAt
    <3> QED
      BY <2>1, <3>1
  <2>2. ASSUME \A q \in problem.requirements : q.active = TRUE => Met(q),
               NEW t \in 0 .. Horizon, NEW q \in RequirementsAt(t)
        PROVE  Compare(q.op, s[t + 1][q.state], q.expected)
    BY <2>2 DEF RequirementsAt
  <2> QED
    BY <2>1, <2>2
<1>4. ASSUME NEW rule, NEW f, NEW k
      PROVE  Met(RequirementOf(rule, f, k)) <=>
                Compare(rule.requirements[k].op,
                        s[X[f[rule.requirements[k].at]].cycle + 1][rule.requirements[k].state],
                        Eval(rule.requirements[k].value, f, X))
  BY DEF RequirementOf
<1>5. ASSUME NEW rule, NEW f
      PROVE  Permitted(rule, s, f) <=> \A k \in DOMAIN rule.requirements : Met(RequirementOf(rule, f, k))
  BY <1>4 DEF Permitted
<1> HIDE DEF Met
<1>6. (\A q \in problem.requirements : q.active = TRUE => Met(q)) <=>
        \A rule \in problem.rules : ~ rule.guarded =>
            \A f \in Firings(rule) : \A k \in DOMAIN rule.requirements : Met(RequirementOf(rule, f, k))
  <2>1. ASSUME \A q \in problem.requirements : q.active = TRUE => Met(q),
               NEW rule \in problem.rules, ~ rule.guarded, NEW f \in Firings(rule),
               NEW k \in DOMAIN rule.requirements
        PROVE  Met(RequirementOf(rule, f, k))
    <3>1. RequirementOf(rule, f, k) \in problem.requirements /\ RequirementOf(rule, f, k).active = TRUE
      BY <1>1, <2>1
    <3> QED
      BY <2>1, <3>1
  <2>2. ASSUME \A rule \in problem.rules : ~ rule.guarded =>
                  \A f \in Firings(rule) : \A k \in DOMAIN rule.requirements : Met(RequirementOf(rule, f, k)),
               NEW q \in problem.requirements, q.active = TRUE
        PROVE  Met(q)
    <3>1. PICK rule \in problem.rules : ~ rule.guarded /\
            \E f \in Firings(rule) : \E k \in DOMAIN rule.requirements : q = RequirementOf(rule, f, k)
      BY <1>1, <2>2
    <3>2. PICK f \in Firings(rule), k \in DOMAIN rule.requirements : q = RequirementOf(rule, f, k)
      BY <3>1
    <3> QED
      BY <2>2, <3>1, <3>2
  <2> QED
    BY <2>1, <2>2
<1> QED
  BY <1>3, <1>5, <1>6

\* What is written is what the active updates write.
LEMMA WrittenIsUpdated ==
    ASSUME problem \in Problem, problem.rules # {}, NEW w
    PROVE  w \in Written <=>
              \E u \in problem.updates : u.active = TRUE /\ w = <<u.state, u.cycle, u.value>>
<1> DEFINE Triple(u) == <<u.state, u.cycle, u.value>>
<1>1. \A q : q \in problem.updates /\ q.active = TRUE =>
        \E rule \in problem.rules : ~ rule.guarded /\
            \E f \in Firings(rule) : \E u \in rule.updates : q = UpdateOf(f, u)
  <2>1. ASSUME NEW q \in problem.updates, q.active = TRUE
        PROVE  \E rule \in problem.rules : ~ rule.guarded /\
                  \E f \in Firings(rule) : \E u \in rule.updates : q = UpdateOf(f, u)
    <3>1. PICK rule \in problem.rules : ~ rule.guarded /\ q \in UpdateInstances(rule, X)
      BY ItemsOfProblem
    <3> QED
      BY <2>1, <3>1, UpdatesOfFirings, RulesAreReady
  <2> QED
    BY <2>1
<1>0. ASSUME NEW rule \in problem.rules, ~ rule.guarded, NEW f \in Firings(rule), NEW u \in rule.updates
      PROVE  UpdateOf(f, u) \in problem.updates /\ UpdateOf(f, u).active = TRUE
  <2>1. Ready(rule)
    BY RulesAreReady
  <2>2. UpdateOf(f, u) \in UpdateInstances(rule, X) /\ UpdateOf(f, u).active = TRUE
    BY <2>1, UpdatesOfFirings
  <2> QED
    BY <1>0, <2>2, ItemsOfProblem
<1>2. \A rule \in problem.rules : rule.guarded => rule.updates = {}
  BY RulesAreReady DEF Ready, WellFormed
<1>3. w \in Written <=>
        \E rule \in problem.rules : \E f \in Firings(rule) : \E v \in rule.updates :
            w = <<v.state, X[f[v.at]].cycle, Eval(v.value, f, X)>>
  BY DEF Written
<1>4. \A f, v : Triple(UpdateOf(f, v)) = <<v.state, X[f[v.at]].cycle, Eval(v.value, f, X)>>
  BY DEF UpdateOf
<1>5. w \in Written <=>
        \E rule \in problem.rules : \E f \in Firings(rule) : \E v \in rule.updates : w = Triple(UpdateOf(f, v))
  BY <1>3, <1>4
<1> HIDE DEF Triple
<1>6. w \in Written <=> \E u \in problem.updates : u.active = TRUE /\ w = Triple(u)
  <2>1. ASSUME w \in Written PROVE \E u \in problem.updates : u.active = TRUE /\ w = Triple(u)
    <3>1. PICK rule \in problem.rules :
            \E f \in Firings(rule) : \E v \in rule.updates : w = Triple(UpdateOf(f, v))
      BY <1>5, <2>1
    <3>2. PICK f \in Firings(rule), v \in rule.updates : w = Triple(UpdateOf(f, v)) /\ ~ rule.guarded
      BY <1>2, <3>1
    <3>3. UpdateOf(f, v) \in problem.updates /\ UpdateOf(f, v).active = TRUE
      BY <1>0, <3>1, <3>2
    <3> QED
      BY <3>2, <3>3
  <2>2. ASSUME NEW u \in problem.updates, u.active = TRUE, w = Triple(u) PROVE w \in Written
    <3>1. PICK rule \in problem.rules : ~ rule.guarded /\
            \E f \in Firings(rule) : \E v \in rule.updates : u = UpdateOf(f, v)
      BY <1>1, <2>2
    <3> QED
      BY <1>5, <2>2, <3>1
  <2> QED
    BY <2>1, <2>2
<1> QED
  BY <1>6 DEF Triple

\* The trajectories that follow the items of the problem are those in which the plain
\* firings are permitted, what they write is written and nothing else changes.
LEMMA FollowsTheRules ==
    ASSUME problem \in Problem, problem.rules # {}, CycleBounds(X), NEW s
    PROVE  Follows(s) <=>
              /\ s[1] = problem.initial
              /\ \A rule \in problem.rules : ~ rule.guarded => \A f \in Firings(rule) : Permitted(rule, s, f)
              /\ \A w \in Written : s[w[2] + 2][w[1]] = w[3]
              /\ \A c \in Cell : \A t \in 0 .. Horizon :
                  (\A w \in Written : ~ (w[1] = c /\ w[2] = t)) => s[t + 2][c] = s[t + 1][c]
<1> DEFINE Live(u) == u \in problem.updates /\ u.active = TRUE
<1>1. ASSUME NEW u, Live(u) PROVE u.cycle \in 0 .. Horizon
  BY <1>1, NothingMalformed DEF Malformed, Rejected, ValidCycle
<1>2. \A u : Live(u) => <<u.state, u.cycle, u.value>> \in Written
  BY WrittenIsUpdated
<1>3. ASSUME NEW w \in Written
      PROVE  \E u : Live(u) /\ w[1] = u.state /\ w[2] = u.cycle /\ w[3] = u.value
  <2>1. PICK u \in problem.updates : u.active = TRUE /\ w = <<u.state, u.cycle, u.value>>
    BY WrittenIsUpdated
  <2> QED
    BY <2>1
<1>4. (\A t \in 0 .. Horizon : \A u \in UpdatesAt(t) : s[t + 2][u.state] = u.value)
        <=> \A u : Live(u) => s[u.cycle + 2][u.state] = u.value
  <2>1. ASSUME \A t \in 0 .. Horizon : \A u \in UpdatesAt(t) : s[t + 2][u.state] = u.value,
               NEW u, Live(u)
        PROVE  s[u.cycle + 2][u.state] = u.value
    <3>1. u.cycle \in 0 .. Horizon /\ u \in UpdatesAt(u.cycle)
      BY <1>1, <2>1 DEF UpdatesAt
    <3> QED
      BY <2>1, <3>1
  <2>2. ASSUME \A u : Live(u) => s[u.cycle + 2][u.state] = u.value,
               NEW t \in 0 .. Horizon, NEW u \in UpdatesAt(t)
        PROVE  s[t + 2][u.state] = u.value
    <3>1. Live(u) /\ u.cycle = t
      BY DEF UpdatesAt
    <3> QED
      BY <2>2, <3>1
  <2> QED
    BY <2>1, <2>2
<1>5. (\A u : Live(u) => s[u.cycle + 2][u.state] = u.value) <=> \A w \in Written : s[w[2] + 2][w[1]] = w[3]
  <2>1. ASSUME \A u : Live(u) => s[u.cycle + 2][u.state] = u.value, NEW w \in Written
        PROVE  s[w[2] + 2][w[1]] = w[3]
    <3> HIDE DEF Live
    <3> QED
      BY <1>3, <2>1
  <2>2. ASSUME \A w \in Written : s[w[2] + 2][w[1]] = w[3], NEW u, Live(u)
        PROVE  s[u.cycle + 2][u.state] = u.value
    <3>1. <<u.state, u.cycle, u.value>> \in Written
      BY <1>2, <2>2
    <3> QED
      BY <2>2, <3>1
  <2> QED
    BY <2>1, <2>2
<1>6. ASSUME NEW c \in Cell, NEW t \in 0 .. Horizon
      PROVE  WritesTo(c, t) = {} <=> \A w \in Written : ~ (w[1] = c /\ w[2] = t)
  <2>1. WritesTo(c, t) = {} <=> \A u : Live(u) => ~ (u.state = c /\ u.cycle = t)
    BY DEF WritesTo, UpdatesAt
  <2>2. ASSUME \A u : Live(u) => ~ (u.state = c /\ u.cycle = t), NEW w \in Written
        PROVE  ~ (w[1] = c /\ w[2] = t)
    <3> HIDE DEF Live
    <3> QED
      BY <1>3, <2>2
  <2>3. ASSUME \A w \in Written : ~ (w[1] = c /\ w[2] = t), NEW u, Live(u)
        PROVE  ~ (u.state = c /\ u.cycle = t)
    <3>1. <<u.state, u.cycle, u.value>> \in Written
      BY <1>2, <2>3
    <3> QED
      BY <2>3, <3>1
  <2> QED
    BY <2>1, <2>2, <2>3
<1> HIDE DEF Live
<1>7. (\A t \in 0 .. Horizon : \A c \in Cell : WritesTo(c, t) = {} => s[t + 2][c] = s[t + 1][c])
        <=> \A c \in Cell : \A t \in 0 .. Horizon :
              (\A w \in Written : ~ (w[1] = c /\ w[2] = t)) => s[t + 2][c] = s[t + 1][c]
  BY <1>6
<1>8. Follows(s) <=>
        /\ s[1] = problem.initial
        /\ \A t \in 0 .. Horizon : \A q \in RequirementsAt(t) : Compare(q.op, s[t + 1][q.state], q.expected)
        /\ \A t \in 0 .. Horizon : \A u \in UpdatesAt(t) : s[t + 2][u.state] = u.value
        /\ \A t \in 0 .. Horizon : \A c \in Cell : WritesTo(c, t) = {} => s[t + 2][c] = s[t + 1][c]
  BY Zenon DEF Follows
<1> QED
  BY <1>4, <1>5, <1>7, <1>8, RequirementsArePermitted

-----------------------------------------------------------------------------
(* Guarded rules: the guards of matching events are decided. *)

LEMMA InjectiveSequence ==
    ASSUME NEW S, IsFiniteSet(S)
    PROVE  LET q == SetToSeq(S) IN
           /\ Len(q) \in Nat /\ DOMAIN q = 1 .. Len(q)
           /\ \A i \in DOMAIN q : q[i] \in S
           /\ \A x \in S : \E i \in DOMAIN q : q[i] = x
<1> DEFINE n == Cardinality(S)
           D == 1 .. n
           q == SetToSeq(S)
<1>1. n \in Nat /\ ExistsBijection(D, S)
  BY FS_CardinalityType
<1>2. PICK b : b \in Bijection(D, S)
  BY <1>1 DEF ExistsBijection
<1>3. b \in [D -> S] /\ IsInjective(b)
  <2> HIDE DEF D
  <2> QED
    BY <1>2, Fun_BijectionProperties DEF IsInjective
<1>4. q \in [D -> S] /\ IsInjective(q)
  BY <1>3 DEF SetToSeq
<1>5. IsFiniteSet(D) /\ Cardinality(D) = n
  BY <1>1, FS_Interval
<1>6. q \in Injection(D, S)
  <2> HIDE DEF D, q
  <2> QED
    BY <1>4 DEF Injection, IsInjective
<1>7. q \in Surjection(D, S)
  <2> HIDE DEF D, q
  <2> QED
    BY <1>5, <1>6, FS_Injection
<1>8. \A x \in S : \E i \in D : q[i] = x
  <2> HIDE DEF D, q
  <2> QED
    BY <1>7 DEF Surjection
<1>9. Len(q) = n /\ DOMAIN q = D
  <2> HIDE DEF q
  <2> QED
    BY <1>1, <1>4
<1> HIDE DEF q
<1> QED
  BY <1>1, <1>4, <1>8, <1>9 DEF q

LEMMA FunctionsAreFinite ==
    ASSUME NEW A, IsFiniteSet(A), NEW B, IsFiniteSet(B)
    PROVE  IsFiniteSet([A -> B])
<1> DEFINE graph == [f \in [A -> B] |-> {<<a, f[a]>> : a \in A}]
           T == SUBSET (A \X B)
<1>1. IsFiniteSet(T)
  BY FS_Product, FS_SUBSET
<1>2. graph \in [[A -> B] -> T]
  <2>1. \A f \in [A -> B] : {<<a, f[a]>> : a \in A} \in T
    OBVIOUS
  <2> QED
    BY <2>1
<1>3. ASSUME NEW f \in [A -> B], NEW g \in [A -> B], graph[f] = graph[g] PROVE f = g
  <2>1. {<<a, f[a]>> : a \in A} = {<<a, g[a]>> : a \in A}
    BY <1>3
  <2>2. ASSUME NEW a \in A PROVE f[a] = g[a]
    <3>1. <<a, f[a]>> \in {<<c, g[c]>> : c \in A}
      BY <2>1
    <3> QED
      BY <3>1
  <2>3. f = [a \in A |-> f[a]] /\ g = [a \in A |-> g[a]]
    OBVIOUS
  <2> QED
    BY <2>2, <2>3
<1>4. graph \in Injection([A -> B], T)
  <2> HIDE DEF graph, T
  <2> QED
    BY <1>2, <1>3 DEF Injection, IsInjective
<1> HIDE DEF graph, T
<1> QED
  BY <1>1, <1>4, FS_Injection

\* A guard whose anchors occur in the horizon and whose value is known is decided.
LEMMA PredicatesDecide ==
    ASSUME CycleBounds(X), NEW rule, NEW b, NEW s,
           \A k \in DOMAIN rule.requirements :
                /\ b[rule.requirements[k].at] \in Event /\ X[b[rule.requirements[k].at]].occurs
                /\ Eval(rule.requirements[k].value, b, X) \in Value
    PROVE  /\ ~ Undecidable(s, Predicates(rule, X, b))
           /\ Enabled(s, Predicates(rule, X, b)) <=> Permitted(rule, s, b)
<1> DEFINE R(k) == rule.requirements[k]
           p(k) == [cycle |-> X[b[R(k).at]].cycle, state |-> R(k).state, op |-> R(k).op,
                    expected |-> Eval(R(k).value, b, X)]
<1>1. /\ DOMAIN Predicates(rule, X, b) = DOMAIN rule.requirements
      /\ \A k \in DOMAIN rule.requirements : Predicates(rule, X, b)[k] = p(k)
  BY DEF Predicates
<1>2. ASSUME NEW k \in DOMAIN rule.requirements
      PROVE  /\ ValidCycle(p(k).cycle) /\ p(k).expected # Unknown
             /\ Decides(s, p(k)) <=> ~ Compare(R(k).op, s[X[b[R(k).at]].cycle + 1][R(k).state], Eval(R(k).value, b, X))
  BY EventAssumption DEF CycleBounds, Decides
<1> HIDE DEF p
<1>3. ~ Undecidable(s, Predicates(rule, X, b))
  BY <1>1, <1>2 DEF Undecidable
<1>4. Enabled(s, Predicates(rule, X, b)) <=> \A k \in DOMAIN rule.requirements : ~ Decides(s, p(k))
  BY <1>1 DEF Enabled
<1> QED
  BY <1>2, <1>3, <1>4 DEF Permitted

\* The guarded items of the problem are obeyed in the trajectories in which every guarded
\* rule responds to its inputs and every exact one accounts for its outputs.
LEMMA ForwardsRespond ==
    ASSUME NEW rule, Ready(rule), rule.guarded, CycleBounds(X), NEW s
    PROVE  Responds(rule, s) <=>
              \A item \in GuardedForwards(rule, X) :
                  /\ item.antecedent # Unknown
                  /\ item.antecedent = TRUE =>
                      /\ ~ Undecidable(s, item.predicates)
                      /\ Enabled(s, item.predicates) => item.consequent = TRUE
<1> DEFINE Item(i) == [antecedent |-> Antecedent(rule, X, i), predicates |-> Predicates(rule, X, i),
                       consequent |-> Fires(rule, X, i)]
           Good(item) ==
                  /\ item.antecedent # Unknown
                  /\ item.antecedent = TRUE =>
                      /\ ~ Undecidable(s, item.predicates)
                      /\ Enabled(s, item.predicates) => item.consequent = TRUE
<1>1. CASE ~ AnchoredAtInputs(rule)
  <2>1. GuardedForwards(rule, X) = {}
    BY <1>1 DEF GuardedForwards
  <2>2. Responds(rule, s)
    BY <1>1, RespondsIsForward
  <2> QED
    BY <2>1, <2>2
<1>2. CASE AnchoredAtInputs(rule)
  <2>1. GuardedForwards(rule, X) = {Item(i) : i \in Inputs(rule)}
    BY <1>2, Zenon DEF GuardedForwards
  <2>2. ASSUME NEW i \in Inputs(rule), Antecedent(rule, X, i)
        PROVE  /\ ~ Undecidable(s, Predicates(rule, X, i))
               /\ Enabled(s, Predicates(rule, X, i)) <=> Permitted(rule, s, i)
    <3>1. ASSUME NEW k \in DOMAIN rule.requirements
          PROVE  /\ i[rule.requirements[k].at] \in Event /\ X[i[rule.requirements[k].at]].occurs
                 /\ Eval(rule.requirements[k].value, i, X) \in Value
      <4> DEFINE b == [r \in DOMAIN rule.inputs \cup DOMAIN rule.outputs |->
                          IF r \in DOMAIN rule.inputs THEN i[r] ELSE i[rule.requirements[k].at]]
      <4>1. rule.requirements[k].at \in DOMAIN rule.inputs /\ i \in [DOMAIN rule.inputs -> Event]
        BY <1>2 DEF AnchoredAtInputs, Inputs, Bindings
      <4>2. b \in [Roles(rule) -> Event] /\ \A r \in Roles(rule) : X[b[r]].occurs
        BY <2>2, <4>1 DEF Roles, Antecedent, Occur
      <4>3. InputOf(rule, b) = i
        <5>1. InputOf(rule, b) = [r \in DOMAIN rule.inputs |-> i[r]]
          BY DEF InputOf
        <5> QED
          BY <4>1, <5>1
      <4> HIDE DEF b
      <4>4. Eval(rule.requirements[k].value, i, X) \in Value
        <5>1. /\ Eval(rule.requirements[k].value, b, X) \in Value
              /\ Eval(rule.requirements[k].value, b, X)
                    = Eval(rule.requirements[k].value, InputOf(rule, b), X)
          BY <1>2, <4>2, Evaluated
        <5> QED
          BY <4>3, <5>1
      <4> QED
        BY <2>2, <4>1, <4>4 DEF Antecedent, Occur
    <3> QED
      BY <3>1, PredicatesDecide
  <2>3. ASSUME NEW i \in Inputs(rule)
        PROVE  /\ Item(i).antecedent = Antecedent(rule, X, i) /\ Item(i).predicates = Predicates(rule, X, i)
               /\ Item(i).consequent = Fires(rule, X, i)
               /\ Antecedent(rule, X, i) \in BOOLEAN /\ Fires(rule, X, i) \in BOOLEAN
    BY DEF Antecedent, Fires
  <2> HIDE DEF Item
  <2>4. ASSUME NEW i \in Inputs(rule)
        PROVE  Good(Item(i)) <=> (Antecedent(rule, X, i) /\ Permitted(rule, s, i) => Fires(rule, X, i))
    <3>1. Antecedent(rule, X, i) # Unknown
      BY <2>3, EventAssumption
    <3> QED
      BY <2>2, <2>3, <3>1
  <2> HIDE DEF Good
  <2>5. (\A item \in GuardedForwards(rule, X) : Good(item)) <=>
            \A i \in Inputs(rule) : Antecedent(rule, X, i) /\ Permitted(rule, s, i) => Fires(rule, X, i)
    BY <2>1, <2>4
  <2>6. Responds(rule, s) <=>
            \A i \in Inputs(rule) : Antecedent(rule, X, i) /\ Permitted(rule, s, i) => Fires(rule, X, i)
    BY <1>2, RespondsIsForward
  <2> QED
    BY <2>5, <2>6 DEF Good
<1> QED
  BY <1>1, <1>2

LEMMA SupportsAccount ==
    ASSUME NEW rule, Ready(rule), rule.guarded, rule.exact, CycleBounds(X), NEW s
    PROVE  Accounts(rule, s) <=>
              \A item \in GuardedSupports(rule, X) :
                  /\ item.antecedent # Unknown
                  /\ item.antecedent = TRUE => \E i \in DOMAIN item.supports :
                      /\ item.supports[i].expression = TRUE /\ Enabled(s, item.supports[i].predicates)
                      /\ \A j \in 1 .. i - 1 : ~ (/\ item.supports[j].expression = TRUE
                                                  /\ Undecidable(s, item.supports[j].predicates))
<1> DEFINE Candidate(o, i) == [expression |-> Supporting(rule, X, i, Both(i, o)),
                               predicates |-> Predicates(rule, X, Both(i, o))]
           S(o) == {Candidate(o, i) : i \in SupportsOf(rule, o)}
           Item(o) == [antecedent |-> Scope(rule, X, o), supports |-> SetToSeq(S(o))]
           Witnessed(q) == \E i \in DOMAIN q :
                      /\ q[i].expression = TRUE /\ Enabled(s, q[i].predicates)
                      /\ \A j \in 1 .. i - 1 : ~ (/\ q[j].expression = TRUE
                                                  /\ Undecidable(s, q[j].predicates))
           Good(item) == item.antecedent # Unknown /\ (item.antecedent = TRUE => Witnessed(item.supports))
           Supports(o) == \E i \in SupportsOf(rule, o) :
                              Supporting(rule, X, i, Both(i, o)) /\ Permitted(rule, s, Both(i, o))
<1>1. GuardedSupports(rule, X) = {Item(o) : o \in Outputs(rule)}
  BY Zenon DEF GuardedSupports
<1>2. ASSUME NEW o
      PROVE  IsFiniteSet(S(o))
  <2> DEFINE T == SupportsOf(rule, o)
             f == [i \in T |-> Candidate(o, i)]
  <2>1. IsFiniteSet([DOMAIN rule.inputs -> Event])
    <3>1. IsFiniteSet(DOMAIN rule.inputs)
      BY FS_Subset DEF Ready, WellFormed
    <3> QED
      BY <3>1, FunctionsAreFinite, EventAssumption
  <2>2. IsFiniteSet(T)
    <3>1. T \in SUBSET [DOMAIN rule.inputs -> Event]
      BY DEF SupportsOf, Bindings
    <3> HIDE DEF T
    <3> QED
      BY <2>1, <3>1, FS_Subset
  <2>3. f \in Surjection(T, S(o))
    <3>1. f \in [T -> S(o)] /\ \A t \in S(o) : \E x \in T : f[x] = t
      OBVIOUS
    <3> HIDE DEF f, T, S
    <3> QED
      BY <3>1 DEF Surjection
  <2> HIDE DEF f, T, S
  <2> QED
    BY <2>2, <2>3, FS_Surjection
<1>3. ASSUME NEW o \in Outputs(rule), Scope(rule, X, o), NEW i \in SupportsOf(rule, o),
             Supporting(rule, X, i, Both(i, o))
      PROVE  /\ ~ Undecidable(s, Predicates(rule, X, Both(i, o)))
             /\ Enabled(s, Predicates(rule, X, Both(i, o))) <=> Permitted(rule, s, Both(i, o))
  <2> DEFINE c == Both(i, o)
  <2>1. /\ c \in [Roles(rule) -> Event] /\ InputOf(rule, c) = i /\ OutputOf(rule, c) = o
    BY SidesComplete DEF Complete, SupportsOf, Outputs, Ready
  <2>2. Occur(X, i) /\ Occur(X, o)
    BY <1>3 DEF Supporting, Antecedent, Scope
  <2> HIDE DEF c
  <2>3. \A r \in Roles(rule) : X[c[r]].occurs
    BY <2>1, <2>2 DEF Roles, Occur, InputOf, OutputOf
  <2>4. \A k \in DOMAIN rule.requirements : rule.requirements[k].at \in Roles(rule)
    BY DEF Ready, WellFormed, Roles
  <2>5. \A k \in DOMAIN rule.requirements : Eval(rule.requirements[k].value, c, X) \in Value
    BY <2>1, <2>3, Evaluated
  <2>6. /\ ~ Undecidable(s, Predicates(rule, X, c))
        /\ Enabled(s, Predicates(rule, X, c)) <=> Permitted(rule, s, c)
    BY <2>1, <2>3, <2>4, <2>5, PredicatesDecide
  <2> QED
    BY <2>6 DEF c
<1>4. ASSUME NEW o, NEW i
      PROVE  /\ Candidate(o, i).expression = Supporting(rule, X, i, Both(i, o))
             /\ Candidate(o, i).predicates = Predicates(rule, X, Both(i, o))
             /\ Supporting(rule, X, i, Both(i, o)) \in BOOLEAN
  BY DEF Supporting
<1>5. ASSUME NEW o
      PROVE  /\ Item(o).antecedent = Scope(rule, X, o) /\ Item(o).supports = SetToSeq(S(o))
             /\ Scope(rule, X, o) \in BOOLEAN
  BY DEF Scope
<1> HIDE DEF Candidate, Item
<1>6. ASSUME NEW o \in Outputs(rule), Scope(rule, X, o)
      PROVE  Witnessed(SetToSeq(S(o))) <=> Supports(o)
  <2> DEFINE q == SetToSeq(S(o))
  <2>1. /\ Len(q) \in Nat /\ DOMAIN q = 1 .. Len(q)
        /\ \A j \in DOMAIN q : q[j] \in S(o)
        /\ \A x \in S(o) : \E j \in DOMAIN q : q[j] = x
    <3> HIDE DEF S
    <3> QED
      BY <1>2, InjectiveSequence
  <2> HIDE DEF q
  <2>2. ASSUME NEW j \in DOMAIN q, q[j].expression = TRUE
        PROVE  /\ ~ Undecidable(s, q[j].predicates)
               /\ Enabled(s, q[j].predicates) => Supports(o)
    <3>1. PICK i \in SupportsOf(rule, o) : q[j] = Candidate(o, i)
      BY <2>1
    <3>2. Supporting(rule, X, i, Both(i, o)) /\ q[j].predicates = Predicates(rule, X, Both(i, o))
      BY <1>4, <2>2, <3>1
    <3> QED
      BY <1>3, <1>6, <3>2
  <2>3. ASSUME Supports(o) PROVE Witnessed(q)
    <3>1. PICK i \in SupportsOf(rule, o) :
              Supporting(rule, X, i, Both(i, o)) /\ Permitted(rule, s, Both(i, o))
      BY <2>3
    <3>2. PICK j \in DOMAIN q : q[j] = Candidate(o, i)
      BY <2>1
    <3>3. q[j].expression = TRUE /\ Enabled(s, q[j].predicates)
      BY <1>3, <1>4, <1>6, <3>1, <3>2
    <3>4. \A m \in 1 .. j - 1 : m \in DOMAIN q
      BY <2>1
    <3> QED
      BY <2>2, <3>3, <3>4
  <2>4. ASSUME Witnessed(q) PROVE Supports(o)
    BY <2>2, <2>4
  <2> QED
    BY <2>3, <2>4 DEF q
<1> HIDE DEF S, Witnessed, Supports
<1>7. ASSUME NEW o \in Outputs(rule)
      PROVE  Good(Item(o)) <=> (Scope(rule, X, o) => Supports(o))
  <2>1. Scope(rule, X, o) # Unknown
    BY <1>5, EventAssumption
  <2> QED
    BY <1>5, <1>6, <2>1
<1> HIDE DEF Good
<1>8. (\A item \in GuardedSupports(rule, X) : Good(item)) <=> \A o \in Outputs(rule) : Scope(rule, X, o) => Supports(o)
  BY <1>1, <1>7
<1>9. Accounts(rule, s) <=> \A o \in Outputs(rule) : Scope(rule, X, o) => Supports(o)
  BY AccountsIsSupport DEF Supports
<1> QED
  BY <1>8, <1>9 DEF Good, Witnessed

LEMMA ObeysTheRules ==
    ASSUME problem \in Problem, problem.rules # {}, CycleBounds(X), NEW s
    PROVE  Obeys(s) <=>
              \A rule \in problem.rules : rule.guarded => Responds(rule, s) /\ (rule.exact => Accounts(rule, s))
<1> DEFINE F(item) ==
              /\ item.antecedent # Unknown
              /\ item.antecedent = TRUE =>
                  /\ ~ Undecidable(s, item.predicates)
                  /\ Enabled(s, item.predicates) => item.consequent = TRUE
           S(item) ==
              /\ item.antecedent # Unknown
              /\ item.antecedent = TRUE => \E i \in DOMAIN item.supports :
                  /\ item.supports[i].expression = TRUE /\ Enabled(s, item.supports[i].predicates)
                  /\ \A j \in 1 .. i - 1 : ~ (/\ item.supports[j].expression = TRUE
                                              /\ Undecidable(s, item.supports[j].predicates))
<1>1. Obeys(s) <=> (\A item \in problem.forwards : F(item)) /\ \A item \in problem.supports : S(item)
  BY Zenon DEF Obeys
<1>2. ASSUME NEW rule \in problem.rules, rule.guarded
      PROVE  /\ Responds(rule, s) <=> \A item \in GuardedForwards(rule, X) : F(item)
             /\ (rule.exact => Accounts(rule, s)) <=> \A item \in GuardedSupports(rule, X) : S(item)
  <2>1. Ready(rule)
    BY RulesAreReady
  <2>2. Responds(rule, s) <=> \A item \in GuardedForwards(rule, X) : F(item)
    BY <1>2, <2>1, ForwardsRespond, Zenon
  <2>3. rule.exact => (Accounts(rule, s) <=> \A item \in GuardedSupports(rule, X) : S(item))
    BY <1>2, <2>1, SupportsAccount, Zenon
  <2>4. ~ rule.exact => GuardedSupports(rule, X) = {}
    BY DEF GuardedSupports
  <2> HIDE DEF S
  <2> QED
    BY <2>2, <2>3, <2>4
<1> HIDE DEF F, S
<1>3. /\ (\A item \in problem.forwards : F(item)) <=>
            \A rule \in problem.rules : rule.guarded => \A item \in GuardedForwards(rule, X) : F(item)
      /\ (\A item \in problem.supports : S(item)) <=>
            \A rule \in problem.rules : rule.guarded => \A item \in GuardedSupports(rule, X) : S(item)
  BY ItemsOfProblem
<1> QED
  BY <1>1, <1>2, <1>3

-----------------------------------------------------------------------------
(* The simulation and the constraints together. *)

LEMMA PlainRulesObeyed ==
    ASSUME NEW rule, Ready(rule), ~ rule.guarded, NEW s
    PROVE  /\ Responds(rule, s) <=> Forward(rule, X)
           /\ rule.exact => (Accounts(rule, s) <=> Support(rule, X))
<1>1. Responds(rule, s) <=> Forward(rule, X)
  BY RespondsIsForward DEF Forward
<1>2. ASSUME rule.exact PROVE Accounts(rule, s) <=> Support(rule, X)
  BY <1>2, AccountsIsSupport DEF Support
<1> QED
  BY <1>1, <1>2

LEMMA ExplainedIsLawful ==
    ASSUME problem \in Problem, problem.rules # {}
    PROVE  Constraints(problem.rules, X) /\ Explained <=> Lawful
<1> DEFINE Ordinary(s) == \A rule \in problem.rules : ~ rule.guarded => Responds(rule, s) /\ (rule.exact => Accounts(rule, s))
           Guarded(s) == \A rule \in problem.rules : rule.guarded => Responds(rule, s) /\ (rule.exact => Accounts(rule, s))
           Permits(s) == \A rule \in problem.rules : ~ rule.guarded => \A f \in Firings(rule) : Permitted(rule, s, f)
           Writes(s) == /\ \A w \in Written : s[w[2] + 2][w[1]] = w[3]
                        /\ \A c \in Cell : \A t \in 0 .. Horizon :
                            (\A w \in Written : ~ (w[1] = c /\ w[2] = t)) => s[t + 2][c] = s[t + 1][c]
<1>1. Lawful <=> /\ CycleBounds(X)
                 /\ \E s \in Trajectories :
                      s[1] = problem.initial /\ Ordinary(s) /\ Guarded(s) /\ Permits(s) /\ Writes(s)
  <2>1. (\A e \in Event : X[e].occurs => X[e].cycle \in 0 .. Horizon) <=> CycleBounds(X)
    BY DEF CycleBounds, ValidCycle
  <2>2. ASSUME NEW s
        PROVE  (\A rule \in problem.rules :
                  /\ Responds(rule, s)
                  /\ rule.exact => Accounts(rule, s)
                  /\ ~ rule.guarded => \A f \in Firings(rule) : Permitted(rule, s, f))
                 <=> Ordinary(s) /\ Guarded(s) /\ Permits(s)
    OBVIOUS
  <2> HIDE DEF Ordinary, Guarded, Permits
  <2> QED
    BY <2>1, <2>2 DEF Lawful
<1>2. ASSUME NEW s, CycleBounds(X)
      PROVE  /\ Ordinary(s) <=> Constraints(problem.rules, X)
             /\ Guarded(s) <=> Obeys(s)
             /\ Follows(s) <=> s[1] = problem.initial /\ Permits(s) /\ Writes(s)
  <2>1. Ordinary(s) <=> Constraints(problem.rules, X)
    BY <1>2, PlainRulesObeyed, RulesAreReady DEF Constraints
  <2>2. Guarded(s) <=> Obeys(s)
    BY <1>2, ObeysTheRules, Zenon
  <2>3. Follows(s) <=> s[1] = problem.initial /\ Permits(s) /\ Writes(s)
    BY <1>2, FollowsTheRules, Zenon
  <2> QED
    BY <2>1, <2>2, <2>3
<1>3. Constraints(problem.rules, X) => CycleBounds(X)
  BY DEF Constraints
<1>4. ASSUME CycleBounds(X) PROVE ~ Malformed
  BY <1>4, NothingMalformed
<1>5. ASSUME NEW s \in Trajectories, s[1] = problem.initial PROVE ~ InitialUnresolved
  BY <1>5, HorizonAssumption, EventAssumption DEF Trajectories, InitialUnresolved
<1> HIDE DEF Ordinary, Guarded, Permits, Writes
<1>6. ASSUME Constraints(problem.rules, X), Explained PROVE Lawful
  <2>1. PICK s \in Trajectories : Follows(s) /\ Obeys(s)
    BY <1>6 DEF Explained
  <2> QED
    BY <1>1, <1>2, <1>3, <1>6, <2>1
<1>7. ASSUME Lawful PROVE Constraints(problem.rules, X) /\ Explained
  <2>1. CycleBounds(X)
    BY <1>1, <1>7
  <2>2. PICK s \in Trajectories : s[1] = problem.initial /\ Ordinary(s) /\ Guarded(s) /\ Permits(s) /\ Writes(s)
    BY <1>1, <1>7
  <2>3. Constraints(problem.rules, X) /\ Obeys(s) /\ Follows(s)
    BY <1>2, <2>1, <2>2
  <2>4. ~ InitialUnresolved /\ ~ Malformed
    BY <1>4, <1>5, <2>1, <2>2
  <2> QED
    BY <2>3, <2>4 DEF Explained
<1> QED
  BY <1>6, <1>7

LEMMA LawfulWhenReturned == IInv /\ HInv => CompletionIsLawful
BY ExplainedIsLawful DEF IInv, HInv, FeasibleIffExplained, CompletionIsLawful

-----------------------------------------------------------------------------
(* The report of a completed trace. *)

\* The recorded steps give back the states that the simulation went through.
Remembered ==
    /\ phase = "collect" => steps = << >>
    /\ phase \in {"cycle", "write", "feasible"} =>
        /\ \A i \in DOMAIN steps : steps[i].cycle < cycle
        /\ \A t \in 0 .. cycle : StateBefore(t) = IF t + 1 <= Len(pre) THEN pre[t + 1] ELSE state

\* What the steps say does not change while they do not.
LEMMA StateBeforeKept ==
    ASSUME problem' = problem, steps' = steps, NEW t
    PROVE  StateBefore(t)' = StateBefore(t)
BY DEF StateBefore

\* The last of some steps before cycle t.
LastIn(Earlier, q, initial) ==
    IF Earlier = {} THEN initial ELSE q[CHOOSE i \in Earlier : \A j \in Earlier : j <= i].after

LatestOf(q, initial, t) == LastIn({i \in DOMAIN q : q[i].cycle < t}, q, initial)

LEMMA NoLatest ==
    ASSUME NEW q, NEW initial, NEW t, \A i \in DOMAIN q : ~ (q[i].cycle < t)
    PROVE  LatestOf(q, initial, t) = initial
<1>1. {i \in DOMAIN q : q[i].cycle < t} = {}
  OBVIOUS
<1> QED
  BY <1>1 DEF LatestOf, LastIn

IsLatest(q, t, i) ==
    /\ DOMAIN q \subseteq Int /\ i \in DOMAIN q
    /\ q[i].cycle < t /\ \A j \in DOMAIN q : q[j].cycle < t => j <= i

LEMMA TheLatest ==
    ASSUME NEW q, NEW initial, NEW t, NEW i, IsLatest(q, t, i)
    PROVE  LatestOf(q, initial, t) = q[i].after
<1> DEFINE E == {j \in DOMAIN q : q[j].cycle < t}
           last == CHOOSE k \in E : \A j \in E : j <= k
<1>1. i \in E /\ \A j \in E : j <= i /\ j \in Int
  BY DEF IsLatest
<1>2. LatestOf(q, initial, t) = q[last].after
  BY <1>1 DEF LatestOf, LastIn
<1> HIDE DEF E
<1>3. last \in E /\ \A j \in E : j <= last
  BY <1>1
<1>4. last = i
  <2> HIDE DEF last
  <2> QED
    BY <1>1, <1>3
<1> QED
  BY <1>2, <1>4

\* One more step only counts after its cycle.
LEMMA LatestAppended ==
    ASSUME NEW n \in Nat, NEW q, DOMAIN q = 1 .. n, NEW r, DOMAIN r = 1 .. n + 1,
           \A i \in 1 .. n : r[i] = q[i], NEW initial, NEW t, ~ (r[n + 1].cycle < t)
    PROVE  LatestOf(r, initial, t) = LatestOf(q, initial, t)
<1> DEFINE E == {j \in DOMAIN q : q[j].cycle < t}
<1>1. CASE E = {}
  <2>1. \A i \in DOMAIN q : ~ (q[i].cycle < t)
    BY <1>1
  <2>2. \A i \in DOMAIN r : ~ (r[i].cycle < t)
    BY <2>1
  <2> HIDE DEF E
  <2> QED
    BY <2>1, <2>2, NoLatest
<1>2. CASE E # {}
  <2> DEFINE G == {n - i : i \in E}
  <2>1. G \in SUBSET Nat /\ G # {}
    BY <1>2
  <2>2. PICK g \in G : \A h \in G : g <= h
    <3> HIDE DEF G
    <3> QED
      BY <2>1, LeastNatural
  <2>3. PICK i \in E : g = n - i
    BY <2>2
  <2>4. ASSUME NEW j \in E PROVE j <= i
    <3>1. n - j \in G /\ n - i <= n - j
      BY <2>2, <2>3
    <3> QED
      BY <3>1
  <2>5. i \in 1 .. n /\ IsLatest(q, t, i)
    BY <2>3, <2>4 DEF IsLatest
  <2>6. IsLatest(r, t, i)
    BY <2>5 DEF IsLatest
  <2>7. LatestOf(q, initial, t) = q[i].after
    BY <2>5, TheLatest
  <2>8. LatestOf(r, initial, t) = r[i].after
    BY <2>6, TheLatest
  <2> QED
    BY <2>5, <2>7, <2>8
<1> QED
  BY <1>1, <1>2

LEMMA EndCycleRemembers == ASSUME IInv, HInv, Remembered, EndCycle PROVE Remembered'
<1> DEFINE n == Len(steps)
           Step == [cycle : 0 .. Horizon, before : [Cell -> Value], after : [Cell -> Value]]
<1>1. /\ phase = "write" /\ phase' = "cycle" /\ cycle' = cycle + 1 /\ cycle \in 0 .. Horizon
      /\ Len(pre) = cycle + 1 /\ pre' = pre /\ state' = state /\ problem' = problem
      /\ before = pre[cycle + 1] /\ Horizon \in Nat
  BY HorizonAssumption DEF EndCycle, IInv, TypeOK, HalfWritten, PreIsPerCycle, HInv, Recorded
<1>2. \A i \in DOMAIN steps : steps[i].cycle < cycle
  BY <1>1 DEF Remembered
<1>3. \A t \in 0 .. cycle : StateBefore(t) = pre[t + 1]
  BY <1>1 DEF Remembered
<1>4. n \in Nat /\ DOMAIN steps = 1 .. n /\ \A i \in 1 .. n : steps[i].cycle \in Int
  <2>1. steps \in Seq(Step)
    BY DEF IInv, TypeOK
  <2>2. \A x \in Step : x.cycle \in Int
    OBVIOUS
  <2> HIDE DEF Step
  <2> QED
    BY <2>1, <2>2
<1>5. \A t : StateBefore(t) = LatestOf(steps, problem.initial, t)
  BY Zenon DEF StateBefore, LatestOf, LastIn
<1>6. \A t : StateBefore(t)' = LatestOf(steps', problem'.initial, t)
  BY Zenon DEF StateBefore, LatestOf, LastIn
<1>7. CASE ActiveAt(cycle)
  <2> DEFINE new == [cycle |-> cycle, before |-> before, after |-> state]
  <2>1. steps' = Append(steps, new)
    BY <1>7 DEF EndCycle
  <2>2. /\ DOMAIN steps' = 1 .. n + 1 /\ steps'[n + 1] = new
        /\ \A i \in 1 .. n : steps'[i] = steps[i]
    <3>1. steps \in Seq(Step)
      BY DEF IInv, TypeOK
    <3>2. steps \in Seq(Step \cup {new})
      <4> HIDE DEF Step, new
      <4> QED
        BY <3>1
    <3> HIDE DEF Step, new
    <3> QED
      BY <1>4, <2>1, <3>2
  <2>3. new.cycle = cycle /\ new.after = state
    OBVIOUS
  <2> HIDE DEF new, n
  <2>4. ASSUME NEW t \in 0 .. cycle PROVE StateBefore(t)' = pre[t + 1]
    <3>1. ~ (steps'[n + 1].cycle < t)
      BY <1>1, <2>2, <2>3
    <3>2. LatestOf(steps', problem.initial, t) = LatestOf(steps, problem.initial, t)
      BY <1>4, <2>2, <3>1, LatestAppended
    <3> QED
      BY <1>1, <1>3, <1>5, <1>6, <3>2
  <2>5. ASSUME NEW i \in 1 .. n + 1 PROVE steps'[i].cycle < cycle + 1
    <3>1. CASE i = n + 1
      BY <1>1, <2>2, <2>3, <3>1
    <3>2. CASE i # n + 1
      <4>1. i \in 1 .. n /\ steps'[i] = steps[i]
        BY <1>4, <2>2, <3>2
      <4>2. steps[i].cycle < cycle /\ steps[i].cycle \in Int
        BY <1>2, <1>4, <4>1
      <4> QED
        BY <1>1, <4>1, <4>2
    <3> QED
      BY <3>1, <3>2
  <2>6. ASSUME NEW t, t = cycle + 1 PROVE StateBefore(t)' = state
    <3>1. n + 1 \in Nat /\ n + 1 \in 1 .. n + 1 /\ \A j \in 1 .. n + 1 : j <= n + 1
      BY <1>4
    <3>2. LatestOf(steps', problem.initial, t) = steps'[n + 1].after
      <4>1. \A i \in 1 .. n + 1 : steps'[i].cycle < t
        BY <2>5, <2>6
      <4>2. ASSUME NEW m, m = n + 1 PROVE LatestOf(steps', problem.initial, t) = steps'[m].after
        <5>1. IsLatest(steps', t, m)
          BY <2>2, <3>1, <4>1, <4>2 DEF IsLatest
        <5> QED
          BY <5>1, TheLatest
      <4> QED
        BY <4>2
    <3> QED
      BY <1>1, <1>6, <2>2, <2>3, <3>2
  <2> QED
    <3>1. ASSUME NEW t \in 0 .. cycle + 1
          PROVE  StateBefore(t)' = IF t + 1 <= Len(pre') THEN pre'[t + 1] ELSE state'
      <4>1. CASE t \in 0 .. cycle
        BY <1>1, <2>4, <4>1
      <4>2. CASE t = cycle + 1
        BY <1>1, <2>6, <4>2
      <4> QED
        BY <1>1, <4>1, <4>2
    <3> QED
      BY <1>1, <2>2, <2>5, <3>1 DEF Remembered
<1>8. CASE ~ ActiveAt(cycle)
  <2>1. steps' = steps
    BY <1>8 DEF EndCycle
  <2>2. state = before
    <3>1. \A c \in Cell : WritesTo(c, cycle) = {}
      BY <1>8 DEF ActiveAt, WritesTo
    <3>2. \A c \in Cell : state[c] = before[c]
      BY <1>1, <3>1 DEF IInv, HalfWritten
    <3>3. state \in [Cell -> Value] /\ before \in [Cell -> Value]
      BY <1>1 DEF IInv, HalfWritten, TypeOK
    <3> QED
      BY <3>2, <3>3
  <2>3. StateBefore(cycle + 1) = StateBefore(cycle)
    <3>1. \A i \in DOMAIN steps : steps[i].cycle < cycle + 1 <=> steps[i].cycle < cycle
      BY <1>1, <1>2, <1>4
    <3>2. {i \in DOMAIN steps : steps[i].cycle < cycle + 1} = {i \in DOMAIN steps : steps[i].cycle < cycle}
      BY <3>1, Zenon
    <3>3. LatestOf(steps, problem.initial, cycle + 1) = LatestOf(steps, problem.initial, cycle)
      BY <3>2 DEF LatestOf
    <3> QED
      BY <1>5, <3>3
  <2>4. \A t \in 0 .. cycle : StateBefore(t)' = pre[t + 1]
    BY <1>1, <1>3, <2>1, StateBeforeKept
  <2>5. ASSUME NEW t, t = cycle + 1 PROVE StateBefore(t)' = state
    <3>1. StateBefore(t)' = StateBefore(t)
      BY <1>1, <2>1, StateBeforeKept
    <3>2. StateBefore(cycle) = pre[cycle + 1]
      BY <1>1, <1>3
    <3> QED
      BY <1>1, <2>2, <2>3, <2>5, <3>1, <3>2
  <2>6. \A i \in DOMAIN steps : steps[i].cycle < cycle + 1
    BY <1>1, <1>2, <1>4
  <2> QED
    <3>1. ASSUME NEW t \in 0 .. cycle + 1
          PROVE  StateBefore(t)' = IF t + 1 <= Len(pre') THEN pre'[t + 1] ELSE state'
      <4>1. CASE t \in 0 .. cycle
        BY <1>1, <2>4, <4>1
      <4>2. CASE t = cycle + 1
        BY <1>1, <2>5, <4>2
      <4> QED
        BY <1>1, <4>1, <4>2
    <3> QED
      BY <1>1, <2>1, <2>6, <3>1 DEF Remembered
<1> QED
  BY <1>7, <1>8

LEMMA StepsRemember == ASSUME IInv, HInv, Remembered, [Next]_vars PROVE Remembered'
<1>1. CASE Collect
  <2>1. /\ cycle' = 0 /\ state' = problem.initial /\ problem' = problem /\ steps' = << >> /\ pre' = pre
        /\ Len(pre) = 0
    BY <1>1 DEF Collect, IInv, Untouched, PreIsPerCycle, Remembered
  <2>2. StateBefore(0)' = state'
    BY <2>1 DEF StateBefore
  <2>3. phase' # "collect"
    BY <1>1 DEF Collect
  <2> QED
    BY <2>1, <2>2, <2>3 DEF Remembered
<1>2. CASE BeginCycle
  <2>1. /\ phase = "cycle" /\ phase' # "collect" /\ cycle' = cycle /\ state' = state /\ problem' = problem
        /\ steps' = steps /\ pre' = Append(pre, state) /\ Len(pre) = cycle /\ cycle \in Nat
    BY <1>2, HorizonAssumption DEF BeginCycle, IInv, TypeOK, PreIsPerCycle
  <2>2. /\ pre \in Seq([Cell -> Value]) /\ state \in [Cell -> Value]
    BY <2>1 DEF IInv, TypeOK
  <2>3. /\ Len(pre') = cycle + 1 /\ pre'[cycle + 1] = state
        /\ \A t \in 1 .. cycle : pre'[t] = pre[t]
    BY <2>1, <2>2
  <2>4. \A t \in 0 .. cycle : StateBefore(t)' = StateBefore(t)
    BY <2>1, StateBeforeKept
  <2>5. \A t \in 0 .. cycle : StateBefore(t) = IF t + 1 <= cycle THEN pre[t + 1] ELSE state
    BY <2>1 DEF Remembered
  <2>6. ASSUME NEW t \in 0 .. cycle PROVE StateBefore(t)' = pre'[t + 1] /\ t + 1 <= Len(pre')
    <3>1. CASE t < cycle
      BY <2>1, <2>3, <2>4, <2>5, <3>1
    <3>2. CASE t = cycle
      BY <2>1, <2>3, <2>4, <2>5, <3>2
    <3> QED
      BY <2>1, <3>1, <3>2
  <2> QED
    BY <2>1, <2>6 DEF Remembered
<1>3. CASE WriteCell
  <2>1. /\ phase = "write" /\ phase' # "collect" /\ cycle' = cycle /\ problem' = problem
        /\ steps' = steps /\ pre' = pre /\ Len(pre) = cycle + 1 /\ cycle \in Nat
    BY <1>3, HorizonAssumption DEF WriteCell, IInv, TypeOK, PreIsPerCycle
  <2>2. \A t \in 0 .. cycle : StateBefore(t)' = StateBefore(t)
    BY <2>1, StateBeforeKept
  <2> QED
    BY <2>1, <2>2 DEF Remembered
<1>4. CASE EndCycle
  BY <1>4, EndCycleRemembers
<1>5. CASE CheckGuards
  <2>1. /\ phase = "cycle" /\ phase' # "collect"
        /\ UNCHANGED <<problem, cycle, state, before, pending, pre, steps>>
    BY <1>5 DEF CheckGuards
  <2>2. \A t \in 0 .. cycle : StateBefore(t)' = StateBefore(t)
    BY <2>1, StateBeforeKept
  <2> QED
    BY <2>1, <2>2 DEF Remembered
<1>6. CASE UNCHANGED vars
  <2>1. UNCHANGED <<problem, phase, cycle, state, before, pending, pre, steps>>
    BY <1>6 DEF vars
  <2>2. \A t \in 0 .. cycle : StateBefore(t)' = StateBefore(t)
    BY <2>1, StateBeforeKept
  <2> QED
    BY <2>1, <2>2 DEF Remembered
<1> QED
  BY <1>1, <1>2, <1>3, <1>4, <1>5, <1>6 DEF Next, Terminated

LEMMA RememberedAlways == Spec => [](IInv /\ HInv /\ Remembered)
<1>1. Init => Remembered
  BY DEF Init, Remembered
<1> QED
  BY <1>1, StepsRemember, HistoryInvariance, PTL DEF Spec

\* Once feasible: the one trajectory, its recorded part and the states of the report.
LEMMA ReportedStates ==
    ASSUME IInv, HInv, Remembered, phase = "feasible"
    PROVE  \E s \in Trajectories :
              /\ Follows(s) /\ Obeys(s)
              /\ \A t \in 0 .. Horizon : pre[t + 1] = s[t + 1] /\ StateBefore(t) = s[t + 1]
              /\ StateBefore(Horizon + 1) = s[Horizon + 2]
<1> DEFINE only == Append(pre, state)
<1>1. cycle = Horizon + 1 /\ Len(pre) = Horizon + 1 /\ Horizon \in Nat
  BY HorizonAssumption DEF HInv, Recorded
<1>2. only \in Trajectories /\ \A s \in Trajectories : Follows(s) => s = only
  BY <1>1, OnlyTrajectory DEF HInv
<1>3. PICK s \in Trajectories : Follows(s) /\ Obeys(s)
  BY DEF HInv, FeasibleIffExplained, Returned, Explained
<1>4. s = only
  BY <1>2, <1>3
<1>5. /\ \A t \in 1 .. Horizon + 1 : only[t] = pre[t]
      /\ only[Horizon + 2] = state
  <2>1. pre \in Seq([Cell -> Value]) /\ state \in [Cell -> Value]
    BY DEF IInv, TypeOK
  <2> QED
    BY <1>1, <2>1
<1> HIDE DEF only
<1>6. \A t \in 0 .. Horizon + 1 : StateBefore(t) = IF t + 1 <= Horizon + 1 THEN pre[t + 1] ELSE state
  BY <1>1 DEF Remembered
<1>7. \A t \in 0 .. Horizon : pre[t + 1] = s[t + 1] /\ StateBefore(t) = s[t + 1]
  BY <1>1, <1>4, <1>5, <1>6
<1>8. StateBefore(Horizon + 1) = s[Horizon + 2]
  BY <1>1, <1>4, <1>5, <1>6
<1> QED
  BY <1>3, <1>7, <1>8

\* What is reported is what fires, and for a guarded rule may.
LEMMA ReportedFirings ==
    ASSUME CycleBounds(X), NEW rule, Ready(rule), NEW s,
           \A t \in 0 .. Horizon : StateBefore(t) = s[t + 1]
    PROVE  Reported(rule) = {f \in Firings(rule) : rule.guarded => Permitted(rule, s, f)}
<1> DEFINE S(f) == StatePredicatesHold(Predicates(rule, X, f))
           R(k) == rule.requirements[k]
<1>1. ASSUME NEW f \in Firings(rule)
      PROVE  S(f) <=> Permitted(rule, s, f)
  <2> DEFINE p(k) == [cycle |-> X[f[R(k).at]].cycle, state |-> R(k).state, op |-> R(k).op,
                      expected |-> Eval(R(k).value, f, X)]
             C(k) == Compare(R(k).op, s[X[f[R(k).at]].cycle + 1][R(k).state], Eval(R(k).value, f, X))
  <2>1. /\ DOMAIN Predicates(rule, X, f) = DOMAIN rule.requirements
        /\ \A k \in DOMAIN rule.requirements : Predicates(rule, X, f)[k] = p(k)
    BY DEF Predicates
  <2>2. f \in [Roles(rule) -> Event] /\ \A r \in Roles(rule) : X[f[r]].occurs
    <3>1. f \in [Roles(rule) -> {e \in Event : X[e].occurs}]
      BY Zenon DEF Firings, Roles
    <3> QED
      BY <3>1
  <2>3. ASSUME NEW k \in DOMAIN rule.requirements
        PROVE  /\ p(k).cycle # Unknown /\ p(k).expected # Unknown
               /\ Compare(p(k).op, StateBefore(p(k).cycle)[p(k).state], p(k).expected) <=> C(k)
    <3>1. R(k).at \in Roles(rule)
      BY DEF Ready, WellFormed, Roles
    <3>2. X[f[R(k).at]].cycle \in 0 .. Horizon
      BY <3>1, FiringsAreTimed DEF ValidCycle
    <3>3. Eval(R(k).value, f, X) \in Value
      BY <2>2, Evaluated
    <3>4. StateBefore(X[f[R(k).at]].cycle) = s[X[f[R(k).at]].cycle + 1]
      BY <3>2
    <3> QED
      BY <3>2, <3>3, <3>4, EventAssumption
  <2> HIDE DEF p, C
  <2>4. S(f) <=> \A k \in DOMAIN rule.requirements : C(k)
    BY <2>1, <2>3 DEF StatePredicatesHold
  <2> QED
    BY <2>4 DEF C, Permitted
<1>2. \A f : f \in Firings(rule) <=> f \in Instances(rule) /\ Active(rule, X, f)
  BY FiringsAreActive, InstancesAreComplete DEF Ready
<1>3. \A f : f \in Reported(rule) <=> f \in Instances(rule) /\ Active(rule, X, f) /\ (rule.guarded => S(f))
  BY DEF Reported, X
<1> HIDE DEF S
<1> QED
  BY <1>1, <1>2, <1>3

LEMMA ReportIsExplained == IInv /\ HInv /\ Remembered => ReportExplainsTrace
<1> SUFFICES ASSUME IInv, HInv, Remembered, phase = "feasible", problem.rules # {},
                    Constraints(problem.rules, X)
             PROVE  ReportExplainsTrace
  BY DEF ReportExplainsTrace
<1>1. PICK s \in Trajectories :
          /\ Follows(s) /\ Obeys(s)
          /\ \A t \in 0 .. Horizon : pre[t + 1] = s[t + 1] /\ StateBefore(t) = s[t + 1]
          /\ StateBefore(Horizon + 1) = s[Horizon + 2]
  BY ReportedStates
<1>2. problem \in Problem /\ CycleBounds(X) /\ Horizon \in Nat
  BY HorizonAssumption DEF IInv, Constraints
<1>3. ASSUME NEW rule \in problem.rules
      PROVE  Ready(rule) /\ Reported(rule) = {f \in Firings(rule) : rule.guarded => Permitted(rule, s, f)}
  <2>1. Ready(rule)
    BY <1>2, RulesAreReady
  <2> QED
    BY <1>1, <1>2, <2>1, ReportedFirings
<1>4. ASSUME NEW rule \in problem.rules, rule.exact, NEW o \in Outputs(rule), Scope(rule, X, o)
      PROVE  \E c \in Reported(rule) : o = OutputOf(rule, c)
  <2>1. Accounts(rule, s)
    <3>1. CASE rule.guarded
      BY <1>1, <1>2, <1>4, <3>1, ObeysTheRules
    <3>2. CASE ~ rule.guarded
      BY <1>3, <1>4, <3>2, PlainRulesObeyed DEF Constraints
    <3> QED
      BY <3>1, <3>2
  <2>2. PICK i \in SupportsOf(rule, o) :
            /\ Supporting(rule, X, i, Both(i, o))
            /\ rule.guarded => Permitted(rule, s, Both(i, o))
    BY <1>3, <1>4, <2>1, AccountsIsSupport
  <2>3. /\ Both(i, o) \in Complete(rule) /\ InputOf(rule, Both(i, o)) = i
        /\ OutputOf(rule, Both(i, o)) = o
    BY <1>3, SidesComplete DEF SupportsOf, Outputs, Ready
  <2>4. Eval(rule.output_when, Both(i, o), X) = Eval(rule.output_when, o, X)
    <3>1. Occur(X, i) /\ Occur(X, o)
      BY <1>4, <2>2 DEF Supporting, Antecedent, Scope
    <3>2. Both(i, o) \in [Roles(rule) -> Event] /\ \A r \in Roles(rule) : X[Both(i, o)[r]].occurs
      BY <2>3, <3>1, SidesOccur DEF Complete
    <3> QED
      BY <1>3, <2>3, <3>2, Evaluated
  <2>5. Active(rule, X, Both(i, o))
    BY <1>4, <2>2, <2>3, <2>4 DEF Active, Supporting, Alternative, Scope
  <2>6. Both(i, o) \in Firings(rule)
    BY <1>3, <2>3, <2>5, FiringsAreActive
  <2> QED
    BY <1>3, <2>2, <2>3, <2>6
<1>5. ASSUME NEW t \in 0 .. Horizon, NEW c \in Cell, StateBefore(t)[c] # StateBefore(t + 1)[c]
      PROVE  \E rule \in problem.rules : \E f \in Reported(rule) : \E u \in rule.updates :
                u.state = c /\ X[f[u.at]].cycle = t
  <2>1. StateBefore(t + 1) = s[t + 2]
    <3>1. CASE t = Horizon
      BY <1>1, <3>1
    <3>2. CASE t # Horizon
      <4>1. t + 1 \in 0 .. Horizon /\ (t + 1) + 1 = t + 2
        BY <1>2, <3>2
      <4> QED
        BY <1>1, <4>1
    <3> QED
      BY <3>1, <3>2
  <2>2. s[t + 2][c] # s[t + 1][c]
    BY <1>1, <1>5, <2>1
  <2>3. PICK w \in Written : w[1] = c /\ w[2] = t
    BY <1>1, <1>2, <2>2, FollowsTheRules
  <2>4. PICK rule \in problem.rules : \E f \in Firings(rule) : \E u \in rule.updates :
            w = <<u.state, X[f[u.at]].cycle, Eval(u.value, f, X)>>
    BY DEF Written
  <2>5. PICK f \in Firings(rule), u \in rule.updates :
            w = <<u.state, X[f[u.at]].cycle, Eval(u.value, f, X)>>
    BY <2>4
  <2>6. ~ rule.guarded
    BY <1>3, <2>5 DEF Ready, WellFormed
  <2> QED
    BY <1>3, <2>3, <2>5, <2>6
<1>6. ASSUME NEW rule \in problem.rules, NEW f \in Reported(rule)
      PROVE  Permitted(rule, pre, f)
  <2>1. f \in Firings(rule) /\ Permitted(rule, s, f)
    BY <1>1, <1>2, <1>3, FollowsTheRules
  <2>2. ASSUME NEW k \in DOMAIN rule.requirements
        PROVE  pre[X[f[rule.requirements[k].at]].cycle + 1] = s[X[f[rule.requirements[k].at]].cycle + 1]
    <3>1. rule.requirements[k].at \in Roles(rule)
      BY <1>3 DEF Ready, WellFormed, Roles
    <3>2. X[f[rule.requirements[k].at]].cycle \in 0 .. Horizon
      BY <1>2, <1>3, <2>1, <3>1, FiringsAreTimed DEF ValidCycle
    <3> QED
      BY <1>1, <3>2
  <2> QED
    BY <2>1, <2>2 DEF Permitted
<1> QED
  BY <1>4, <1>5, <1>6, Zenon DEF ReportExplainsTrace

-----------------------------------------------------------------------------
(* The theorems. *)

\* Cells hold evaluated values of their sort, and every recorded step is a whole
\* state, for every problem.
THEOREM TypeCorrect == Spec => []TypeOK
BY Invariance, PTL DEF IInv

\* check_state_semantics accepts an assignment exactly when some trajectory of states
\* explains it: every requirement holds before its cycle, all the writes of a cycle take
\* effect together, unwritten cells keep their values, and every guarded transition
\* fires and is supported.  The trajectory is the one the simulation records.
THEOREM AcceptedIffExplained == Spec => []FeasibleIffExplained
BY HistoryInvariance, PTL DEF HInv

\* "This mirrors check_state_semantics" (`_state_smt_constraints`): when everything is
\* evaluated, the assertions have a model exactly for the assignments that the simulation
\* accepts, and its snapshots are the pre-states that the simulation went through.
THEOREM AssertionsMirror == Spec => []EncodingMirrorsSimulation
BY HistoryInvariance, MirroredWhenReturned, PTL

\* `_instantiate_transformation` and check_state_semantics together accept an execution
\* exactly when it obeys the rules as the Transformation class documents them, for every
\* set of rules: no binding of events to roles is missed or made twice, and plain rules
\* and state-guarded ones do not get in each other's way.
THEOREM InstancesAreLawful == Spec => []CompletionIsLawful
BY HistoryInvariance, LawfulWhenReturned, PTL

\* `_active_transformations` (solver/completion.py): the report of a feasible execution
\* explains it.  Every output of an exact rule has a reported firing, every change of a
\* cell a reported writer, and what is reported was permitted in the state that the
\* simulation recorded before its cycle.
THEOREM ReportsExplain == Spec => []ReportExplainsTrace
BY RememberedAlways, ReportIsExplained, PTL

\* Whatever is refused and whenever, the states the simulation goes through are
\* those of whole cycles: requirements read the state before the cycle, its writes
\* take effect together and agree, unwritten cells stutter.
THEOREM Implements == Spec => CyclesAreAtomic
<1> USE DEF Atomic!Init
<1>1. Init => Atomic!Init
  BY DEF Init
<1>2. IInv /\ [Next]_vars => [Atomic!Cycle]_<<problem, (IF phase = "write" \/
        (phase = "infeasible" /\ cycle <= Horizon) THEN before ELSE state), cycle>>
  <2> SUFFICES ASSUME IInv, [Next]_vars
               PROVE  [Atomic!Cycle]_<<problem, (IF phase = "write" \/
                        (phase = "infeasible" /\ cycle <= Horizon) THEN before ELSE state), cycle>>
    OBVIOUS
  <2>1. CASE Collect
    BY <2>1 DEF Collect, IInv, Untouched
  <2>2. CASE BeginCycle
    BY <2>2 DEF BeginCycle
  <2>3. CASE WriteCell
    BY <2>3 DEF WriteCell, IInv, HalfWritten
  <2>4. CASE EndCycle
    <3>1. /\ phase = "write" /\ pending = {} /\ cycle' = cycle + 1 /\ phase' = "cycle"
          /\ UNCHANGED <<problem, state, before, pending, pre>>
      BY <2>4 DEF EndCycle
    <3>2. /\ cycle <= Horizon
          /\ \A r \in RequirementsAt(cycle) : Compare(r.op, before[r.state], r.expected)
          /\ \A u \in UpdatesAt(cycle) : state[u.state] = u.value
          /\ \A c \in Cell : WritesTo(c, cycle) = {} => state[c] = before[c]
      BY <3>1 DEF IInv, HalfWritten
    <3>3. Atomic!RequiredAt(cycle) = RequirementsAt(cycle)
      BY DEF Atomic!RequiredAt, RequirementsAt
    <3>4. Atomic!WrittenAt(cycle) = UpdatesAt(cycle)
      BY DEF Atomic!WrittenAt, UpdatesAt
    <3>5. \A c \in Cell : (\A u \in UpdatesAt(cycle) : u.state # c) => WritesTo(c, cycle) = {}
      BY DEF WritesTo
    <3>6. Atomic!Cycle
      BY <3>1, <3>2, <3>3, <3>4, <3>5 DEF Atomic!Cycle
    <3> QED
      BY <3>6
  <2>5. CASE CheckGuards
    BY <2>5, HorizonAssumption DEF CheckGuards
  <2>6. CASE UNCHANGED vars
    BY <2>6 DEF vars
  <2> QED
    BY <2>1, <2>2, <2>3, <2>4, <2>5, <2>6 DEF Next, Terminated
<1> QED
  BY <1>1, <1>2, Invariance, PTL DEF Spec, CyclesAreAtomic, Atomic!Spec
=============================================================================
