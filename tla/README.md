# A TLA+ model of µMCM

µMCM (`src/src/umcm`) explores the consistency of processor microarchitectures.
A module's behaviour is described by *transformations* (events that happen
together in order, under guards, with state updates); a trace with missing
events is completed by searching for transformation instances; the complete
trace is projected to an axiomatic execution graph, which a memory model (RVWMO)
allows or forbids. Specifications are composed from modules, abstracted
hierarchically, and searched for a witness of a litmus outcome.

The tool is one sequential Python program. What is hard in it is not
interleaving but *search*: several algorithms decide "is there an execution
such that ..." by enumeration with limits, ordering and early exits, and a
wrong answer looks exactly like a right one. The concurrency is in the objects
it reasons about: harts whose accesses may be reordered, caches and queues
whose transitions fire in the same cycle.

## 1. Inventory

| Component | Source (`src/src/umcm/`) | State it keeps | Operations | What makes it correct |
|---|---|---|---|---|
| RVWMO relations and axioms | `graph/rvwmo.py` | none; builds relations from a graph | validate, derive ppo, complete, judge | a graph is forbidden only if no global memory order explains it; the verdict depends on the graph alone |
| Global-order witness | `graph/rvwmo.py:336` | successor and in-degree tables, ready list | load, emit | an order exactly for acyclic relations; deterministic |
| Relation algebra and cycle search | `graph/relation.py` | DFS colour, path | union, compose, closure, find a labelled cycle | a reported cycle is a cycle, none is missed |
| Candidate executions | `graph/builder.py` | per-read sources, per-location orders | project, enumerate, complete | every execution the trace permits is enumerated, and no other |
| Model checking of a trace | `graph/checker.py` | the candidates judged so far | generic axioms, RVWMO axioms | allowed exactly if some candidate is |
| Bounded state semantics | `solver/state.py` | the state of all variables, per cycle | step, compare, guard | requirements read the state before the cycle, updates are simultaneous, everything else stutters |
| Problem construction | `solver/problem.py` | slots, instances, variables | instantiate transformations | every way to complete the trace is a valuation |
| Three-valued evaluation | `solver/evaluator.py` | none | evaluate | a decided value never changes when more is assigned |
| Finite-domain search | `solver/finite.py` | assignment, explored counter | backtrack | UNSAT only when the whole space was explored |
| Z3 backend | `solver/z3ctypes.py` | assertions, blocked models | CEGAR loop | agrees with the finite search |
| Trace completion | `solver/completion.py` | the completed trace | activate, re-check, materialize | the completed trace satisfies the specification |
| Module composition | `composition/engine.py`, `model.py` | modules loaded, the completion model with its owners | load, validate, connect, merge, encapsulate | nothing is shared between instances, private slots are out of reach |
| Parameterised composition | `composition/parameterization.py` | the context of roles | resolve roles, expand, render | instances of a template stay apart |
| Interface projection | `hierarchy/interface.py` | contracts of the modules | project | a module shows what its ports expose, nothing else |
| Hierarchical abstraction | `hierarchy/engine.py`, `model.py` | summaries, certificate | abstract, check refinement | an abstract event is justified by concrete ones |
| Architecture and realization search | `search/engine.py`, `model.py` | counters, the skeleton, the statuses of stages; in an attempt the input and the two completed traces | enumerate, filter, schedule, realize, bridge, merge, re-check | a verdict holds of every program and attempt it stands for; a realized witness is an execution the model judges as the skeleton |
| Transition coverage | `coverage/` | goals, cases, the query of a case | expand, compile probes, solve, conclude | covered means witnessed, uncovered means refuted for every declared input |
| IR and catalog | `ir/`, `serialization.py`, `provenance.py`, `errors.py` | typed data | validate, (de)serialize | ill-typed data is rejected |
| Command line | `cli.py` | none | parse arguments, call, print | exit codes follow the verdicts |
| YAML microarchitectures | `src/examples/`, `src/specs/` | data | - | - |

How the components interact: there are no threads, messages or persisted
files. A caller hands a component a value (a graph, a trace, a problem, a
search specification) and gets a result or an exception. The interactions that
matter are therefore *agreements*: the checker runs its witness loop and its
cycle search on the same relations; the SMT encoding and the Python simulation
give the same semantics to state; the candidate loop trusts the simulation to
reject; the completion re-derives guards the simulation has already judged; the
search trusts verdicts of all of them. Each agreement below is a property.

What is hard to test here, and where, is listed at its source line under
`hazards` in `PROJECT.json`: enumerations that stop at a limit, values changed
in place while others still refer to the old one, three-valued answers that are
read as two-valued, clauses that exclude more than the candidate they stand
for, duplicate edges in counters, verdicts over partly failed work.

## 2. Plan

In the order of importance to the verdicts users see.

1. **RVWMO** (done): `EdgeSets`, `Rvwmo`, `RvwmoCheck`, `RelationAxioms`;
   abstract specification: the load-value axiom over *all* global memory orders.
2. **Acyclicity and the global order** (done): `OrderRelations`,
   `TopologicalOrder`, `CycleSearch`, composed in `GlobalOrder`.
3. **Executions of a trace** (done): `ExecutionCandidates` on top of `Rvwmo`;
   abstract specification: the set of well-formed executions of the trace.
4. **State semantics and its instances** (done): `StateSimulation`, refined
   from `AtomicCycles`; `TransformationInstances`, `StateEncoding`.
5. **Solvers** (done): `Evaluation`, `Expressions`; `FiniteSearch`,
   `FiniteCompletion`; `CandidateRejection`; both composed in `Completion`.
6. **Search** (done): `BoundedPrograms` on top of `ExecutionCandidates`,
   `HierarchicalSearch`; `AttemptTraces` and `RealizationAttempt`, an attempt with
   its two child models.
7. **Composition, projection, abstraction** (done): `RoleExpansion`,
   `Composition`, `TraceAbstraction`, composed in `Hierarchy`;
   `ModelPreservation` on top of `ExecutionCandidates`.
8. **Coverage** (done): `Coverage`.
9. **Proofs** (done): every safety property above, in the order of the list.

## 3. Modules

An arrow leads from a module to those that build on it:

    EdgeSets -> Rvwmo -> RvwmoCheck
                  \-> RelationAxioms -> ExecutionCandidates
                        -> BoundedPrograms -> AttemptTraces -> RealizationAttempt
                        -> ModelPreservation
    EdgeSets -> OrderRelations -> TopologicalOrder, CycleSearch -> GlobalOrder
    Evaluation -> Expressions -> FiniteCompletion
                 FiniteSearch -^  \-> Completion
    StateSimulation -> StateEncoding, TransformationInstances
      \= implements AtomicCycles
    CandidateRejection ----^
    HierarchicalSearch
    Coverage
    RoleExpansion -> Composition -> Hierarchy
                TraceAbstraction -^

**`Rvwmo`, `RvwmoCheck`, `RelationAxioms`** (`graph/rvwmo.py`). `Rvwmo` has the
thirteen rules of preserved program order, one operator per rule, the
completion of a graph (`rfi`/`rfe`, `fr`, `gmo`), the validation of relations,
and the load-value, AMO-atomicity and LR/SC axioms. `RvwmoCheck` is the checker
as a state machine: validate, raise or derive; pick a global memory order or
report a cycle; judge. The source picks *one* order; the module picks any
linear extension, so its properties hold whatever `_topological_total_order`
does. `RelationAxioms` is the loadable part of a graph model, derived relations and
generic axioms, shared with the checker of traces.

**`OrderRelations`, `TopologicalOrder`, `CycleSearch`, `GlobalOrder`**. Kahn's
loop of `rvwmo.py:336` (in-degrees counted per relation and edge; smallest
ready node first), then `find_labeled_cycle` of `relation.py`, whose recursion
is an explicit stack of frames. `GlobalOrder` runs both on the same relations as
`check_rvwmo` does: `CompleteStep` until the loop is over, then `CheckStep`.

**`ExecutionCandidates`** (`graph/builder.py`, `graph/checker.py`). Sources of
every read, coherence orders per location, evidence in the trace, the limit
`max_candidates`, completion and judging of one candidate at a time, and the
verdict with its representative.

**`BoundedPrograms`** (`search/engine.py`). The programs the bounded generation
of the search enumerates, the reduction to programs whose first access is on the
first hart and address, the trace given to the checker, and the core-order filter on the
representative execution.

**`ModelPreservation`** (`hierarchy/engine.py:495`). A trace and its abstraction
go through `ExecutionCandidates` one after the other; the verdicts and the sets
of signatures are compared. Since the same module is used for a trace alone, the
run of `ExecutionCandidates` has both.

**`StateSimulation`, `AtomicCycles`, `StateEncoding`, `TransformationInstances`**
(`solver/state.py`, `solver/problem.py`, `solver/completion.py`,
`solver/z3ctypes.py`). `StateSimulation` collects the active requirements and
updates item by item, then goes through cycles: check requirements, check
conflicts, write cell by cell, then the guarded rules over the recorded
states. `AtomicCycles` is its promise: one step per cycle, all updates at
once, everything else unchanged. `TransformationInstances` turns rules into
the items of the simulation; `StateEncoding` is the same semantics as SMT
assertions, as the Z3 backend builds it.

**`Evaluation`, `Expressions`** (`solver/evaluator.py`, `ir/expression.py`,
`ir/sort.py`, `solver/z3ctypes.py`). An expression is the sequence of its nodes,
operands before the nodes they belong to, so that the recursion of the code over
the tree is a recursive function over the nodes (`ValueAt`). `Evaluation` is the
three-valued evaluator over integers, Booleans, locations and masks; a field is
what its event holds (`Held`), one that is absent gives unknown, and an operation
that Python or the evaluator refuses, like a division by zero, raises. A cycle is
not like the other fields: an event without one holds Python's `None`, which is a
value (`evaluator.py:81`-`89`). It equals no number, so a constraint on it is
decided, and it can be neither ordered nor computed with. (The explanation in
`src/docs/source-explanations/umcm/solver/evaluator.py.md:150` speaks of unknown
for both; the modules follow the code. `build_problem` gives a missing field a symbol
but leaves such an event without a cycle, `problem.py:168` and `:513`-`534`.)
`Expressions` adds what an expression is before it is evaluated: the
typing that the constructors enforce (`Typed`), its symbols and literals, the
replacement of roles by events (`Substituted`); and what it is when printed for
Z3 (`Meaning`): values of domain sorts become numbers, division becomes that of
SMT-LIB, ill-sorted terms are refused.

**`FiniteSearch`, `FiniteCompletion`** (`solver/finite.py`). `FiniteSearch` is the
backtracking with its counter of explored nodes, over the evaluator and an
abstract `StateFeasible`. `FiniteCompletion` collects the variables and domains of
a bounded problem, binds its rules to events, and gives the search the guarded
rules.

**`CandidateRejection`** (`solver/z3ctypes.py`): solve, minimise, re-check with
the simulation, block the candidate's clause, up to `MaxRejections` times.
libz3 is the environment: it may return any (any smallest) model.

**`Completion`** (`solver/completion.py`): `complete_problem`, which picks a backend,
lets it run (every step of `FiniteSearch` or of `CandidateRejection`), and makes the
status of the completion from its verdict, or fails with its error.

**`HierarchicalSearch`** (`search/engine.py`). `phase` is the place in
`run_hierarchical_search`: enumerating programs, between stages, in the loops
over schedules and configurations, reported, raised. One action for each exit
of each loop body: a skipped, passed-over or chosen program; a gap, an
undeclared stage; an attempt that raises, realizes or fails; giving a stage up;
concluding, or returning to the enumeration. Program verdicts and outcomes of
attempts are part of the input, since they are other components' answers.

**`AttemptTraces`, `RealizationAttempt`** (`search/engine.py`). The contents of
one attempt. `AttemptTraces` has the operators: the orders of the accesses by how
few communication edges they violate, the configurations, the injected input
trace, the obligations, the constraints on each child, the bridge with its
retiming, the merging and the trace that retired. `RealizationAttempt` has the
steps: the checker finds the skeleton (`ExecutionCandidates` itself), `Begin`
picks a schedule and a configuration, `Perform` lets the coherence child perform
an access, `AnswerCoherence` answers or gives up, `Retire` and `Show` build the
answer of the core child, `Merge` joins both, the checker runs again on what
retired, `Conclusion` compares. The child models are input data of the tool. The
coherence child is therefore a coherent memory with line permissions, together
with any traffic the added constraints permit, and the core child is *any*
completion of the constraints that the search adds.

**`Coverage`** (`coverage/engine.py`, `coverage/model.py`). A suite is validated,
its cases are prepared, selectors become goals; then for every goal and every
case the problem is copied, its probes are compiled into a query one by one,
and the case is missed, solved, refuted or left undecided. A case is given with
the *worlds* that solve its bounded problem: which events occur, which rules
match and are permitted by their guards, which cells are written from which
value to which. `Accepts` says which worlds satisfy a query, and it differs from
what the probes ask (`Achieves`) exactly where the code's query does.

**`RoleExpansion`, `Composition`** (`composition/`). `RoleExpansion` resolves
roles on a trace (matching, order, `distinct_by`, cardinality, copies, wrapping
queue indexes) and expands templates (`repeat`, `repeat_product`, rendering). A
rendered name is a sequence of the template's number and the values put in, so
names coincide exactly if template and values do; what a template expands to is a
family indexed by its declarations, each with the instance it is made for, in which
equal names are still two entries. `Composition` is
`compose_modules`, one action per role, module, connection, merged module and
generated rule, with every refusal as the step to `raised`. Of a module there
remain ports, internal types, slots, cells, rules with their event types
and cells, and constraints with the slots and events they name.

**`TraceAbstraction`, `Hierarchy`** (`hierarchy/`,
`cli.py`, `solver/completion.py`). Projection gives every event an owner and a
visibility: by the slots of the composition, by its annotations, else by its
type. Abstraction matches rules of roles, keeps or hides events, preserves the
constraints whose events remain, and certifies what it did; the refinement check
does it again. `Hierarchy` is the way of a trace through all of them as the
command line drives it: compose, complete (any slots selected, any open events
occurring), compose *again* on the completed trace, project, abstract, and check
a trace that may have been edited.

Every definition that models code is listed with its lines under `map` in
`PROJECT.json`.

## 4. Runs

| Run | What it shows |
|---|---|
| `rvwmo` | Verdicts do not depend on the chosen memory order (`WitnessIsIrrelevant`); *forbidden* means no global memory order satisfies the axioms (`ForbiddenMeansNoOrder`), the reference being the axioms quantified over all orders; *allowed* is coherent per location; AMO atomicity follows from the other axioms; full ordering is SC. |
| `global_order` | An order that is returned is the least linear extension and `None` means cyclic (`ReturnedOrderIsGmo`), a reported cycle is a simple closed path with the right labels, exactly one of the two loops finds something (`OrderXorCycle`), and both end (`VerdictIsReached`). |
| `execution_candidates` | *allowed* exactly if some well-formed execution passes all axioms; a refusal (`GraphError`) hides none; the reductions of the bounded program search lose no program RVWMO could forbid; an abstraction reported as preserving has the same executions with the same verdicts (`PreservedMeansSameExecutions`), though signatures are all that is compared. |
| `state_simulation` | The simulation accepts exactly what some trajectory of states explains, implements `AtomicCycles`, agrees with the SMT encoding; instances of transformations accept exactly the executions the documented rules do; the reported active transformations explain the trace with the pre-states the simulation used. |
| `completion` | Finite backend: UNSAT only after everything was covered, SAT with the first solution in domain order, UNKNOWN only when the limit was reached or something was unresolved; what the evaluator decides under a partial assignment never changes (`KnownIsFinal`); a rule bound to events says of them what it said of its roles, also where an event is called like a role (`BindingKeepsMeaning`); Z3 and the evaluator mean the same by an expression in the fragment they share (`EncodingAgrees`). Z3 backend: blocking rejected candidates loses no completion, and the witness is smallest. |
| `hierarchical_search` | What each report (witness, unrealizable, not found, exhausted) claims of the programs, schedules and configurations it stands for; every search ends (`ReportIsReached`). |
| `realization_attempt` | The first schedule never fails for a coherent memory (`FirstScheduleExplains`); a realized execution is forbidden if the outcome is, whatever coherence order the memory chose (`RealizedIsForbidden`); what retires is the skeleton with its verdict, and the merge never fails (`RetiresTheSkeleton`); obligations reported as met are, and the path evidence is real (`ReportIsTrue`). |
| `coverage` | A covered goal has a witness in a declared input, with the fewest hidden events over all inputs (`CoveredIsWitnessed`); a goal that some trace reaches, by a match that is the only one of its probe, is never reported uncovered, whatever goals came before (`UncoveredIsRefuted`). |
| `hierarchy` | Instances of templates never share a slot, cell or rule and equal items stay apart; the projection keeps what the owner's ports expose although it composes anew, and whatever a strict composition constrains (`ProjectionFollowsOwner`); surviving constraints keep their meaning; only justified abstractions pass the check. |

Three more runs are expected to end in a violation. Each states what a document
or comment of the repository says and shows that the code does otherwise:

* `amo_traces`: a trace with an AMO is refused (`GraphError`) although it has a
  well-formed execution; `builder.py:321` orders plain writes only.
* `candidate_required`: the clause that blocks a candidate leaves out the data
  of a *required* slot (`z3ctypes.py:421`), so it excludes other values too.
* `coverage_any_match`: `PATH_COVERAGE_V0.19.md:34`-`36` and `:92` call a goal
  uncovered if no trace has *one* matching activation, or update, that the state
  permits. The query adds the guards of *every* matching activation
  (`coverage/engine.py:361`-`376`) and the pre-state of every matching update
  (`:459`-`470`) to the problem, so that a reachable goal can be reported
  UNCOVERED: in a trace that takes the transition 0 to 1 and then writes 1 again,
  or in which a rule matches twice and its guard holds once.

The passing runs next to them use inputs without AMOs and with optional slots
only, or speak of traces in which a probe with a condition has one match
(`Unambiguous`): there the same properties hold.

Other places where the code does less than one might expect. They are part of
the modules, but no run is about them, since no text of the repository is
definite enough, nothing but the order of the data depends on them, or the
outcome is an error instead of a wrong answer:

* The core-order filter of the blind search looks at the representative
  execution of a program only (`search/engine.py:545`), so a program whose first
  forbidden execution fails it is given up although another one may pass.
* Values that only a state-guarded rule mentions are in no domain
  (`solver/finite.py:172`); UNSAT speaks of the domains as built.
* Values of a domain sort are numbered in the order of their texts
  (`z3ctypes.py:102`), so that an order between them, which only a state
  requirement can ask for (`z3ctypes.py:283`), need not be that of the simulation.
  `EncodingMirrorsSimulation` is checked with codes that keep the order.
* For Z3 division rounds to the side of the divisor, a missing field has no
  term, `same_block` ignores its block size, masks have no arithmetic and
  `mask_overlap` compares with an eight-bit zero (`z3ctypes.py:147`-`162`), while
  the evaluator floors, answers unknown or `None`, divides and computes with masks
  of any width (`evaluator.py:113`). `EncodingAgrees` leaves these out (`Portable`).
* The bridge of an attempt moves every cycle but 0 (`search/engine.py:1677`): a
  stage whose accesses start in cycle 0 would have one before its instruction.
  `ReportIsTrue` is checked with a start of 1, as in the checked-in searches, and
  proved of every start but 0, for programs of at most 20 operations: more, and
  the number of an instruction passes the cycles that the bridge adds.
* A later schedule may be realized with another coherence order than the
  skeleton's (`search/engine.py:2012` constrains sources and values); what
  `ReportIsTrue` says of coherence and from-read edges is limited to the first.
* A strict composition checks its own constraints only (`composition/engine.py:230`):
  those a module brings along (`composition/engine.py:209`) may name a private slot
  of another module. `ProjectionFollowsOwner` is about the former.
* A completed trace keeps all constraints of the partial trace but only the
  events that occur (`solver/completion.py:265`); a constraint on an event that does
  not, even one that says it does not, makes a feasible completion fail in
  validation. In `Hierarchy` this is the second outcome of `Complete`.
* A summary may take the id of an event that is hidden (`hierarchy/engine.py:366`),
  for only retained events are compared with it; constraints on the hidden event
  then speak of the summary. `ConstraintsKeepMeaning` is stated for abstractions
  without such names (`NewNames`).
* Order between the roles of a summary is compared between neighbours only, and
  an event without a cycle fits anywhere.
* A module with `repeat_product` and no `repeat` is not expanded but refused
  (`composition/engine.py:112`).
* Slots of a type that is public in one module are private in a module without
  a port of that type, and rules bind to them by type all the same.

### Bounds

* `rvwmo`: two harts with two accesses each. Every preserved-program-order
  rule relates two accesses of a hart (with at most one in between, which other
  rules and the location quantify over), and the classic shapes (SB, MP, LB, S,
  R, 2+2W, CoRR) need no more; LR/SC and AMOs and one or two locations are
  enumerated, then annotations, fences and dependencies.
* `global_order`: every irreflexive graph on four nodes; every graph on three
  nodes beside a second relation that shares edges with it, so the in-degree
  counts an edge twice. A four-node graph has branching, joins, two cycles that
  share a node, and a finished subtree met again.
* `execution_candidates`: traces of four accesses and up to two locations,
  values such that a read has no, one or two sources, evidence that picks,
  contradicts or is malformed; limit of 8 candidates, which some inputs exceed.
  The bounded programs have the parameters of the checked-in search
  (`src/examples/boom/search/v021.yaml`: 2 harts, 3 operations, 1 address, 2
  values). Pairs for the comparison: a message-passing shape with annotations, and
  two shapes where a read has two sources; the abstraction hides or adds evidence,
  drops an access or a commit, or loses an acquire or release.
* `state_simulation`: two cells, two values, cycles 0..2: a write and a read in
  the same cycle, before and after each other, two writes that agree or not, a
  cycle beyond the horizon or before 0, items that cannot be evaluated.
* `completion`, finite backend: four variables, two or three constraints over every kind of
  operator, node limits 5 and 1000: the small one ends many searches before they
  are complete, the large one none. Rules are bound to three events in three ways
  (two of the events are called like the roles, so that they are swapped or
  captured), with every operator, well typed or not, horizon 2. One recorded event has
  no cycle: constraints compare it, choose between it and a number, order it.
* `completion`, Z3 backend: two slots of two values; `MaxRejections` = 5 lies below
  the number of candidates Z3 may have to be refused, so the limit is reached.
* `hierarchical_search`: three programs, budgets 1..4, two stages, two
  schedules, two configurations: the budget ends before, with and after the
  enumeration; success comes at the first, a later or no attempt.
* `realization_attempt`: two harts; all programs of two operations on one
  location, those of three that store one value, some of three operations over
  two locations, and two of four operations whose outcome is forbidden although
  the memory may order their two stores either way: some sixty programs. Coherence stages with all 24 schedules,
  end-to-end stages with the first; every configuration. Accesses start in cycle 1
  with stride 9, so no two overlap.
* `coverage`: two inputs of one model, two events that may be hidden, up to two
  worlds in the first and two in the second input, one or two goals of up to two
  probes, so that a goal follows one that left requirements behind, witnesses of
  the two inputs compete, and an input has no binding, no solution or no answer. In
  the worlds a guarded rule matches never, once or twice, permitted or not, and the
  cell is written never, once or twice.
* `hierarchy`: two modules, up to three loads, a queue of two entries (so an
  index wraps), products of pairs, one connection or two. Each project differs
  from a usual one in one or two parts, so that every refusal is reached by
  itself; completion and projection go through all subsets of slots.

Deadlock checking is off where the module has no action for the finished
program (`RvwmoCheck`, `ModelPreservation`, `RealizationAttempt`, `Coverage`,
`Hierarchy`: one pass, then nothing). The others have an explicit step for it (`Terminated`, `Completed`).

### Fairness

Weak fairness of the whole next-state relation, twice: `WF_globalVars(GlobalNext)`
in `GlobalOrder` for `VerdictIsReached`, and `FairSpec` in `HierarchicalSearch` for
`ReportIsReached`. The code is a sequential loop that nothing blocks, so it takes
its next step; no strong fairness and no fairness of single actions is assumed.
In particular nothing is assumed of the outcomes of attempts: a search ends
because every loop moves on, not because a solver eventually succeeds. The other
runs check safety only: their loops are bounded by counters that the type
invariants bound.

## 5. Proofs

Eight modules hold theorems, for every value of the constants under the stated
assumptions (`ASSUME` in the component modules, evaluated by TLC on every run).
Where a proof would use induction it takes a least counterexample: a non-empty
set of naturals has a least element (`LeastNatural`), because the induction
theorems of the library cannot be instantiated by the provers.

* **`RvwmoProofs`**: the load-value verdict is the same for every linear
  extension (`WitnessIsIrrelevant`). The argument is `LatestIsLocal`: in an order
  that contains `ppo`, `rfe`, `co` and `fr`, whether a load reads the latest
  eligible write depends on its own hart's stores only. From it: a forbidden graph has no explanation
  (`IsaOrderContainsEdges`: an order that satisfies the ISA axioms contains every
  edge of the checker's union), allowed graphs are coherent, AMO atomicity is
  implied, and full preservation of program order gives SC.
* **`GlobalOrderProofs`**: the in-degree of a node counts exactly the pending
  edges of unemitted predecessors, with multiplicity; hence the order is a linear
  extension, `None` exactly for cyclic unions, and the least one. For the cycle
  search: the stack of the depth-first search is a path (`StackIsPath`), examined
  edges lead to nodes already entered (`ExaminedIsBehind`), finished nodes are
  closed under edges (`FinishedIsClosed`); hence a reported cycle is real and
  `None` means acyclic. The composition refines both loops, so `OrderXorCycle`
  follows from the two.
* **`StateSimulationProofs`**: the simulation implements `AtomicCycles`. The
  invariant `HalfWritten` says that during the writes of a cycle the store is
  the pre-state with exactly the finished cells replaced. `FeasibleIffExplained`
  needs two more: the pre-states taken so far obey the problem up to the current
  cycle (`Recorded`), and any trajectory that follows the writes agrees with them
  (`Forced`), so a refusal refutes every trajectory and not just the simulated
  one. `EncodingMirrorsSimulation` follows from the same two: a model of the
  assertions is, decoded, such a trajectory. Its assumption is that codes compare
  as the values do (`CodeAssumption`). For the rules, a firing is a complete
  binding whose instance is active (`FiringsAreActive`), plain and guarded items
  are taken apart rule by rule (`FollowsTheRules`, `ObeysTheRules`), and together
  they say what `Lawful` says (`ExplainedIsLawful`, whence `CompletionIsLawful`).
  The report reads its states from the recorded steps; that these give back the
  pre-states is an invariant of its own (`Remembered`), because a cycle with no
  active item leaves no step, and with it `ReportExplainsTrace` follows. Assumed
  of rules is what a `Transformation` checks when it is made (`WellFormed`) and
  that its expressions have values for events that occur (`Evaluates`); one part
  of the latter the code leaves open, a guard anchored at the inputs whose value
  refers to an output, and it is stated there. `state_simulation` checks both
  assumptions of its problems.
* **`CompletionProofs`**, finite search: everything lexicographically before the current
  assignment is dismissed (`BehindIsDismissed`). A constraint that prunes a partial
  assignment must be False of all that extend it, and this is proved of the
  evaluator, below. The counter passes the limit once, since every frame looks at
  it before its next value (`CallsWithinLimit`, whence `LimitIsKept`); a noted leaf
  is a real one (`NotedIsReal`), and the two give `UnknownIsForced`.
* **The evaluator**, in the same module. The recursion over an expression has one
  solution (`ValuationExists`, `ValuationAgrees`), so the value of a node is that of
  its operator on the values of its operands (`ValueEquation`), and what holds of
  every node is shown of the first for which it might not.
  - `KnownIsFinal`: with more symbols bound, a node keeps the value it has, gets one
    if it had none, or raises (`ValueRefines`), because no operator takes a decision
    back (`ApplyRefines`, `ChoiceRefines`). A well-typed constraint has a Boolean or
    none (`ValueKnown`), so there is no fifth verdict.
  - `BindingKeepsMeaning`: a written and a bound expression have the same nodes as
    soon as fields are replaced by what they hold (`SameNodes`), since renaming
    looks every role up once.
  - `EncodingAgrees`: the printed term of a node is the number of its value
    (`ValuePrinted`), by cases over the operators (`NodePrinted`). Numbers are faithful
    because the values of a sort have different places (`AtomFaithful`), and every
    value that is met is recorded (`ConstraintPrinted`).
  Assumed is what the construction of a problem ensures: constraints are well
  formed and typed, their fields and symbols are there with values of their sorts,
  symbols have names of their own (`ExpressionAssumption`); the roles of a rule are
  bound to events with its fields (`RuleAssumption`); expressions are finitely many
  and values tried for a coded variable were found in them (`CodeAssumption`); and
  neither unknown nor an error is a Boolean or a number (`ValueAssumption`). All
  are checked of the 1060 problems of `completion`.
* **Candidate rejection**, in the same module: the clauses are exactly the footprints of
  rejected candidates (`ClausesAreRejections`), and a clause excludes only
  assignments with the same footprint, provided every slot is optional
  (`AllOptional`, an assumption of these theorems; without it the run
  `candidate_required` is the counterexample). `WitnessIsSmallest` uses the same
  invariant: what was excluded before is no completion, so the smallest of the
  remaining models is smallest of all.
* **`HierarchicalSearchProofs`**: what is known of everything behind the loops:
  programs passed over are no candidates or were tried in vain
  (`EarlierAreLost`), statuses given to stages are justified by their attempts
  (`ResultsAreJustified`), attempts made have failed, and those the solvers left
  open are recorded in `saw_unknown` (`AttemptsFailed`). No property of a report
  is inductive on its own; with these all four are, because each exit of a loop
  turns "everything behind the counter" into "everything there is".
* **`ExecutionProofs`**: the candidates that are enumerated are the well-formed
  executions of the trace, each judged once (`Enumerated`). Sources are chosen
  read by read, so a candidate is a function of choices; a coherence order per
  address is one of the listed permutations because counting predecessors ranks
  a finite strict total order (`Ranking`). Derived relations are taken apart by a
  least counterexample of the recursive function that builds them. For two
  models the signature of a judged execution decides the execution
  (`SignatureDecides`); the LR/SC part of the verdict, which is not in the
  signature, is the same for all candidates of a trace, so equal statuses settle
  it. The theorems are about traces that are `Supported`: finitely many
  operations, named in order, at the same location exactly if they have the same
  address, and no AMO (`amo_traces` is the counterexample); for two models also
  `Loadable` ones. `MCExecutionCandidates` assumes both of the traces it checks.
* **Bounded programs**, in the same module (`ReductionsAreSound`). What the model
  allows keeps program order of a location: the witness of an allowed execution
  is a total order that contains its edges, and same-address order is among them
  (`AllowedIsPossible`). That nothing is forbidden without a load, or without a
  plain store, needs an explanation to exist: an order that has the initial
  writes first and program order after them contains every edge of one
  particular execution, and every read then returns the latest write
  (`NothingIsForbidden`). Such orders exist because a finite acyclic relation has
  a linear extension (`AcyclicIsOrdered`, by growing an arranged part until
  nothing is left). Assumed are `Unreserved` traces (ordinary accesses of harts:
  no LR, SC or AMO) and, of models with the builtin axioms, that they add none
  (`Unextended`): an axiom of its own could forbid a program that only stores.
  `SearchReductionsAreSound` discharges the first for every generated program
  (`ProgramsAreOrdinary`), from `HartAssumption`: no hart has the number that
  stands for "no hart". `execution_candidates` checks all of it of its instances.
* **Attempts**, in the same module: all four properties of `RealizationAttempt`.
  The invariant `AInv` says what is known at each step. The skeleton is a judged
  execution of a generated program (`Skeleton`, `Settled`, which says of every
  execution of the program on which side of the verdict it is), the events of the
  coherence child are the injected ones, results and traffic of performed
  accesses, no two of them with one identifier (`ChildInv`, which needs the
  operations to be scheduled once each), and those of the core are the program,
  the child's answer, the settled slots and evidence of its own (`CoreInv`). From
  identifiers follows that the merge never fails, and from a slot of the right
  instruction with the right value that what retires is the program again, event
  by event (`RetiredAreSkeleton`), so the second check ends as the first
  (`RetiredIsTheSkeleton`). The results of the memory, in the order of their
  cycles, form an execution (`ExecutionIsOne`), so `Settled` forbids it
  (`PerformedIsForbidden`). For `FirstScheduleSuffices` some order respects all
  communication edges, since a cycle of them would go through the coherence order
  of one location (`PreferredIsAcyclic`), so the first one, with the fewest
  violations, does (`FirstRespects`). The memory then holds the last store of
  what is performed, a prefix of the order (`MemoryOf`), and an access reads the
  source of the skeleton (`ReadsTheSource`): a store in between would be after
  that source in coherence order, hence after the read by a from-read edge, and
  the order respects it. `ReportsAreTrue` adds that accesses have cycles beyond
  what the bridge added and that traffic belongs to a refill (`Plausible`), kept
  by every `Perform` because the added constraints demand it, and by the retiming.
  Assumed is that the checked traces are those `_architecture_trace` generates;
  for `ReportsAreTrue` also at most 20 operations and no stage that starts in
  cycle 0. The instance of `realization_attempt` meets all of it.
* **`HierarchyProofs`**: all five properties of `Hierarchy`, for any projects
  (`ProjectAssumption`: sequences where the code has lists, one event per name).
  - `NothingIsShared`: the invariant `ComposeInv` goes through the phases of a
    composition. What is loaded instantiates the first templates and passed
    validation; what is merged so far is a set of names in one-to-one
    correspondence with the names in the merged modules (`MergedInto`), because a
    name that is there is refused; hence the names of a composed model are as many
    as the declarations of all instances (`MergedCount`). Every expansion is finite
    (`DeclarationsAreFinite`), a fact about products of lists of any length.
  - `EqualItemsStayApart`: two instances of a product differ in a position, and a
    position put into a name shows there (`PositionShows`), also if an alias of
    another axis is written over it in between.
  - `ConstraintsKeepMeaning`, `OnlyJustifiedPasses`: `TraceInv` says that events
    have names of their own in every trace on the way, and that a verdict is the
    comparison with a new abstraction. A kept constraint has only kept events, and a
    summary named like one of them is refused.
  - `ProjectionFollowsOwner`: the composition of the completed trace is made anew,
    so an event and the slot it was completed from meet by name only. `OriginInv`
    says that slot and event come from the same declaration of a template,
    `StrictInv` that what a strict composition says of a slot it says of the event.
    Assumed are projects whose names tell (`WellNamed`): observations are not named
    like slots and have no owner, the constant part of a slot's name tells module and
    type, ports are not repeated. Without it an event may take the visibility of a
    slot it has nothing to do with. 761 of the 784 projects of `hierarchy` are
    `WellNamed`; the run checks the property of the others too.
* **`CoverageProofs`**: the compiled query of a case is the goal
  (`QueryIsStrict`): its constraints are the probes with alternatives, and it has
  as many of them as the goal has probes exactly if none is without. So every
  case behind the counter has an outcome, a solver that gave up or no trace that
  meets its query (`Handled`), and the lexicographically first score has the
  fewest hidden events of all (`BestIsLeast`). A trace that reaches the goal
  unambiguously meets the query (`UnambiguousIsStrict`), so an uncovered goal has
  none. `SuiteAssumption` says that suites,
  goals and the events of a trace are finite.

Type correctness is proved of every module above. It is not checked again by the
runs, and neither are properties that the proofs have as a step of their own:
`SmallestFirst` and `FullyOrderedIsSc` (full program order gives SC),
`SkeletonIsFirst`, `LimitIsKept`.

Every invariant and action property of the passing runs is proved. Only
model-checked is liveness (`VerdictIsReached`, `ReportIsReached`), which is out of
the prover's reach, and so is what the domains of a problem look like
(`Variables`, which builds them, is used by the runs and by no theorem).

## 6. What is not modelled

* **The child compositions** of an attempt: the coherent memory and the core are
  external. `RealizationAttempt` has what the search asks of them; which output
  ports a stage needs is part of whether an attempt is an error.
* **Expressions** in composition and abstraction: constraints are the sets of
  events they refer to, conditions of roles are equalities (they are in the
  code), `copy_exports`, constants and switches of roles are exported values.
* **Other templated parts of a module.** Names of slots, cells and rules and the
  references to them are rendered; ports, types and values of slots and the event
  types of rules are taken as written, although a template may have placeholders
  there (`composition/parameterization.py:444`). They decide about no name.
* **The order of domain values** of opaque sorts is given (`Place`), as the order of
  their types and texts is (`finite.py:241`).
* **Multi-byte footprints** in RVWMO: a footprint is one location here.
* **The parsing of S-expressions and the ctypes binding** of Z3; YAML loading,
  serialisation, the data classes, the command line, the documentation
  generator: conversions and I/O without state of their own.
* **The BOOM and XiangShan models** in `src/examples`: input data of the tool.
