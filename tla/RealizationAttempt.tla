------------------------- MODULE RealizationAttempt -------------------------
(***************************************************************************)
(* One attempt to realize a skeleton, src/src/umcm/search/engine.py        *)
(* (`_realize_coherence`, `_realize_boom_end_to_end`): the checker finds   *)
(* the skeleton, the coherence child performs the accesses of a schedule,  *)
(* the core child retires the instructions, the two answers are merged and *)
(* the checker judges what retired.  HierarchicalSearch has the loops over *)
(* the attempts and takes from each only how it ends.                      *)
(*                                                                         *)
(* The child models are inputs of the search.  The coherence child is a    *)
(* coherent memory with line permissions, which performs an access once    *)
(* the one it is chained to is complete.  The core child is any solution   *)
(* of the constraints that the search adds: nothing else is known of it.   *)
(***************************************************************************)
EXTENDS AttemptTraces

CONSTANT Stages

ASSUME StagesAssumption ==
    Stages \subseteq [kind : {"coherence", "boom"}, max_schedules : Nat \ {0},
                      cycle_start : Nat, cycle_stride : Nat \ {0}]

VARIABLES graph,           \* the skeleton
          stage, number, configuration,      \* number: of the schedule in its list
          step,            \* "search", "access", "core", "merge", "retired",
                           \* "realized", "failed" or "raised"
          input,           \* the events the adapter injects
          cache,           \* the coherent memory: the last write and the permissions
          child,           \* the completed trace of the coherence child
          coherence,       \* its answer
          core             \* the completed trace of the core child

skeletonVars == <<graph, stage, number, configuration, input>>
checkVars == <<trace, model, phase, ops, pending, checked, status>>
attemptVars == <<graph, stage, number, configuration, step, input, cache, child, coherence, core>>
allVars == <<vars, attemptVars>>

NoGraph == [ops |-> << >>, rf |-> {}, co |-> {}, verdict |-> "none"]

AttemptInit ==
    /\ Init
    /\ graph = NoGraph
    /\ stage \in Stages
    /\ number = 0
    /\ configuration = [warm |-> NoHart, delayed |-> NoHart]
    /\ step = "search"
    /\ input = {} /\ child = {} /\ core = {}
    /\ cache = << >>
    /\ coherence = "none"

\* The checker works on the program and, later, on what retired.
Checking == Next /\ UNCHANGED attemptVars

\* The verdict of the program is the target; its representative execution is kept.
Begin ==
    /\ step = "search" /\ phase = "done"
    /\ \E k \in checked :
        /\ k.allowed <=> status = "allowed"
        /\ CoreOrderPossible(k.candidate)
        /\ LET g == [ops |-> ops, rf |-> k.candidate.rf, co |-> k.candidate.co, verdict |-> status]
               schedules == CandidateSchedules(g, stage.max_schedules)
           IN
           /\ graph' = g
           /\ \E i \in DOMAIN schedules, c \in Configurations(g) :
                /\ stage.kind = "coherence" => c = configuration
                /\ number' = i
                /\ configuration' = c
                /\ input' = InputTrace(g, stage, schedules[i], c)
                /\ cache' = [writer |-> [a \in {g.ops[o].address : o \in Ids(g.ops)} |-> InitialOf(g, a)],
                             perm |-> [h \in UsedHarts(g) |->
                                        [a \in {g.ops[o].address : o \in Ids(g.ops)} |-> Permission(c, h)]]]
                /\ child' = CoherenceChildInput(input')
    /\ step' = "access"
    /\ UNCHANGED <<checkVars, stage, coherence, core>>

-----------------------------------------------------------------------------
(* The coherence child: a coherent memory. *)

Performed == {e.op : e \in Results(child)}

Hit(a) == IF a.kind = "read" THEN cache.perm[a.hart][a.address] # "N" ELSE cache.perm[a.hart][a.address] = "T"

Probed(a) ==
    {h \in DOMAIN cache.perm \ {a.hart} :
        cache.perm[h][a.address] \in (IF a.kind = "read" THEN {"T"} ELSE {"B", "T"})}

Acquire(a) == [id |-> <<"acquire", a.op>>, type |-> "acquire", cycle |-> a.cycle + 1, txn |-> a.op]
Grant(a) == [id |-> <<"grant", a.op>>, type |-> "grant", cycle |-> a.cycle + 1, txn |-> a.op]
Probe(a, h) == [id |-> <<"probe", <<a.op, h>> >>, type |-> "probe", cycle |-> a.cycle + 1, txn |-> a.op,
                requester |-> a.hart, target |-> h]

Result(a) ==
    LET reads == a.kind = "read"
        source == IF reads THEN cache.writer[a.address] ELSE a.op
    IN  [id |-> <<"result", a.op>>, type |-> IF reads THEN "load_result" ELSE "store_result",
         cycle |-> a.cycle + 1, op |-> a.op, address |-> a.address,
         value |-> IF reads THEN StoredValue(graph.ops[source]) ELSE a.write_value, source |-> source,
         path |-> IF Hit(a) THEN "hit" ELSE "refill"]

\* An access is performed once the one it is chained to is complete.  A solver that
\* does not minimise may let further traffic occur, as far as the constraints permit.
Perform ==
    /\ step = "access"
    /\ \E a \in {e \in child : e.type = "access"} :
        /\ a.op \notin Performed
        /\ a.after \in Performed \cup {NoAccess}
        /\ \E spurious \in SUBSET {Acquire(a), Probe(a, a.hart)} :
            /\ stage.kind = "coherence" => spurious = {}
            /\ child' = child \cup {Result(a)} \cup spurious
                        \cup (IF Hit(a) THEN {} ELSE {Acquire(a), Grant(a)} \cup {Probe(a, h) : h \in Probed(a)})
            /\ stage.kind = "boom" => ProtocolWellFormed(child')
        /\ cache' = [writer |-> IF a.kind = "read" THEN cache.writer ELSE [cache.writer EXCEPT ![a.address] = a.op],
                     perm |-> [h \in DOMAIN cache.perm |-> [cache.perm[h] EXCEPT ![a.address] =
                                CASE h = a.hart -> IF a.kind = "write" THEN "T" ELSE IF @ = "N" THEN "B" ELSE @
                                  [] h \in Probed(a) -> IF a.kind = "read" THEN "B" ELSE "N"
                                  [] OTHER -> @]]]
    /\ UNCHANGED <<checkVars, skeletonVars, step, coherence, core>>

\* The solver finds the completion that the memory has, or none, or gives up.
AnswerCoherence ==
    /\ step = "access" /\ Performed = Dynamic(graph)
    /\ coherence' \in {IF CoherenceObligations(graph, child) THEN "feasible" ELSE "infeasible", "unknown"}
    /\ step' = IF coherence' # "feasible" THEN "failed"
               ELSE IF stage.kind = "coherence" THEN "realized" ELSE "core"
    /\ child' = IF stage.kind = "boom" /\ coherence' = "feasible" THEN Retime(child) ELSE child
    /\ UNCHANGED <<checkVars, skeletonVars, cache, core>>

-----------------------------------------------------------------------------
(* The core child: any solution of the constraints. *)

Late == RetimeOffset * 10      \* the cycle of what the core adds, of no further interest

CoreFails ==
    /\ step = "core"
    /\ step' = "failed"
    /\ UNCHANGED <<checkVars, skeletonVars, cache, child, coherence, core>>

\* The slots of an instruction: an architectural event in the place of some
\* instruction, with some value, and the commit of a load.
Slots(o, as, value) ==
    {[id |-> <<prefix, o>>, type |-> IF prefix = "commit" THEN "commit"
                                     ELSE IF o \in DynamicReads(graph) THEN "load" ELSE "store",
      cycle |-> Late, op |-> o, value |-> value, hart |-> graph.ops[as].hart,
      index |-> graph.ops[as].index, address |-> graph.ops[as].address] :
        prefix \in IF o \in DynamicReads(graph) THEN {"arch", "commit"} ELSE {"arch"}}

Unretired == {o \in Dynamic(graph) : \A e \in core : e.id # <<"arch", o>>}

\* The solver settles one instruction after the other.
Retire ==
    /\ step = "core" /\ Unretired # {}
    /\ LET o == CHOOSE p \in Unretired : \A q \in Unretired : p <= q IN
       \E as \in Dynamic(graph), value \in 0 .. Bounds.values - 1 :
        /\ core' = (IF core = {} THEN CoreInput(input, child) ELSE core) \cup Slots(o, as, value)
        /\ Retirement(graph, o, core')
    /\ UNCHANGED <<checkVars, skeletonVars, step, cache, child, coherence>>

\* Optional events of the core's internal path.  A constraint is about one of them or
\* about two misses: no more of them occur together.
Optional ==
    {{[id |-> <<"miss", o>>, type |-> "tlb_miss", cycle |-> Late, op |-> o,
       hart |-> graph.ops[o].hart, address |-> graph.ops[o].address] : o \in {p, q}} :
            p \in Dynamic(graph), q \in Dynamic(graph)}
    \cup {{[id |-> <<"mshr", o>>, type |-> "mshr", cycle |-> Late, op |-> o]} : o \in DynamicReads(graph)}
    \cup {{[id |-> <<"ldld", p>>, type |-> "ldld", cycle |-> Late, older |-> p[1], younger |-> p[2]]} :
            p \in Dynamic(graph) \X Dynamic(graph)}
    \cup {{[id |-> <<"recovery", o>>, type |-> "recovery", cycle |-> Late, op |-> o]} : o \in Dynamic(graph)}

Show ==
    /\ step = "core" /\ core # {} /\ Unretired = {}
    /\ \E events \in Optional \cup {{}} :
        /\ core' = core \cup events
        /\ CoreWellFormed(core')
    /\ step' = "merge"
    /\ UNCHANGED <<checkVars, skeletonVars, cache, child, coherence>>

\* A merge that does not fit is a SearchError; the checker starts again, with the
\* retired trace, after one that does.
Merge ==
    /\ step = "merge"
    /\ IF Mergeable(child, core)
       THEN /\ trace' = RetiredTrace(child \cup core)
            /\ phase' = "project"
            /\ ops' = << >> /\ pending' = {} /\ checked' = {} /\ status' = "none"
            /\ step' = "retired"
            /\ UNCHANGED model
       ELSE step' = "raised" /\ UNCHANGED checkVars
    /\ UNCHANGED <<skeletonVars, cache, child, coherence, core>>

Conclusion ==
    /\ step = "retired" /\ phase \in {"done", "error"}
    /\ step' = IF phase = "error" THEN "raised" ELSE IF status = graph.verdict THEN "realized" ELSE "failed"
    /\ UNCHANGED <<checkVars, skeletonVars, cache, child, coherence, core>>

AttemptNext ==
    \/ Checking \/ Begin \/ Perform \/ AnswerCoherence
    \/ CoreFails \/ Retire \/ Show \/ Merge \/ Conclusion

AttemptSpec == AttemptInit /\ [][AttemptNext]_allVars

-----------------------------------------------------------------------------
(* What an attempt guarantees. *)

WitnessEvents == child \cup core

\* The first schedule needs no second one: a coherent memory that performs it in any
\* initial state answers every read as the skeleton wants.
FirstScheduleExplains == coherence = "infeasible" => number # 1

Met(o, events) ==
    LET result(op) == CHOOSE e \in Results(events) : e.op = op
        performedBefore(x, y) == graph.ops[x].kind = "init_write" \/ result(x).cycle < result(y).cycle
    IN  CASE o.kind = "initial_value" -> \E e \in events : e.type = "line_init" /\ e.op = o.op /\ e.value = o.value
          [] o.kind = "read_from"     -> result(o.op).source = o.source /\ result(o.op).value = o.value
          [] o.kind = "write_value"   -> result(o.op).value = o.value
          [] OTHER                    -> performedBefore(o.from, o.to)

\* What the report of a realized stage says is so.  The read-from and value obligations are
\* met, the coherence and from-read edges as well when the first schedule was realized; and
\* the path evidence is not made up: traffic and MSHR activity belong to accesses that
\* missed, no hart misses a page twice, load-load evidence follows program order, and every
\* access of the core comes after its instruction, which has to translate the address first.
ReportIsTrue ==
    step = "realized" =>
        /\ \A o \in Obligations(graph) :
            o.kind \in {"initial_value", "read_from", "write_value"} \/ number = 1 => Met(o, child)
        /\ stage.kind = "boom" =>
            LET missed == {e.op : e \in {r \in Results(child) : r.path = "refill"}} IN
            /\ \A e \in WitnessEvents : e.type \in Traffic => e.txn \in missed
            /\ \A e \in WitnessEvents : e.type = "mshr" => e.op \in missed
            /\ \A e, f \in WitnessEvents : e.type = "tlb_miss" /\ f.type = "tlb_miss" /\ e.hart = f.hart =>
                e = f \/ e.address # f.address
            /\ \A e \in WitnessEvents : e.type = "ldld" => <<e.older, e.younger>> \in Po(graph.ops)
            /\ \A e \in WitnessEvents : e.type # "recovery"
            /\ \A a \in core : a.type = "access" =>
                \A i \in input : i.type = "memory_instruction" => i.cycle < a.cycle

\* The execution the memory performed: reads from the last store, coherence as the
\* stores came.
Execution ==
    LET stores == {e \in Results(child) : e.type = "store_result"}
        initial == Ids(graph.ops) \ Dynamic(graph)
    IN  [rf |-> {<<e.source, e.op>> : e \in {r \in Results(child) : r.type = "load_result"}},
         co |-> {<<p[1].op, p[2].op>> : p \in {q \in stores \X stores :
                        q[1].address = q[2].address /\ q[1].cycle < q[2].cycle}}
                \cup {<<p[1], p[2].op>> : p \in {q \in initial \X stores : graph.ops[q[1]].address = q[2].address}}]

\* No constraint fixes the order of the stores, and none has to: when the memory model
\* forbids the outcome, it forbids it in the order the memory chose.
RealizedIsForbidden ==
    coherence = "feasible" /\ step \in {"core", "realized"} /\ graph.verdict = "forbidden" /\ ops = graph.ops =>
        ~ Passes(Execution)

\* The children agree on the interface events and what retires is the skeleton: whatever
\* the core adds, the merge and the second check refuse nothing and confirm the verdict.
RetiresTheSkeleton ==
    /\ step # "raised" /\ (step = "retired" => phase # "error")
    /\ step = "retired" /\ phase = "done" => status = graph.verdict
=============================================================================
