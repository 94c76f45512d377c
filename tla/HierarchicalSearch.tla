------------------------- MODULE HierarchicalSearch -------------------------
(***************************************************************************)
(* The two-level search of src/src/umcm/search/engine.py: programs are     *)
(* enumerated until one has the target verdict under the memory model (the *)
(* skeleton), then every stage tries to realize it in a composition of     *)
(* modules.  A blind search returns to the enumeration when that fails.    *)
(*                                                                         *)
(* What the checker and the solvers answer is part of the search: programs *)
(* come in the order of the enumeration, each with the verdict on it, and  *)
(* with an attempt for every stage, schedule and initial configuration.    *)
(* An attempt says how its coherence half is solved, how its core half is  *)
(* and what the memory model says of the trace that retires.               *)
(***************************************************************************)
EXTENDS Integers, Sequences

CONSTANT Search

Verdict == {"allowed", "forbidden", "refused"}      \* refused: a GraphError

Attempt == [coherence : {"feasible", "infeasible", "unknown", "uninstantiable", "error"},
            core : {"feasible", "infeasible", "unknown", "error"},
            retired : Verdict]

Stage == [kind : {"gap", "coherence", "boom"}, required : BOOLEAN, declared : BOOLEAN,
          max_schedules : Nat \ {0}]

Program == [valid : BOOLEAN, verdict : Verdict, plausible : BOOLEAN,
            attempts : Seq(Seq(Seq(Attempt)))]

ASSUME SearchAssumption ==
    \A s \in Search :
        /\ s.generation \in {"explicit", "bounded"}
        /\ s.target \in {"allowed", "forbidden"}
        /\ s.max_assignments \in Nat
        /\ s.programs \in Seq(Program)
        /\ s.stages \in Seq(Stage)
        /\ \A i \in 1 .. Len(s.programs) :
            Len(s.programs[i].attempts) = Len(s.stages)
        /\ \E i \in 1 .. Len(s.stages) : s.stages[i].required

VARIABLES search,
          phase,          \* "enumerate", "stage", "attempt", "reported" or "raised"
          considered,     \* programs taken from the enumeration
          examined,       \* of these, the programs counted against max_assignments
          rejected,
          skeleton,       \* the program of the last skeleton, 0 before the first
          results,        \* the status of its stages so far
          schedule, configuration,     \* of the attempt to make next
          saw_unknown,
          report          \* the verdict of the whole search

vars == <<search, phase, considered, examined, rejected, skeleton, results,
          schedule, configuration, saw_unknown, report>>

counters == <<considered, examined, rejected>>
loop == <<schedule, configuration, saw_unknown>>

NoReport == [status |-> "none", exhausted |-> FALSE]

-----------------------------------------------------------------------------
(* What the search asks of a program, a stage and an attempt. *)

\* The filter belongs to the bounded enumeration.
IsCandidate(p) ==
    p.valid /\ p.verdict = search.target /\ (search.generation = "bounded" => p.plausible)

\* A candidate that fails is not the end of the search.
Blind ==
    /\ search.generation = "bounded"
    /\ \E i \in 1 .. Len(search.stages) : search.stages[i].kind = "boom"

ReachesCore(stage, a) == stage.kind = "boom" /\ a.coherence = "feasible"

\* Only the coherence half of an end-to-end attempt tolerates a composition that
\* lacks a role; a retired trace that the memory model refuses is an error as well.
Raises(stage, a) ==
    \/ a.coherence = "error"
    \/ a.coherence = "uninstantiable" /\ stage.kind = "coherence"
    \/ ReachesCore(stage, a) /\ \/ a.core = "error"
                                \/ a.core = "feasible" /\ a.retired = "refused"

\* Mutant: only the coherence half is asked.
CoherenceUndecided(stage, a) == a.coherence = "unknown"

Undecided(stage, a) ==
    \/ a.coherence = "unknown"
    \/ ReachesCore(stage, a) /\ a.core = "unknown"

Realizes(stage, a) ==
    /\ a.coherence = "feasible"
    /\ stage.kind = "boom" => a.core = "feasible" /\ a.retired = search.target

Least(m, n) == IF m <= n THEN m ELSE n

\* _candidate_schedules returns at most max_schedules orders.
Schedules(p, i) == Least(Len(search.programs[p].attempts[i]), search.stages[i].max_schedules)

-----------------------------------------------------------------------------
Init ==
    /\ search \in Search
    /\ phase = "enumerate"
    /\ considered = 0 /\ examined = 0 /\ rejected = 0
    /\ skeleton = 0
    /\ results = << >>
    /\ schedule = 1 /\ configuration = 1 /\ saw_unknown = FALSE
    /\ report = NoReport

CutOff == considered < Len(search.programs) /\ examined >= search.max_assignments

Taking == /\ phase = "enumerate"
          /\ considered < Len(search.programs)
          /\ ~ CutOff
          /\ considered' = considered + 1

Taken == search.programs[considered + 1]

\* Two operations in one place of the program, or a program that is the renaming of
\* another or lacks a load or a store: not counted as examined.
Skip ==
    /\ Taking
    /\ ~ Taken.valid
    /\ rejected' = rejected + 1
    /\ UNCHANGED <<search, phase, examined, skeleton, results, loop, report>>

\* The checker refuses the trace, the verdict is not the target, or the bounded
\* enumeration filters its representative execution.
PassOver ==
    /\ Taking
    /\ Taken.valid /\ ~ IsCandidate(Taken)
    /\ examined' = examined + 1
    /\ rejected' = IF Taken.verdict \in {"refused", search.target} THEN rejected + 1 ELSE rejected
    /\ UNCHANGED <<search, phase, skeleton, results, loop, report>>

Choose ==
    /\ Taking
    /\ IsCandidate(Taken)
    /\ examined' = examined + 1
    /\ skeleton' = considered + 1
    /\ results' = << >>
    /\ phase' = "stage"
    /\ UNCHANGED <<search, rejected, loop, report>>

\* Mutant: reaching max_assignments exactly counts as exhausting the space.
ExhaustedAtLimit ==
    IF search.generation = "explicit" THEN Len(search.programs) <= search.max_assignments /\ ~ CutOff
    ELSE examined <= search.max_assignments

\* The bounded search only compares the counter.
Exhausted ==
    IF search.generation = "explicit" THEN Len(search.programs) <= search.max_assignments /\ ~ CutOff
    ELSE examined < search.max_assignments

NotFound ==
    /\ phase = "enumerate"
    /\ considered = Len(search.programs) \/ CutOff
    /\ report' = [status |-> "not_found", exhausted |-> Exhausted]
    /\ phase' = "reported"
    /\ UNCHANGED <<search, counters, skeleton, results, loop>>

-----------------------------------------------------------------------------
(* The stages of a skeleton. *)

Current == Len(results) + 1
CurrentStage == search.stages[Current]

Ends(status) == results' = Append(results, status) /\ phase' = "stage"

Gap ==
    /\ phase = "stage"
    /\ Current <= Len(search.stages)
    /\ CurrentStage.kind = "gap"
    /\ Ends("blocked")
    /\ UNCHANGED <<search, counters, skeleton, loop, report>>

\* _validate_adapter_surface: a stage that injects undeclared or private events.
Undeclared ==
    /\ phase = "stage"
    /\ Current <= Len(search.stages)
    /\ CurrentStage.kind # "gap" /\ ~ CurrentStage.declared
    /\ phase' = "raised"
    /\ UNCHANGED <<search, counters, skeleton, results, loop, report>>

BeginStage ==
    /\ phase = "stage"
    /\ Current <= Len(search.stages)
    /\ CurrentStage.kind # "gap" /\ CurrentStage.declared
    /\ schedule' = 1 /\ configuration' = 1 /\ saw_unknown' = FALSE
    /\ phase' = "attempt"
    /\ UNCHANGED <<search, counters, skeleton, results, report>>

Configurations == search.programs[skeleton].attempts[Current][schedule]

\* A schedule without a configuration left gives way to the next one.
NextSchedule ==
    /\ phase = "attempt"
    /\ schedule <= Schedules(skeleton, Current)
    /\ configuration > Len(Configurations)
    /\ schedule' = schedule + 1
    /\ configuration' = 1
    /\ UNCHANGED <<search, phase, counters, skeleton, results, saw_unknown, report>>

Trying == /\ phase = "attempt"
          /\ schedule <= Schedules(skeleton, Current)
          /\ configuration <= Len(Configurations)

Tried == Configurations[configuration]

Raise ==
    /\ Trying
    /\ Raises(CurrentStage, Tried)
    /\ phase' = "raised"
    /\ UNCHANGED <<search, counters, skeleton, results, loop, report>>

Realize ==
    /\ Trying
    /\ ~ Raises(CurrentStage, Tried) /\ Realizes(CurrentStage, Tried)
    /\ Ends("realizable")
    /\ UNCHANGED <<search, counters, skeleton, loop, report>>

\* Mutant: an attempt the solvers leave undecided is made again.
FailOrAskAgain ==
    /\ Trying
    /\ ~ Raises(CurrentStage, Tried) /\ ~ Realizes(CurrentStage, Tried)
    /\ saw_unknown' = (saw_unknown \/ Undecided(CurrentStage, Tried))
    /\ configuration' = IF Undecided(CurrentStage, Tried) THEN configuration ELSE configuration + 1
    /\ UNCHANGED <<search, phase, counters, skeleton, results, schedule, report>>

\* The attempt does not realize the stage: the next configuration is tried.
Fail ==
    /\ Trying
    /\ ~ Raises(CurrentStage, Tried) /\ ~ Realizes(CurrentStage, Tried)
    /\ saw_unknown' = (saw_unknown \/ Undecided(CurrentStage, Tried))
    /\ configuration' = configuration + 1
    /\ UNCHANGED <<search, phase, counters, skeleton, results, schedule, report>>

GiveUp ==
    /\ phase = "attempt"
    /\ schedule > Schedules(skeleton, Current)
    /\ Ends(IF saw_unknown THEN "unknown" ELSE "unrealizable")
    /\ UNCHANGED <<search, counters, skeleton, loop, report>>

-----------------------------------------------------------------------------
(* _overall_status. *)

Required(status) ==
    \E i \in 1 .. Len(results) : search.stages[i].required /\ results[i] = status

\* Mutant: one required stage is enough for a witness.
AnyRequired ==
    IF Required("realizable") THEN "witness"
    ELSE IF \E i \in 1 .. Len(results) : results[i] = "realizable" THEN "partial"
    ELSE IF Required("blocked") THEN "blocked"
    ELSE IF Required("unknown") THEN "partial"
    ELSE "unrealizable"

OverallStatus ==
    IF \A i \in 1 .. Len(results) : search.stages[i].required => results[i] = "realizable"
    THEN "witness"
    ELSE IF \E i \in 1 .. Len(results) : results[i] = "realizable" THEN "partial"
    ELSE IF Required("blocked") THEN "blocked"
    ELSE IF Required("unknown") THEN "partial"
    ELSE "unrealizable"

Concluding == phase = "stage" /\ Len(results) = Len(search.stages)

Conclude ==
    /\ Concluding
    /\ (Blind => OverallStatus = "witness")
    /\ report' = [status |-> OverallStatus, exhausted |-> FALSE]
    /\ phase' = "reported"
    /\ UNCHANGED <<search, counters, skeleton, results, loop>>

\* A blind search asks for the next candidate.
Retry ==
    /\ Concluding
    /\ Blind /\ OverallStatus # "witness"
    /\ phase' = "enumerate"
    /\ UNCHANGED <<search, counters, skeleton, results, loop, report>>

Terminated == phase \in {"reported", "raised"} /\ UNCHANGED vars

Next ==
    \/ Skip \/ PassOver \/ Choose \/ NotFound
    \/ Gap \/ Undeclared \/ BeginStage
    \/ NextSchedule \/ Raise \/ Realize \/ Fail \/ GiveUp
    \/ Conclude \/ Retry \/ Terminated

Spec == Init /\ [][Next]_vars

\* The search is one function call in one process: nothing keeps it from its next step.
FairSpec == Spec /\ WF_vars(Next)

-----------------------------------------------------------------------------
(* What a report of the search claims. *)

StageStatus == {"realizable", "unrealizable", "blocked", "unknown"}

\* One result per stage at most; the counters stay within the enumeration and the
\* budget, the loops within the schedules and configurations of the stage.
TypeOK ==
    /\ phase \in {"enumerate", "stage", "attempt", "reported", "raised"}
    /\ considered \in 0 .. Len(search.programs)
    /\ examined \in 0 .. considered /\ examined <= search.max_assignments
    /\ rejected \in 0 .. considered
    /\ skeleton \in 0 .. considered
    /\ results \in Seq(StageStatus) /\ Len(results) <= Len(search.stages)
    /\ schedule \in Nat \ {0} /\ configuration \in Nat \ {0}
    /\ saw_unknown \in BOOLEAN
    /\ report.exhausted \in BOOLEAN
    /\ report.status \in {"none", "witness", "partial", "blocked", "unrealizable", "not_found"}

\* The attempts the search owes a stage: every configuration of as many schedules as
\* it permits.
Permitted(schedules, limit) ==
    UNION {{<<s, c>> : c \in DOMAIN schedules[s]} : s \in {r \in DOMAIN schedules : r <= limit}}

Owed(p, i) == Permitted(search.programs[p].attempts[i], search.stages[i].max_schedules)

Outcome(p, i, t) == search.programs[p].attempts[i][t[1]][t[2]]

Realizable(p, i) ==
    /\ search.stages[i].kind # "gap"
    /\ \E t \in Owed(p, i) : Realizes(search.stages[i], Outcome(p, i, t))

EndToEnd(p) ==
    IsCandidate(search.programs[p]) /\
    \A i \in 1 .. Len(search.stages) : search.stages[i].required => Realizable(p, i)

\* A WITNESS is one execution end to end: the reported skeleton itself is realized in
\* every required stage, not a stage by one candidate and the next by another.
WitnessIsReal == report.status = "witness" => skeleton # 0 /\ EndToEnd(skeleton)

\* NOT_FOUND in an exhausted space is a proof within the bounds: no program of the
\* enumeration is a candidate, for a blind search none that is realizable.
ExhaustedIsComplete ==
    report.exhausted => \A p \in 1 .. Len(search.programs) :
        IsCandidate(search.programs[p]) => Blind /\ ~ EndToEnd(p)

\* An attempt that the solvers decided against.
Refuted(stage, a) ==
    \/ a.coherence \in {"infeasible", "uninstantiable"}
    \/ /\ stage.kind = "boom" /\ a.coherence = "feasible"
       /\ \/ a.core = "infeasible"
          \/ a.core = "feasible" /\ a.retired # search.target

\* UNREALIZABLE is said of a skeleton only when every attempt owed to every required
\* stage was made and refuted: neither a gap nor an unknown passes for a refutation.
UnrealizableIsRefuted ==
    report.status = "unrealizable" =>
        \A i \in 1 .. Len(search.stages) : search.stages[i].required =>
            /\ search.stages[i].kind # "gap"
            /\ \A t \in Owed(skeleton, i) : Refuted(search.stages[i], Outcome(skeleton, i, t))

\* The search is deterministic: the skeleton of a verdict is the first candidate, and
\* in a blind search the first that could be realized.
SkeletonIsFirst ==
    report.status \notin {"none", "not_found"} =>
        \A p \in 1 .. skeleton - 1 :
            IsCandidate(search.programs[p]) => Blind /\ ~ EndToEnd(p)

\* Every search ends in a report or an error, although a blind one returns from the last
\* stage to the enumeration, and what a solver leaves undecided is asked only once.
ReportIsReached == <>(phase \in {"reported", "raised"})
=============================================================================
