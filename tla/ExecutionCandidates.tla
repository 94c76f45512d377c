------------------------ MODULE ExecutionCandidates ------------------------
(***************************************************************************)
(* `check_trace_memory_model`, src/src/umcm/graph/checker.py: a concrete   *)
(* trace is projected to architectural operations, its candidate           *)
(* executions are enumerated (`iter_execution_graphs`, graph/builder.py)   *)
(* and judged one after the other, and the trace is allowed if one passes. *)
(*                                                                         *)
(* A trace has the events that occur, as records (id, type, op, address,   *)
(* value, write_value, hart, index and the metadata fields), the evidence  *)
(* its other events give: rfHints [read, write, address, value], coHints   *)
(* [before, after, address], and hints, the front-end's edge sets by name. *)
(* A graph model has a builtin model or none, the rules of its base        *)
(* relations, derived relations, axioms, and whether loads must commit.    *)
(***************************************************************************)
EXTENDS RelationAxioms

CONSTANTS Checks,          \* the arguments [trace, model] considered
          MaxCandidates

ASSUME LimitAssumption == MaxCandidates \in Nat \ {0}

VARIABLES trace, model,
          phase,     \* "project", "choose", "judge", "done" or "error"
          ops,       \* the operations, by identifier
          pending,   \* the candidates [rf, co] not judged yet
          checked,   \* those judged, each with whether it is allowed
          status     \* "none", "allowed" or "forbidden"

vars == <<trace, model, phase, ops, pending, checked, status>>

-----------------------------------------------------------------------------
(* project_operations: an event that reads needs the commit that names it. *)

Reading == {"load", "lr", "amo"}

Commits(events, op) == {c \in events : c.type = "commit" /\ c.op = op}

\* The events that become operations; uncommitted (squashed) reads do not.
Architectural(events) ==
    {e \in events : \/ e.type \in {"init", "store", "sc"}
                    \/ e.type \in Reading /\ Commits(events, e.op) # {}}

Unprojectable(events) ==
    \/ \E c \in events : c.type = "commit" /\ Cardinality(Commits(events, c.op)) > 1
    \/ model.require_committed /\ \E e \in events : e.type \in Reading /\ Commits(events, e.op) = {}
    \/ \E e, f \in Architectural(events) : e # f /\ e.op = f.op
    \/ Architectural(events) = {}

Operation(events, e) ==
    LET initial == e.type = "init"
        observed == (CHOOSE c \in Commits(events, e.op) : TRUE).value
    IN  [kind |-> IF initial THEN "init_write"
             ELSE CASE e.type = "amo" -> "amo"
                    [] e.type \in {"load", "lr"} -> "read" [] OTHER -> "write",
         address |-> e.address, bytes |-> e.bytes,
         value |-> IF e.type \in Reading THEN observed ELSE e.value,
         write_value |-> e.write_value,
         hart |-> IF initial THEN NoHart ELSE e.hart, index |-> e.index,
         atomic |-> IF e.type \in {"amo", "lr", "sc"} THEN e.type ELSE "ordinary",
         acquire |-> e.acquire, release |-> e.release, rcsc |-> e.rcsc, regular |-> e.regular]

Operations(events) ==
    [op \in {e.op : e \in Architectural(events)} |->
        Operation(events, CHOOSE e \in Architectural(events) : e.op = op)]

\* The relations of a graph: those of the front-end, and those it is completed with.
HintNames == {"addr", "data", "ctrl", "fence", "pair", "pipeline"}

\* Traces whose executions the candidates are: finitely many events, operations named in
\* the order of their identifiers, accesses that agree in their location exactly if they
\* agree in their address, and no AMO, which has no place in the coherence candidates.
Supported(t) ==
    /\ IsFiniteSet(t.events)
    /\ DOMAIN t.hints = HintNames
    /\ \A e \in Architectural(t.events) :
        /\ e.op \in Nat
        /\ e.type # "amo"
        /\ \A f \in Architectural(t.events) : SameLocation(e, f) <=> e.address = f.address

BaseNames(m) ==
    IF m.builtin = "rvwmo"
    THEN {"po", "rf", "rfi", "rfe", "fr", "fri", "fre", "co", "ppo", "gmo"}
    ELSE {"po", "rf", "rfe", "co", "fr", "ppo"}

\* The derived relations and the axioms of a model are about relations there are.
Loadable(m) ==
    /\ Len(m.derived) \in Nat
    /\ Derivable(m.derived, HintNames \cup BaseNames(m))
    /\ \A axiom \in m.axioms :
        axiom.relations \subseteq HintNames \cup BaseNames(m) \cup {m.derived[i].name : i \in 1 .. Len(m.derived)}

-----------------------------------------------------------------------------
(* build_candidate_space: the sources of each read, the orders of each address. *)

\* Mutant: a store of the same hart is no candidate source.
AgreeingExternally(read) ==
    {w \in Writes(ops) : /\ ops[w].address = ops[read].address /\ ops[w].hart # ops[read].hart
                         /\ StoredValue(ops[w]) = ops[read].value}

Agreeing(read) ==
    {w \in Writes(ops) \ {read} : /\ ops[w].address = ops[read].address
                                  /\ StoredValue(ops[w]) = ops[read].value}

HintsFor(read) == {h \in trace.rfHints : h.read = read}

\* Mutant: only the last candidate source is taken.
RfLastChoice(read) ==
    IF HintsFor(read) # {} THEN {h.write : h \in HintsFor(read)}
    ELSE {w \in Agreeing(read) : \A v \in Agreeing(read) : v <= w}

RfChoices(read) ==
    IF HintsFor(read) = {} THEN Agreeing(read) ELSE {h.write : h \in HintsFor(read)}

RfInconsistent ==
    \/ \E g, h \in trace.rfHints : g.read = h.read /\ g # h
    \/ \E r \in Reads(ops) :
        \/ RfChoices(r) = {}
        \/ \E h \in HintsFor(r) : \/ h.write \notin Agreeing(r)
                                  \/ h.address # ops[r].address \/ h.value # ops[r].value

WritesAt(address) == {w \in Writes(ops) : ops[w].address = address}
Addresses == {ops[w].address : w \in Writes(ops)}
Initial(address) == {w \in WritesAt(address) : ops[w].kind = "init_write"}

\* Only plain writes are permuted: an AMO has no place in the orders.
Ordinary(address) == {w \in WritesAt(address) : ops[w].kind = "write"}

CoChoices(address) ==
    TotalOrders(Initial(address) \cup Ordinary(address),
                (Initial(address) \X Ordinary(address)) \cup
                {<<h.before, h.after>> : h \in {g \in trace.coHints : g.address = address}})

CoInconsistent ==
    \/ \E a \in Addresses : Cardinality(Initial(a)) > 1
    \/ \E h \in trace.coHints :
        \/ ~ {h.before, h.after} \subseteq WritesAt(h.address)
        \/ h.before = h.after
        \/ ~ {h.before, h.after} \subseteq Initial(h.address) \cup Ordinary(h.address)
    \/ \E a \in Addresses : CoChoices(a) = {}

HintsUnknown ==
    \E name \in DOMAIN trace.hints : ~ trace.hints[name] \subseteq Ids(ops) \X Ids(ops)

\* One source per read, one order per address.
Candidates ==
    {[rf |-> {<<f[r], r>> : r \in Reads(ops)}, co |-> UNION {g[a] : a \in Addresses}] :
        f \in {h \in [Reads(ops) -> Writes(ops)] : \A r \in Reads(ops) : h[r] \in RfChoices(r)},
        g \in {h \in [Addresses -> UNION {CoChoices(a) : a \in Addresses}] :
                    \A a \in Addresses : h[a] \in CoChoices(a)}}

-----------------------------------------------------------------------------
(* Judging one candidate. *)

Relations(c) == Extended(trace.hints, c)

Witness(rel) == CHOOSE g \in Witnesses(ops, rel) : TRUE

Table(c) ==
    Extended(trace.hints, IF model.builtin = "rvwmo"
                          THEN RvwmoTable(ops, Relations(c), Witness(Relations(c)))
                          ELSE BaseTable(ops, Relations(c), model.rules))

\* Completing a candidate, deriving its relations or an axiom raises a GraphError.
Unjudgeable(c) ==
    \/ ~ DistinctIndexes(ops)
    \/ model.builtin = "rvwmo" /\ ~ (ValidGraph(ops, Relations(c)) /\ ValidPairs(ops, Relations(c)))
    \/ ~ Derivable(model.derived, DOMAIN Table(c))
    \/ \E axiom \in model.axioms : ~ axiom.relations \subseteq DOMAIN WithDerived(Table(c), model.derived)

Passes(c) ==
    /\ model.builtin = "rvwmo" =>
        Passed(Judgement(ops, Relations(c), Witness(Relations(c))))
    /\ \A axiom \in model.axioms :
        AxiomHolds(axiom, WithDerived(Table(c), model.derived), Ids(ops))

-----------------------------------------------------------------------------
Init ==
    /\ \E c \in Checks : trace = c.trace /\ model = c.model
    /\ phase = "project"
    /\ ops = << >>
    /\ pending = {}
    /\ checked = {}
    /\ status = "none"

Fail ==
    /\ phase' = "error"
    /\ UNCHANGED <<trace, model, ops, pending, checked, status>>

Project ==
    /\ phase = "project"
    /\ IF Unprojectable(trace.events) THEN Fail
       ELSE /\ ops' = Operations(trace.events)
            /\ phase' = "choose"
            /\ UNCHANGED <<trace, model, pending, checked, status>>

Choose ==
    /\ phase = "choose"
    /\ IF RfInconsistent \/ CoInconsistent \/ HintsUnknown \/ Cardinality(Candidates) > MaxCandidates
       THEN Fail
       ELSE /\ pending' = Candidates
            /\ phase' = "judge"
            /\ UNCHANGED <<trace, model, ops, checked, status>>

\* The candidates come in the order of the sorted identifiers, a fixed order.
Judge ==
    /\ phase = "judge"
    /\ pending # {}
    /\ LET c == CHOOSE d \in pending : TRUE IN
       IF Unjudgeable(c) THEN Fail
       ELSE /\ pending' = pending \ {c}
            /\ checked' = checked \cup {[candidate |-> c, allowed |-> Passes(c)]}
            /\ UNCHANGED <<trace, model, phase, ops, status>>

Conclude ==
    /\ phase = "judge"
    /\ pending = {}
    /\ phase' = "done"
    /\ status' = IF \E k \in checked : k.allowed THEN "allowed" ELSE "forbidden"
    /\ UNCHANGED <<trace, model, ops, pending, checked>>

Next == Project \/ Choose \/ Judge \/ Conclude

Spec == Init /\ [][Next]_vars

-----------------------------------------------------------------------------
(* What the verdict on a trace means, stated without the enumeration. *)

\* The executions of the projected operations: whatever rf and co are well-formed
\* and contain the evidence of the trace.
Executions ==
    LET sources == {f \in [Reads(ops) -> Writes(ops)] : \A h \in trace.rfHints :
                        h.read \in Reads(ops) => f[h.read] = h.write}
        rfs == {{<<f[r], r>> : r \in Reads(ops)} : f \in sources}
        colocated == {e \in Writes(ops) \X Writes(ops) :
                        e[1] # e[2] /\ ops[e[1]].address = ops[e[2]].address}
        evidence == {<<h.before, h.after>> : h \in trace.coHints}
    IN  {[rf |-> rf, co |-> co] :
            rf \in {r \in rfs : ValidRf(ops, [rf |-> r])},
            co \in {c \in SUBSET colocated : evidence \subseteq c /\ ValidCo(ops, [co |-> c])}}

\* The trace contradicts itself, or leaves what the checker supports: no choice of
\* rf and co can repair it.
Malformed ==
    \/ ~ DistinctIndexes(ops) \/ ~ ScalarLocations(ops)
    \/ \E i \in Ids(ops) : ~ ops[i].regular \/ ops[i].bytes = {}
    \/ \E g, h \in trace.rfHints : g.read = h.read /\ g # h
    \/ \E h \in trace.rfHints : h.read \in Reads(ops) /\
        (h.address # ops[h.read].address \/ h.value # ops[h.read].value)
    \/ \E h \in trace.coHints : ~ {h.before, h.after} \subseteq WritesAt(h.address)
    \/ \E name \in DOMAIN trace.hints : ~ trace.hints[name] \subseteq Po(ops)
    \/ ~ ValidPairs(ops, trace.hints)

\* A trace is allowed exactly if one of its executions passes: enumerating one
\* source per read and one order per address misses none and invents none.
AllowedIffExplained ==
    phase = "done" => (status = "allowed" <=> \E x \in Executions : Passes(x))

\* A trace that is refused with a GraphError has no execution at all, is malformed
\* or exceeds max_candidates: refusing never hides a verdict.
RefusedMeansUnexplainable ==
    phase = "error" /\ ops # << >> =>
        Malformed \/ Executions = {} \/ Cardinality(Candidates) > MaxCandidates
===========================================================================
