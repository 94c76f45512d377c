----------------------- MODULE MCExecutionCandidates -----------------------
(***************************************************************************)
(* Traces of two harts with two accesses each (operations 1, 2 and 3, 4),  *)
(* initial writes 5 and 6, values chosen so that a read may have several   *)
(* sources, squashed loads, and evidence that is right, wrong or absent.   *)
(* Abstractions hide evidence, commits, loads and stores, add evidence, or *)
(* lose an acquire or a release.                                           *)
(***************************************************************************)
EXTENDS BoundedPrograms, ModelPreservation

MCNoHart == 0
MCMaxCandidates == 8

Event(id, type, op, address, value) ==
    [id |-> id, type |-> type, op |-> op, address |-> address, value |-> value, write_value |-> 1,
     hart |-> (op + 1) \div 2, index |-> op, bytes |-> {0},
     acquire |-> FALSE, release |-> FALSE, rcsc |-> FALSE, regular |-> TRUE]

\* An access is a type, and the value stored or committed; "none" is not committed.
Access(op, type, value, address) ==
    CASE type = "squashed" -> {Event(op, "load", op, address, 0)}
      [] type = "store"    -> {Event(op, "store", op, address, value)}
      [] OTHER             -> {Event(op, type, op, address, 0), Event(op + 10, "commit", op, address, value)}

NoHints == [addr |-> {}, data |-> {}, ctrl |-> {}, fence |-> {}, pair |-> {}, pipeline |-> {}]
Fenced == [NoHints EXCEPT !.fence = {<<1, 2>>, <<3, 4>>}]

Trace(t, v, a, hints, rfHints, coHints) ==
    [events |-> UNION {Access(i, t[i], v[i], a[i]) : i \in 1 .. 4}
                \cup {Event(5 + b, "init", 5 + b, b, 0) : b \in {a[i] : i \in 1 .. 4}},
     hints |-> hints, rfHints |-> rfHints, coHints |-> coHints]

ReadsFrom(r, w, a, v) == [read |-> r, write |-> w, address |-> a, value |-> v]
Ordered(v, w, a) == [before |-> v, after |-> w, address |-> a]

\* Every trace of plain accesses to one location, without evidence or with some.
OneLocation(evidence) ==
    {Trace(t, v, <<0, 0, 0, 0>>, NoHints, e[1], e[2]) :
        t \in {"store"} \X {"load", "squashed"} \X {"store", "load"} \X {"load"},
        v \in {1} \X {0, 1} \X {1, 2} \X {0, 1, 2}, e \in evidence}

Evidence ==
    {<<{}, {}>>,
     <<{ReadsFrom(2, 1, 0, 1)}, {}>>,                           \* the own store
     <<{ReadsFrom(2, 1, 0, 1), ReadsFrom(2, 3, 0, 1)}, {}>>,    \* two sources
     <<{ReadsFrom(4, 2, 0, 1)}, {}>>,                           \* a read as the source
     <<{}, {Ordered(3, 1, 0)}>>, <<{}, {Ordered(1, 3, 0), Ordered(3, 1, 0)}>>,
     <<{}, {Ordered(1, 5, 0)}>>}                                \* before the initial write

TwoLocations ==
    {Trace(<<"store", x, "store", y>>, <<1, v, 1, w>>, a, hints, {}, {}) :
        x \in {"load", "store"}, y \in {"load", "store"}, v \in {0, 1}, w \in {0, 1},
        a \in {<<0, 1, 0, 1>>, <<0, 1, 1, 0>>}, hints \in {NoHints, Fenced}}
    \cup {Trace(<<"store", "store", "load", "load">>, <<1, 1, v, w>>, <<0, 1, 1, 0>>, hints, {}, {}) :
        v \in {0, 1}, w \in {0, 1}, hints \in {NoHints, Fenced}}

\* Two stores with the same index, two commits of a load, a fence across harts, four
\* stores to a location, which have more orders than the limit, and no operation.
Refused ==
    LET good == Trace(<<"store", "load", "store", "load">>, <<1, 0, 1, 0>>, <<0, 1, 1, 0>>, NoHints, {}, {})
    IN  {[good EXCEPT !.events = {[e EXCEPT !.index = 1] : e \in @}],
         [good EXCEPT !.events = @ \cup {Event(20, "commit", 2, 1, 1)}],
         [good EXCEPT !.events = @ \cup {Event(20, "store", 1, 0, 2)}],
         [good EXCEPT !.hints = [NoHints EXCEPT !.fence = {<<1, 3>>}]],
         [good EXCEPT !.hints = [NoHints EXCEPT !.fence = {<<1, 9>>}]],
         [good EXCEPT !.hints = [NoHints EXCEPT !.pair = {<<1, 2>>}]],
         [good EXCEPT !.events = {}],
         Trace(<<"store", "store", "store", "store">>, <<1, 2, 3, 4>>, <<0, 0, 0, 0>>, NoHints, {}, {})}

RvwmoTraces == UNION {OneLocation(Evidence), TwoLocations, Refused}

Rvwmo2 == [builtin |-> "rvwmo", require_committed |-> FALSE, rules |-> {}, derived |-> << >>, axioms |-> {}]

\* examples/boom/axioms/rvwmo_load_load_fragment.yaml, with its derived relations hb
\* and ar, and two more that say "cycle" in other words.
Fragment ==
    [builtin |-> "none", require_committed |-> TRUE, rules |-> {"load_load_different_write"},
     derived |-> <<[name |-> "hb", op |-> "union", relations |-> <<"ppo", "rfe">>],
                   [name |-> "ar", op |-> "union", relations |-> <<"hb", "fr", "co">>],
                   [name |-> "path", op |-> "transitive_closure", relations |-> <<"ar">>],
                   [name |-> "back", op |-> "inverse", relations |-> <<"path">>],
                   [name |-> "both", op |-> "intersection", relations |-> <<"path", "back">>],
                   [name |-> "round", op |-> "compose", relations |-> <<"path", "ar">>],
                   [name |-> "away", op |-> "difference", relations |-> <<"round", "back">>]>>,
     axioms |-> {[kind |-> "acyclic", relations |-> {"ppo", "rfe", "fr", "co"}],
                [kind |-> "irreflexive", relations |-> {"path"}],
                [kind |-> "empty", relations |-> {"both"}]}]

\* Coherent and incoherent pairs of reads of one location, with a store by each hart; store buffering.
FragmentTraces ==
    {Trace(<<x, "load", "store", y>>, <<1, v, 2, w>>, <<0, 0, 0, 0>>, NoHints, {}, {}) :
        x \in {"load", "store"}, y \in {"load", "store", "squashed"}, v \in 0 .. 2, w \in 0 .. 2}
    \cup {Trace(<<"store", "store", "load", "load">>, <<u, 2, v, w>>, <<0, a, a, 0>>, NoHints, {}, {}) :
        u \in {1, 2}, v \in 0 .. 2, w \in 0 .. 2, a \in {0, 1}}
    \cup {Trace(<<"store", "load", "store", "load">>, <<1, v, 1, w>>, <<0, 1, 1, 0>>, NoHints, {}, {}) :
        v \in 0 .. 1, w \in 0 .. 1}

\* An AMO that reads the initial write of its location, alone or next to a store.
AmoTraces ==
    {Trace(<<"amo", "store", "load", "load">>, <<0, 1, 0, 0>>, <<0, 1, 0, 1>>, NoHints, {}, {}),
     Trace(<<"amo", "store", "load", "load">>, <<0, 2, 1, 2>>, <<0, 0, 0, 0>>, NoHints, {}, {})}

\* The bounds of examples/boom/search/v021.yaml; programs with one kind of operation
\* are checked as well.
MCBounds == [harts |-> 2, memory_ops |-> 3, addresses |-> 1, values |-> 2]

Generated == {ArchitectureTrace(raw) : raw \in {r \in RawPrograms : FirstUseIsFirst(r)}}

MCChecks == UNION {{[trace |-> t, model |-> Rvwmo2] : t \in Generated},
                   {[trace |-> t, model |-> Rvwmo2] : t \in RvwmoTraces},
                   {[trace |-> t, model |-> Fragment] : t \in FragmentTraces}}

AmoChecks == {[trace |-> t, model |-> Rvwmo2] : t \in AmoTraces}

NoPairs == {}

-----------------------------------------------------------------------------
(* Traces of four accesses and what abstractions make of them. *)

\* Message passing with annotations, on two locations.
Annotated(v, w, hints) ==
    LET plain == Trace(<<"store", "store", "load", "load">>, <<1, 1, v, w>>, <<0, 1, 1, 0>>, hints, {}, {})
    IN  [plain EXCEPT !.events = {[e EXCEPT !.release = e.op = 2, !.acquire = e.op = 3] : e \in @}]

\* Two stores of the same value, so that a load has two sources.
TwoSources(v, rfHints, coHints, hints) ==
    Trace(<<"store", "load", "store", "load">>, <<1, v, 1, 1>>, <<0, 0, 0, 0>>, hints, rfHints, coHints)

\* Message passing where the data is 0 as before: its load has two sources, and only the
\* store is one if the accesses are kept in order.
SameData(rfHints, hints) ==
    Trace(<<"store", "store", "load", "load">>, <<0, 1, 1, 0>>, <<0, 1, 1, 0>>, hints, rfHints, {})

Concretes ==
    {SameData(r, h) : h \in {NoHints, Fenced}, r \in {{}, {ReadsFrom(4, 1, 0, 0)}, {ReadsFrom(4, 5, 0, 0)}}}
    \cup
    {Annotated(v, w, h) : v \in {0, 1}, w \in {0, 1}, h \in {NoHints, Fenced}}
    \cup {TwoSources(v, r, c, h) : v \in {0, 1}, h \in {NoHints, Fenced},
            r \in {{}, {ReadsFrom(4, 1, 0, 1)}, {ReadsFrom(4, 3, 0, 1)}},
            c \in {{}, {Ordered(3, 1, 0)}, {Ordered(1, 3, 0)}}}

Plain(events) == {[e EXCEPT !.acquire = FALSE] : e \in events}
Unreleased(events) == {[e EXCEPT !.release = FALSE] : e \in events}

Reductions(t) ==
    {t, [t EXCEPT !.rfHints = {}], [t EXCEPT !.coHints = {}], [t EXCEPT !.hints = NoHints],
     [t EXCEPT !.events = Plain(@)], [t EXCEPT !.events = Unreleased(@)],
     [t EXCEPT !.rfHints = {ReadsFrom(4, 3, 0, 1)}], [t EXCEPT !.coHints = {Ordered(5, 1, 0)}],
     [t EXCEPT !.coHints = {Ordered(3, 1, 0)}]}
    \cup {[t EXCEPT !.events = {e \in @ : e.id # id}] : id \in {1, 3, 4, 14}}

MCPairs ==
    UNION {{[trace |-> t, reduced |-> r, model |-> Rvwmo2] : r \in Reductions(t)} : t \in Concretes}
    \cup UNION {{[trace |-> t, reduced |-> r, model |-> Fragment] : r \in Reductions(t)} :
        t \in {TwoSources(1, r, {}, NoHints) : r \in {{}, {ReadsFrom(4, 1, 0, 1)}}}}

\* The instances satisfy the hypotheses of the theorems about them.
ASSUME InstanceAssumption ==
    /\ \A c \in MCChecks :
        Supported(c.trace) /\ Unreserved(c.trace) /\ Loadable(c.model) /\ Unextended(c.model)
    /\ \A p \in MCPairs : Supported(p.trace) /\ Supported(p.reduced) /\ Loadable(p.model)
=============================================================================
