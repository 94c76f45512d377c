------------------------ MODULE MCRealizationAttempt ------------------------
(***************************************************************************)
(* The programs of one location and two harts: two operations, and three   *)
(* that store one value; some of three operations over two locations; and  *)
(* forbidden ones of four operations, whose two stores to the location a   *)
(* memory may order in either way.                                         *)
(***************************************************************************)
EXTENDS RealizationAttempt

MCNoHart == 0
MCMaxCandidates == 8
MCBounds == [harts |-> 2, memory_ops |-> 4, addresses |-> 2, values |-> 2]

Plain == [builtin |-> "rvwmo", require_committed |-> FALSE, rules |-> {}, derived |-> << >>, axioms |-> {}]

OneLocation ==
    {raw \in UNION {[1 .. count -> {c \in RawChoice : c.address = 0}] : count \in 2 .. 3} :
        /\ Canonical(raw)
        /\ raw[2].hart = 2
        /\ Len(raw) = 3 => \A i \in DOMAIN raw : raw[i].kind = "store" => raw[i].value = 1}

Store(hart, address) == [kind |-> "store", hart |-> hart, address |-> address, value |-> 1]
Load(hart, address, value) == [kind |-> "load", hart |-> hart, address |-> address, value |-> value]

TwoLocations ==
    {<<Store(1, 0), Load(2, 0, v), Store(2, 1)>> : v \in {0, 1}}
    \cup {<<Store(1, 0), Load(1, 1, v), Load(2, 0, w)>> : v \in {0, 1}, w \in {0, 1}}

\* The second hart sees a new value and then an old one, of a store that it performed
\* itself before, or of the line.
TwoStores ==
    {<<Store(1, 0), [Store(2, 0) EXCEPT !.value = 0], Load(2, 0, 1), Load(2, 0, 0)>>,
     <<Store(1, 0), Store(1, 0), Load(2, 0, 1), Load(2, 0, 0)>>}

MCChecks == {[trace |-> ArchitectureTrace(raw), model |-> Plain] : raw \in OneLocation \cup TwoLocations \cup TwoStores}

MCStages == {[kind |-> "coherence", max_schedules |-> 24, cycle_start |-> 1, cycle_stride |-> 9],
             [kind |-> "boom", max_schedules |-> 1, cycle_start |-> 1, cycle_stride |-> 9]}
=============================================================================
