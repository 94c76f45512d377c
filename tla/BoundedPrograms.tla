--------------------------- MODULE BoundedPrograms ---------------------------
(***************************************************************************)
(* The programs a bounded search generates, src/src/umcm/search/engine.py, *)
(* as the traces it hands to `check_trace_memory_model`, and the execution *)
(* it takes from the verdict.                                              *)
(*                                                                         *)
(* Harts are numbered from 1, addresses and values from 0.  The            *)
(* identifiers of the operations (InitX, L0, L1, W0, ...) are numbered in  *)
(* the order in which the code sorts them.                                 *)
(***************************************************************************)
EXTENDS ExecutionCandidates

CONSTANT Bounds      \* [harts, memory_ops, addresses, values]

ASSUME BoundsAssumption ==
    Bounds \in [harts : Nat \ {0}, memory_ops : Nat \ {0}, addresses : Nat \ {0}, values : Nat \ {0}]

\* The harts of a program are harts.
ASSUME HartAssumption == NoHart \notin 1 .. Bounds.harts

RawChoice == [kind : {"load", "store"}, hart : 1 .. Bounds.harts,
              address : 0 .. Bounds.addresses - 1, value : 0 .. Bounds.values - 1]

RawPrograms == UNION {[1 .. count -> RawChoice] : count \in 1 .. Bounds.memory_ops}

\* The identifier symmetry: only the first operation is looked at.
FirstUseIsFirst(raw) == raw[1].hart = 1 /\ raw[1].address = 0

Canonical(raw) == {raw[i].kind : i \in DOMAIN raw} = {"load", "store"} /\ FirstUseIsFirst(raw)

ProgramIndex(raw, i) == Cardinality({j \in 1 .. i - 1 : raw[j].hart = raw[i].hart})

OpId(raw, i) ==
    Bounds.addresses + Cardinality({j \in 1 .. i : raw[j].kind = raw[i].kind})
        + (IF raw[i].kind = "load" THEN 0 ELSE Cardinality({j \in DOMAIN raw : raw[j].kind = "load"}))

SearchEvent(id, type, choice, op, index) ==
    [id |-> id, type |-> type, op |-> op, address |-> choice.address, value |-> choice.value,
     write_value |-> choice.value, hart |-> choice.hart, index |-> index, bytes |-> {0},
     acquire |-> FALSE, release |-> FALSE, rcsc |-> FALSE, regular |-> TRUE]

\* One event per store, a load and its commit per load, and an initial write of 0 to
\* every address: no evidence of any kind.
ArchitectureTrace(raw) ==
    LET event(id, type, i) == SearchEvent(id, type, raw[i], OpId(raw, i), ProgramIndex(raw, i))
        zero(a) == [address |-> a, value |-> 0, hart |-> NoHart]
    IN  [events |-> {SearchEvent(a + 1, "init", zero(a), a + 1, 0) : a \in 0 .. Bounds.addresses - 1}
                    \cup {event(OpId(raw, i), raw[i].kind, i) : i \in DOMAIN raw}
                    \cup {event(- OpId(raw, i), "commit", i) : i \in {j \in DOMAIN raw : raw[j].kind = "load"}},
         hints |-> [name \in {"addr", "data", "ctrl", "fence", "pair", "pipeline"} |-> {}],
         rfHints |-> {}, coHints |-> {}]

\* What every such trace satisfies: ordinary accesses of harts, none of which reserves
\* its location.
Unreserved(t) ==
    \A e \in Architectural(t.events) :
        /\ e.type \in {"init", "load", "store"}
        /\ e.type # "init" => e.hart # NoHart
        /\ e.index \in Nat

\* The RVWMO models of the repository add no axioms of their own to the builtin one.
Unextended(m) == m.builtin = "rvwmo" => m.axioms = {}

-----------------------------------------------------------------------------
(* The representative execution and the filter on it. *)

Evident == trace.rfHints # {} \/ trace.coHints # {}

PlainWrites == {w \in Ids(ops) : ops[w].kind = "write"}

Precedes(i, j) == ops[i].hart = ops[j].hart /\ ops[i].index < ops[j].index

\* Mutant: any older store of the hart hides the initial value.
PossibleAcrossAddresses(c) ==
    /\ \A edge \in c.rf :
        IF ops[edge[1]].kind = "init_write"
        THEN \A w \in PlainWrites : ~ Precedes(w, edge[2])
        ELSE ~ Precedes(edge[2], edge[1])
    /\ \A w, v \in PlainWrites :
        ops[w].address = ops[v].address /\ Precedes(w, v) => <<v, w>> \notin c.co

\* No read of a store of its own future or of the initial value past an own store,
\* no own stores against program order.
CoreOrderPossible(c) ==
    /\ \A edge \in c.rf :
        IF ops[edge[1]].kind = "init_write"
        THEN \A w \in PlainWrites : ~ (Precedes(w, edge[2]) /\ ops[w].address = ops[edge[2]].address)
        ELSE ~ Precedes(edge[2], edge[1])
    /\ \A w, v \in PlainWrites :
        ops[w].address = ops[v].address /\ Precedes(w, v) => <<v, w>> \notin c.co

-----------------------------------------------------------------------------
(* What `_search_bounded_architecture` says of its reductions. *)

\* The reductions lose no program the search is after: what the memory model allows
\* is never filtered, and without a load or without a store nothing is forbidden.
ReductionsAreSound ==
    model.builtin = "rvwmo" =>
        /\ \A k \in checked : k.allowed => CoreOrderPossible(k.candidate)
        /\ status = "forbidden" /\ ~ Evident => Reads(ops) # {} /\ PlainWrites # {}
=============================================================================
