------------------------------- MODULE Rvwmo -------------------------------
(***************************************************************************)
(* The RVWMO relations and axioms of src/src/umcm/graph/rvwmo.py, as       *)
(* operators over an execution graph.                                      *)
(*                                                                         *)
(* A graph has `ops`, a function from operation identifiers to records     *)
(* (kind, address, bytes, value, write_value, hart, index, atomic,         *)
(* acquire, release, rcsc, regular), and `rel`, a record of edge sets:     *)
(* the base relations rf and co and the relations the front-end supplies   *)
(* (addr, data, ctrl, fence, pair, pipeline).                              *)
(*                                                                         *)
(* `bytes` are the offsets an access touches, however the metadata says    *)
(* it (byte_addresses, byte_mask or size).  The acquire, release and rcsc  *)
(* fields are what the metadata flag or an ordering token means.           *)
(***************************************************************************)
EXTENDS EdgeSets

CONSTANT NoHart     \* the hart of an initial write

\* What every MemoryOperation satisfies by construction.
WellFormed(ops) ==
    \A i \in DOMAIN ops :
        /\ ops[i].kind \in {"init_write", "read", "write", "amo"}
        /\ ops[i].kind # "init_write" => ops[i].hart # NoHart
        /\ ops[i].index \in Nat

IsRead(o) == o.kind \in {"read", "amo"}
IsWrite(o) == o.kind \in {"write", "init_write", "amo"}
StoredValue(o) == IF o.kind = "amo" THEN o.write_value ELSE o.value

Footprint(o) == {o.address + offset : offset \in o.bytes}
Overlap(left, right) == Footprint(left) \cap Footprint(right) # {}
SameLocation(left, right) == Footprint(left) = Footprint(right)

Ids(ops) == DOMAIN ops
Reads(ops) == {i \in Ids(ops) : IsRead(ops[i])}
Writes(ops) == {i \in Ids(ops) : IsWrite(ops[i])}

Before(o, p) == o.hart # NoHart /\ o.hart = p.hart /\ o.index < p.index
Between(o, m, p) == Before(o, m) /\ Before(m, p)
Po(ops) == {e \in Ids(ops) \X Ids(ops) : Before(ops[e[1]], ops[e[2]])}

\* The operation a read returns the value of (rf is functional in a valid graph).
Source(rel, read) == CHOOSE w \in {e[1] : e \in rel.rf} : <<w, read>> \in rel.rf

-----------------------------------------------------------------------------
(* Validation: a graph that fails any of these is rejected with a GraphError. *)

ScalarLocations(ops) ==
    \A i, j \in Ids(ops) : Overlap(ops[i], ops[j]) => SameLocation(ops[i], ops[j])

DistinctIndexes(ops) ==
    \A i, j \in Ids(ops) : ops[i].hart # NoHart /\ ops[i].hart = ops[j].hart
                           /\ ops[i].index = ops[j].index => i = j

ValidRf(ops, rel) ==
    /\ rel.rf \subseteq Writes(ops) \X Reads(ops)
    /\ \A e \in rel.rf :
        /\ e[1] # e[2]
        /\ SameLocation(ops[e[1]], ops[e[2]])
        /\ StoredValue(ops[e[1]]) = ops[e[2]].value
    /\ \A r \in Reads(ops) : \E w \in Writes(ops) :
        \A v \in Writes(ops) : <<v, r>> \in rel.rf <=> v = w

ValidCo(ops, rel) ==
    /\ rel.co \subseteq Writes(ops) \X Writes(ops)
    /\ \A e \in rel.co : e[1] # e[2] /\ SameLocation(ops[e[1]], ops[e[2]])
    /\ \A v, w \in Writes(ops) : v # w /\ SameLocation(ops[v], ops[w]) =>
        (<<v, w>> \in rel.co <=> <<w, v>> \notin rel.co)
    /\ ~ Cyclic(Ids(ops), rel.co)
    /\ \A v, w \in Writes(ops) :
        ops[v].kind = "init_write" /\ v # w /\ SameLocation(ops[v], ops[w])
            => <<v, w>> \in rel.co

HintsInPo(ops, rel) ==
    rel.addr \cup rel.data \cup rel.ctrl \cup rel.fence \cup rel.pair \cup rel.pipeline
        \subseteq Po(ops)

ValidGraph(ops, rel) ==
    /\ \A i \in Ids(ops) : ops[i].regular /\ ops[i].bytes # {}
    /\ ScalarLocations(ops)
    /\ DistinctIndexes(ops)
    /\ ValidRf(ops, rel)
    /\ ValidCo(ops, rel)
    /\ HintsInPo(ops, rel)

-----------------------------------------------------------------------------
(* The thirteen preserved-program-order rules, for s before t in program order. *)

StoreAfterOverlap(ops, s, t) ==                                     \* 1
    IsWrite(ops[t]) /\ Overlap(ops[s], ops[t])

\* Mutant: the source comparison of rule 2 inverted.
SameSources(ops, rel, s, t) ==
    /\ IsRead(ops[s]) /\ IsRead(ops[t])
    /\ Overlap(ops[s], ops[t])
    /\ \A m \in Writes(ops) : Between(ops[s], ops[m], ops[t]) =>
        Footprint(ops[s]) \cap Footprint(ops[t]) \cap Footprint(ops[m]) = {}
    /\ Source(rel, s) = Source(rel, t)

DifferentSources(ops, rel, s, t) ==                                 \* 2
    /\ IsRead(ops[s]) /\ IsRead(ops[t])
    /\ Overlap(ops[s], ops[t])
    /\ \A m \in Writes(ops) : Between(ops[s], ops[m], ops[t]) =>
        Footprint(ops[s]) \cap Footprint(ops[t]) \cap Footprint(ops[m]) = {}
    /\ Source(rel, s) # Source(rel, t)

ReadsAtomicWrite(ops, rel, s, t) ==                                 \* 3
    ops[s].atomic \in {"amo", "sc"} /\ IsRead(ops[t]) /\ Source(rel, t) = s

Synchronized(ops, rel, s, t) ==                                     \* 4-8
    \/ <<s, t>> \in rel.fence
    \/ ops[s].acquire
    \/ ops[t].release
    \/ ops[s].rcsc /\ ops[t].rcsc
    \/ <<s, t>> \in rel.pair

Dependent(ops, rel, s, t) ==                                        \* 9-11
    \/ <<s, t>> \in rel.addr
    \/ IsWrite(ops[t]) /\ <<s, t>> \in rel.data \cup rel.ctrl

ForwardedDependency(ops, rel, s, t) ==                              \* 12
    /\ IsRead(ops[t])
    /\ \E m \in Writes(ops) :
        /\ Between(ops[s], ops[m], ops[t])
        /\ Source(rel, t) = m
        /\ <<s, m>> \in rel.addr \cup rel.data

AddressBeforeStore(ops, rel, s, t) ==                               \* 13
    /\ IsWrite(ops[t])
    /\ \/ <<s, t>> \in rel.pipeline
       \/ \E m \in Ids(ops) : Between(ops[s], ops[m], ops[t]) /\ <<s, m>> \in rel.addr

Ppo(ops, rel) ==
    {e \in Po(ops) : LET s == e[1]  t == e[2] IN
        /\ ops[s].regular /\ ops[t].regular
        /\ \/ StoreAfterOverlap(ops, s, t)
           \/ DifferentSources(ops, rel, s, t)
           \/ ReadsAtomicWrite(ops, rel, s, t)
           \/ Synchronized(ops, rel, s, t)
           \/ Dependent(ops, rel, s, t)
           \/ ForwardedDependency(ops, rel, s, t)
           \/ AddressBeforeStore(ops, rel, s, t)}

-----------------------------------------------------------------------------
(* Derived relations and the axioms. *)

Rfe(ops, rel) == {e \in rel.rf : ops[e[1]].hart # ops[e[2]].hart}

\* Mutant: from-reads against coherence order.
FrBackwards(ops, rel) ==
    {e \in Reads(ops) \X Writes(ops) :
        e[1] # e[2] /\ \E w \in Writes(ops) : <<w, e[1]>> \in rel.rf /\ <<e[2], w>> \in rel.co}

\* A read precedes every write that coherence puts after its source; the write
\* half of an AMO does not precede itself.
Fr(ops, rel) ==
    {e \in Reads(ops) \X Writes(ops) :
        e[1] # e[2] /\ \E w \in Writes(ops) : <<w, e[1]>> \in rel.rf /\ <<w, e[2]>> \in rel.co}

\* Mutant: the witness need not respect from-reads.
OrderEdgesWithoutFr(ops, rel) == Ppo(ops, rel) \cup Rfe(ops, rel) \cup rel.co

OrderEdges(ops, rel) == Ppo(ops, rel) \cup Rfe(ops, rel) \cup rel.co \cup Fr(ops, rel)

\* gmo is an edge set: the pairs of the total order, earlier first.
Eligible(ops, gmo, read) ==
    {w \in Writes(ops) \ {read} :
        /\ SameLocation(ops[w], ops[read])
        /\ <<w, read>> \in gmo \/ <<w, read>> \in Po(ops)}

ReadsLatest(ops, rel, gmo, read) ==
    /\ Source(rel, read) \in Eligible(ops, gmo, read)
    /\ \A w \in Eligible(ops, gmo, read) \ {Source(rel, read)} :
        <<w, Source(rel, read)>> \in gmo

LoadValueOffenses(ops, rel, gmo) ==
    {r \in Reads(ops) : ~ ReadsLatest(ops, rel, gmo, r)}

\* Mutant: any later write to the location counts as intervening.
AmoOffensesAnyLater(ops, rel) ==
    {a \in Ids(ops) : ops[a].atomic = "amo" /\
        \/ ~ (IsRead(ops[a]) /\ IsWrite(ops[a]))
        \/ <<Source(rel, a), a>> \notin rel.co
        \/ \E w \in Writes(ops) \ {Source(rel, a), a} :
            SameLocation(ops[w], ops[a]) /\ <<Source(rel, a), w>> \in rel.co}

AmoOffenses(ops, rel) ==
    {a \in Ids(ops) : ops[a].atomic = "amo" /\
        \/ ~ (IsRead(ops[a]) /\ IsWrite(ops[a]))
        \/ <<Source(rel, a), a>> \notin rel.co
        \/ \E w \in Writes(ops) \ {Source(rel, a), a} :
            SameLocation(ops[w], ops[a]) /\ <<Source(rel, a), w>> \in rel.co /\ <<w, a>> \in rel.co}

\* An LR paired with several SCs, or a pair of other operations, is a GraphError.
ValidPairs(ops, rel) ==
    /\ \A e, f \in rel.pair : e[1] = f[1] => e = f
    /\ \A e \in rel.pair : ops[e[1]].atomic = "lr" /\ ops[e[2]].atomic = "sc"

LrScOffenses(ops, rel) ==
    {sc \in Ids(ops) : ops[sc].atomic = "sc" /\
        Cardinality({e \in rel.pair : e[2] = sc}) # 1} \cup
    {e[2] : e \in {p \in rel.pair : LET lr == p[1]  sc == p[2]  s == Source(rel, p[1]) IN
        \/ <<s, sc>> \notin rel.co
        \/ \E w \in Writes(ops) \ {s, sc} :
            /\ ops[w].hart # ops[lr].hart /\ Overlap(ops[w], ops[lr])
            /\ <<s, w>> \in rel.co /\ <<w, sc>> \in rel.co}}

-----------------------------------------------------------------------------
(* The verdicts on a valid graph, given a global-memory-order witness. *)

\* The total orders of S that contain the given edges, each from a ranking.
TotalOrders(S, edges) ==
    LET Rankings == {f \in [S -> S] :
            /\ \A e \in edges : f[e[1]] < f[e[2]]
            /\ \A i, j \in S : f[i] = f[j] => i = j}
    IN  {{e \in S \X S : f[e[1]] < f[e[2]]} : f \in Rankings}

\* The gmo relation is empty when the order relations have a cycle.
Witnesses(ops, rel) ==
    IF Cyclic(Ids(ops), OrderEdges(ops, rel)) THEN {{}}
    ELSE TotalOrders(Ids(ops), OrderEdges(ops, rel))

Verdicts == [global_memory_order : BOOLEAN, load_value : BOOLEAN,
             amo_atomicity : BOOLEAN, lr_sc_atomicity : BOOLEAN]

OrderAcyclic(ops, rel) == ~ Cyclic(Ids(ops), OrderEdges(ops, rel))

\* Without a witness the load-value axiom reports no offense.
Judgement(ops, rel, gmo) ==
    [global_memory_order |-> OrderAcyclic(ops, rel),
     load_value          |-> gmo = {} \/ LoadValueOffenses(ops, rel, gmo) = {},
     amo_atomicity       |-> AmoOffenses(ops, rel) = {},
     lr_sc_atomicity     |-> LrScOffenses(ops, rel) = {}]

Passed(outcome) ==
    /\ outcome.global_memory_order /\ outcome.load_value
    /\ outcome.amo_atomicity /\ outcome.lr_sc_atomicity
=============================================================================
