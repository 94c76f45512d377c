----------------------------- MODULE RvwmoCheck -----------------------------
(***************************************************************************)
(* `check_rvwmo_execution_graph`, src/src/umcm/graph/checker.py: one       *)
(* execution graph is validated, completed with the derived relations and  *)
(* a global-memory-order witness, and judged by the RVWMO axioms.          *)
(*                                                                         *)
(* The witness is any linear extension of the order relations: what        *)
(* TopologicalOrder promises of `_topological_total_order`, of which the   *)
(* code returns the least; the gmo relation is empty when there is none.   *)
(* Operation identifiers are naturals, so that permutations rank them.     *)
(***************************************************************************)
EXTENDS Rvwmo

CONSTANT Graphs       \* the execution graphs handed to the checker

ASSUME GraphsAssumption ==
    \A g \in Graphs : DOMAIN g.ops \subseteq Nat /\ WellFormed(g.ops)

VARIABLES graph,      \* [ops, rel]
          stage,      \* "given", "completed", "checked" or "error"
          gmo,        \* the witness: the pairs of a total order, or {}
          outcome     \* which axioms are satisfied

vars == <<graph, stage, gmo, outcome>>

ops == graph.ops
rel == graph.rel
Edges == OrderEdges(ops, rel)

Init ==
    /\ graph \in Graphs
    /\ stage = "given"
    /\ gmo = {}
    /\ outcome = [global_memory_order |-> FALSE, load_value |-> FALSE,
                  amo_atomicity |-> FALSE, lr_sc_atomicity |-> FALSE]

Reject ==
    /\ stage = "given"
    /\ ~ ValidGraph(ops, rel)
    /\ stage' = "error"
    /\ UNCHANGED <<graph, gmo, outcome>>

Complete ==
    /\ stage = "given"
    /\ ValidGraph(ops, rel)
    /\ gmo' \in Witnesses(ops, rel)
    /\ stage' = "completed"
    /\ UNCHANGED <<graph, outcome>>

Check ==
    /\ stage = "completed"
    /\ IF ValidPairs(ops, rel)
       THEN stage' = "checked" /\ outcome' = Judgement(ops, rel, gmo)
       ELSE stage' = "error" /\ UNCHANGED outcome
    /\ UNCHANGED <<graph, gmo>>

Next == Reject \/ Complete \/ Check

Spec == Init /\ [][Next]_vars

Allowed == stage = "checked" /\ Passed(outcome)

-----------------------------------------------------------------------------
(* What a verdict of the RVWMO checker means. *)

\* The graph never changes; derived data has the shape the stages give it.
TypeOK ==
    /\ Ids(ops) \subseteq Nat
    /\ stage \in {"given", "completed", "checked", "error"}
    /\ gmo \in SUBSET (Ids(ops) \X Ids(ops))
    /\ outcome \in Verdicts

\* The load-value verdict in terms of program order and coherence alone: no read
\* takes a write that its hart issues later, or one that coherence puts before a
\* write its hart issued earlier.
ForwardsStaleValue(read) ==
    \/ <<read, Source(rel, read)>> \in Po(ops)
    \/ \E w \in Writes(ops) \ {Source(rel, read)} :
        /\ <<w, read>> \in Po(ops)
        /\ SameLocation(ops[w], ops[read])
        /\ <<w, Source(rel, read)>> \notin rel.co

\* Which linear extension _topological_total_order happens to return does not
\* influence the verdict of _load_value_offenses.
WitnessIsIrrelevant ==
    stage = "completed" /\ gmo # {} =>
        LoadValueOffenses(ops, rel, gmo) = {r \in Reads(ops) : ForwardsStaleValue(r)}

\* The RVWMO axioms of the ISA, for one candidate global memory order: they speak
\* of ppo and of the values loads return, never of rfe or fr.
SatisfiesIsaAxioms(order) ==
    /\ Ppo(ops, rel) \cup rel.co \subseteq order
    /\ \A r \in Reads(ops) : ReadsLatest(ops, rel, order, r)

\* The checker forbids a graph for its order or values only if no global memory
\* order whatever explains it: adding rfe and fr to the acyclicity check of
\* RVWMO_ORDER_RELATIONS never forbids an execution of the ISA.
ForbiddenMeansNoOrder ==
    stage = "checked" /\ ~ (outcome.global_memory_order /\ outcome.load_value) =>
        ~ \E order \in TotalOrders(Ids(ops), {}) : SatisfiesIsaAxioms(order)

\* A hart that accesses a location twice sees it move along coherence order:
\* none of the shapes CoRR, CoRW, CoWR and CoWW is allowed.
CoherentPerLocation ==
    Allowed => \A e \in Po(ops) : SameLocation(ops[e[1]], ops[e[2]]) =>
        LET Seen(i) == IF IsRead(ops[i]) THEN Source(rel, i) ELSE i
            Left(i) == IF IsWrite(ops[i]) THEN i ELSE Source(rel, i)
        IN  \/ <<Left(e[1]), Seen(e[2])>> \in rel.co
            \/ IsRead(ops[e[2]]) /\ Left(e[1]) = Seen(e[2])

\* No graph fails AMO atomicity alone: an AMO whose source is not its immediate
\* coherence predecessor already breaks the order or the load-value axiom.
AmoAtomicityFollows ==
    stage = "checked" /\ outcome.global_memory_order /\ outcome.load_value
        => \A a \in AmoOffenses(ops, rel) : ops[a].kind # "amo"

\* When every program-order pair is preserved, an allowed graph is sequentially
\* consistent: its witness is one order of all operations that extends program
\* order and in which every read returns the last write before it.
FullyOrderedIsSc ==
    Allowed /\ Po(ops) \subseteq Ppo(ops, rel) =>
        /\ Po(ops) \subseteq gmo
        /\ \A r \in Reads(ops) :
            /\ <<Source(rel, r), r>> \in gmo
            /\ \A w \in Writes(ops) \ {r} : SameLocation(ops[w], ops[r]) /\ <<w, r>> \in gmo
                => w = Source(rel, r) \/ <<w, Source(rel, r)>> \in gmo
=============================================================================
