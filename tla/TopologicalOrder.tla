-------------------------- MODULE TopologicalOrder --------------------------
(***************************************************************************)
(* The total global memory order of an execution graph:                    *)
(* `_topological_total_order`, src/src/umcm/graph/rvwmo.py.                *)
(*                                                                         *)
(* The function reads the order relations (ppo, rfe, co, fr) one after the *)
(* other into a successor table and an in-degree table, then repeatedly    *)
(* emits the smallest node without a remaining predecessor.  It returns    *)
(* the emitted order, or None when some node was never emitted.            *)
(* The sorted list `ready`, from which the code pops the first element and *)
(* which it sorts after every insertion, is the set of its elements.       *)
(***************************************************************************)
EXTENDS OrderRelations

VARIABLES loaded,       \* how many of them have been read
          successors,   \* the edges read so far, each once
          indegree,     \* per node, the predecessors not emitted yet
          ready,        \* nodes not emitted whose in-degree is zero
          order,        \* the nodes emitted so far
          phase         \* "load", "drain" or "done"

vars == <<relations, loaded, successors, indegree, ready, order, phase>>

Init ==
    /\ relations \in Input
    /\ loaded = 0
    /\ successors = {}
    /\ indegree = [n \in Node |-> 0]
    /\ ready = {}
    /\ order = << >>
    /\ phase = "load"

NewEdges == relations[loaded + 1] \ successors

LoadRelation ==
    /\ phase = "load"
    /\ loaded < Len(relations)
    /\ loaded' = loaded + 1
    /\ successors' = successors \cup relations[loaded + 1]
    /\ indegree' = [n \in Node |-> indegree[n] +
            Cardinality({m \in Node : <<m, n>> \in NewEdges})]
    /\ UNCHANGED <<relations, ready, order, phase>>

CollectReady ==
    /\ phase = "load"
    /\ loaded = Len(relations)
    /\ ready' = {n \in Node : indegree[n] = 0}
    /\ phase' = "drain"
    /\ UNCHANGED <<relations, loaded, successors, indegree, order>>

\* Lower the in-degree of every successor of the node just emitted.
Released(node) ==
    [n \in Node |-> IF <<node, n>> \in successors THEN indegree[n] - 1 ELSE indegree[n]]

\* Mutant: `ready` is not sorted after an insertion.
AnyReady(node) == TRUE

SmallestReady(node) == \A other \in ready : node <= other

LastPredecessor(node) == {n \in Node : <<node, n>> \in successors /\ indegree[n] = 1}

Emit ==
    /\ phase = "drain"
    /\ \E node \in ready :
        /\ SmallestReady(node)
        /\ order' = Append(order, node)
        /\ indegree' = Released(node)
        /\ ready' = (ready \ {node}) \cup LastPredecessor(node)
    /\ UNCHANGED <<relations, loaded, successors, phase>>

Return ==
    /\ phase = "drain"
    /\ ready = {}
    /\ phase' = "done"
    /\ UNCHANGED <<relations, loaded, successors, indegree, ready, order>>

Next == LoadRelation \/ CollectReady \/ Emit \/ Return

Spec == Init /\ [][Next]_vars

\* The function returns an order, not None.
Ordered == Len(order) = Cardinality(Node)

-----------------------------------------------------------------------------
(* What the callers of `_topological_total_order` rely on. *)

Emitted == {order[i] : i \in 1 .. Len(order)}

\* The tables, the ready list and the emitted order range over the nodes.
TypeOK ==
    /\ relations \in Seq(SUBSET (Node \X Node))
    /\ loaded \in 0 .. Len(relations)
    /\ successors \in SUBSET (Node \X Node)
    /\ indegree \in [Node -> Nat]
    /\ ready \in SUBSET Node
    /\ order \in Seq(Node)
    /\ phase \in {"load", "drain", "done"}

\* No node that could have been emitted instead of another one is smaller.
SmallestFirst ==
    \A i, j \in 1 .. Len(order) : i < j /\ order[j] < order[i] =>
        \E k \in i .. j - 1 : <<order[k], order[j]>> \in Edges

\* A returned order lists every operation once and respects every edge of every
\* relation, which is what makes metadata.gmo_order a global memory order; and it is the
\* lexicographically least such order, so it is the same in every run.
ReturnedOrderIsGmo ==
    phase = "done" /\ Ordered => IsLinearExtension(order, Node, Edges) /\ SmallestFirst

\* None is returned exactly for a cyclic union of relations: the load-value check
\* is skipped for None, so a spurious None would hide its offenses.
NoneMeansCyclic ==
    phase = "done" => (~ Ordered <=> Cyclic(Node, Edges))

\* The in-degree table counts every remaining predecessor once, also when
\* several relations contain the same edge.
IndegreeCountsPredecessors ==
    \A n \in Node :
        indegree[n] = Cardinality({m \in Node \ Emitted : <<m, n>> \in successors})
=============================================================================
