------------------------------ MODULE EdgeSets ------------------------------
(***************************************************************************)
(* Reference definitions about finite sets of edges, against which the     *)
(* graph algorithms of src/src/umcm/graph are specified.  Nothing here is  *)
(* code: a cycle is described without naming a path, as a non-empty set of *)
(* nodes in which every node has a predecessor, so that proofs need no     *)
(* induction on the length of a path.                                      *)
(***************************************************************************)
EXTENDS Integers, FiniteSets, Sequences

\* Every node of S is the target of an edge that starts in S.
PredecessorClosed(S, edges) ==
    \A n \in S : \E m \in S : <<m, n>> \in edges

\* In a finite graph, exactly the graphs with a directed cycle (self-loops count).
Cyclic(Nodes, edges) ==
    \E S \in SUBSET Nodes : S # {} /\ PredecessorClosed(S, edges)

\* The path-based definition of a cycle, for TLC to compare with Cyclic: some
\* sequence of at most Cardinality(Nodes) edges leads from a node to itself.
HasClosedWalk(Nodes, edges) ==
    \E length \in 1 .. Cardinality(Nodes) :
        \E walk \in [0 .. length -> Nodes] :
            /\ walk[0] = walk[length]
            /\ \A i \in 0 .. length - 1 : <<walk[i], walk[i + 1]>> \in edges

\* The sequence lists every node once, sources before targets.
IsLinearExtension(seq, Nodes, edges) ==
    /\ DOMAIN seq = 1 .. Cardinality(Nodes)
    /\ Nodes = {seq[i] : i \in DOMAIN seq}
    /\ \A i, j \in DOMAIN seq : <<seq[i], seq[j]>> \in edges => i < j
=============================================================================
