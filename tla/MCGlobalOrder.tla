---------------------------- MODULE MCGlobalOrder ----------------------------
(***************************************************************************)
(* All irreflexive graphs on four nodes, and all graphs on three nodes,    *)
(* self-loops included, beside a relation that repeats some of their edges *)
(* and adds others.                                                        *)
(***************************************************************************)
EXTENDS GlobalOrder

MCNode == 1 .. 4

Irreflexive == {e \in MCNode \X MCNode : e[1] # e[2]}
Small == (1 .. 3) \X (1 .. 3)

MCInput ==
    {<<graph>> : graph \in SUBSET Irreflexive} \cup
    {<<graph, {<<1, 2>>, <<3, 1>>}>> : graph \in SUBSET Small}

\* The reference definition of a cyclic graph is the usual one.
ASSUME CyclicIsClosedWalk ==
    \A graph \in SUBSET Small : Cyclic(1 .. 3, graph) <=> HasClosedWalk(1 .. 3, graph)
=============================================================================
