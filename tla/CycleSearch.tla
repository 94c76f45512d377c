---------------------------- MODULE CycleSearch ----------------------------
(***************************************************************************)
(* The cycle a violated acyclicity axiom is reported with:                 *)
(* `find_labeled_cycle`, src/src/umcm/graph/relation.py.                   *)
(*                                                                         *)
(* A depth-first search over the union of the relations of an axiom,       *)
(* recursive in the code; here `stack` holds the active calls and          *)
(* `examined` how far the loop over sorted targets of each call has come.  *)
(***************************************************************************)
EXTENDS OrderRelations

VARIABLES color,        \* "white" unseen, "grey" on the stack, "black" finished
          stack,        \* the path of the active calls
          position,     \* per grey node its place on the stack, else 0
          examined,     \* per node the targets its loop has looked at
          cycle,        \* the edges of the reported cycle
          verdict       \* "search", "found" or "none"

searchVars == <<relations, color, stack, position, examined, cycle, verdict>>

\* Mutant: self-loops are not followed.
OtherTargets(node) == {n \in Node \ {node} : <<node, n>> \in Edges}

Targets(node) == {n \in Node : <<node, n>> \in Edges}

\* The nodes with an edge: only these are searched.
GraphNodes == {n \in Node : \E m \in Node : <<m, n>> \in Edges \/ <<n, m>> \in Edges}

\* Mutant: a later relation overwrites the name of a shared edge.
LastLabel(edge) ==
    CHOOSE i \in 1 .. Len(relations) :
        /\ edge \in relations[i]
        /\ \A j \in 1 .. Len(relations) : edge \in relations[j] => j <= i

\* The first relation with the edge names it.
Label(edge) ==
    CHOOSE i \in 1 .. Len(relations) :
        /\ edge \in relations[i]
        /\ \A j \in 1 .. Len(relations) : edge \in relations[j] => i <= j

\* The edges from the target on the stack up to the top and back to the target.
CycleFrom(start, target) ==
    LET path == Append(SubSeq(stack, start, Len(stack)), target)
    IN  [i \in 1 .. Len(path) - 1 |->
            [source |-> path[i], relation |-> Label(<<path[i], path[i + 1]>>), target |-> path[i + 1]]]

SearchInit ==
    /\ relations \in Input
    /\ color = [n \in Node |-> "white"]
    /\ stack = << >>
    /\ position = [n \in Node |-> 0]
    /\ examined = [n \in Node |-> {}]
    /\ cycle = << >>
    /\ verdict = "search"

EntryColor == "grey"

\* The prologue of dfs(node).
Enter(node) ==
    /\ color' = [color EXCEPT ![node] = EntryColor]
    /\ position' = [position EXCEPT ![node] = Len(stack) + 1]
    /\ stack' = Append(stack, node)

Caller == stack[Len(stack)]

\* The smallest target the loop of the active call has not looked at.
IsNextTarget(target) ==
    /\ target \in Targets(Caller) \ examined[Caller]
    /\ \A other \in Targets(Caller) \ examined[Caller] : target <= other

\* The outer loop calls dfs for the next unseen node.
StartRoot ==
    /\ verdict = "search"
    /\ stack = << >>
    /\ \E node \in GraphNodes :
        /\ color[node] = "white"
        /\ \A other \in GraphNodes : color[other] = "white" => node <= other
        /\ Enter(node)
    /\ UNCHANGED <<relations, examined, cycle, verdict>>

Unseen(target) == color[target] = "white"

Descend ==
    /\ verdict = "search"
    /\ stack # << >>
    /\ \E target \in Node :
        /\ IsNextTarget(target)
        /\ Unseen(target)
        /\ examined' = [examined EXCEPT ![Caller] = @ \cup {target}]
        /\ Enter(target)
    /\ UNCHANGED <<relations, cycle, verdict>>

\* A finished target is passed over.
PassOver ==
    /\ verdict = "search"
    /\ stack # << >>
    /\ \E target \in Node :
        /\ IsNextTarget(target)
        /\ color[target] = "black"
        /\ examined' = [examined EXCEPT ![Caller] = @ \cup {target}]
    /\ UNCHANGED <<relations, color, stack, position, cycle, verdict>>

\* A target on the stack closes a cycle; every active call returns it.
Close ==
    /\ verdict = "search"
    /\ stack # << >>
    /\ \E target \in Node :
        /\ IsNextTarget(target)
        /\ color[target] = "grey"
        /\ cycle' = CycleFrom(position[target], target)
    /\ verdict' = "found"
    /\ UNCHANGED <<relations, color, stack, position, examined>>

\* Mutant: a finished node may be searched again.
Unmarked == "white"

ExitColor == "black"

\* The epilogue of dfs: no target left.
Leave ==
    /\ verdict = "search"
    /\ stack # << >>
    /\ Targets(Caller) \subseteq examined[Caller]
    /\ stack' = SubSeq(stack, 1, Len(stack) - 1)
    /\ position' = [position EXCEPT ![Caller] = 0]
    /\ color' = [color EXCEPT ![Caller] = ExitColor]
    /\ UNCHANGED <<relations, examined, cycle, verdict>>

ReturnNone ==
    /\ verdict = "search"
    /\ stack = << >>
    /\ \A node \in GraphNodes : color[node] # "white"
    /\ verdict' = "none"
    /\ UNCHANGED <<relations, color, stack, position, examined, cycle>>

SearchNext == StartRoot \/ Descend \/ PassOver \/ Close \/ Leave \/ ReturnNone

SearchSpec == SearchInit /\ [][SearchNext]_searchVars

-----------------------------------------------------------------------------
(* What `check_axiom` and the reports rely on in `find_labeled_cycle`. *)

LabelledEdge == [source : Node, relation : 1 .. Len(relations), target : Node]

\* The stack is a path of distinct grey nodes, however the search backtracks.
SearchTypeOK ==
    /\ relations \in Seq(SUBSET (Node \X Node))
    /\ color \in [Node -> {"white", "grey", "black"}]
    /\ stack \in Seq(Node)
    /\ Len(stack) <= Cardinality(Node)
    /\ position \in [Node -> Nat]
    /\ examined \in [Node -> SUBSET Node]
    /\ cycle \in Seq(LabelledEdge)
    /\ verdict \in {"search", "found", "none"}

\* A reported edge is an edge of the relation it is labelled with, and of no
\* relation the axiom lists before that one.
LabelledFirst(edge) ==
    /\ <<edge.source, edge.target>> \in relations[edge.relation]
    /\ \A j \in 1 .. edge.relation - 1 : <<edge.source, edge.target>> \notin relations[j]

\* The diagnostic of a violated axiom is a simple cycle of the graph: its edges
\* follow each other, the last ends where the first begins, no node is met twice.
ReportedCycleIsReal ==
    verdict = "found" =>
        /\ cycle # << >>
        /\ \A i \in DOMAIN cycle : LabelledFirst(cycle[i])
        /\ \A i \in 1 .. Len(cycle) - 1 : cycle[i].target = cycle[i + 1].source
        /\ cycle[Len(cycle)].target = cycle[1].source
        /\ \A i, j \in DOMAIN cycle : cycle[i].source = cycle[j].source => i = j

\* None is returned exactly for an acyclic union: an axiom never holds on a graph
\* with a cycle because the search passed over it, nor fails without one.
NoneMeansAcyclic ==
    /\ verdict = "none" => ~ Cyclic(Node, Edges)
    /\ verdict = "found" => Cyclic(Node, Edges)

\* Why no cycle is passed over: every edge out of a finished node leads to a
\* finished node, so passing over a finished target loses nothing.
FinishedIsClosed ==
    \A edge \in Edges : color[edge[1]] = "black" => color[edge[2]] = "black"
=============================================================================
