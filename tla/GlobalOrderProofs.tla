------------------------- MODULE GlobalOrderProofs -------------------------
(***************************************************************************)
(* Proofs, for every finite set of nodes and every input, of what          *)
(* TopologicalOrder states about `_topological_total_order`, CycleSearch   *)
(* about `find_labeled_cycle`, and GlobalOrder about their agreement.      *)
(*                                                                         *)
(* The sort: the in-degree table counts remaining predecessors, so an      *)
(* emitted node has only emitted predecessors, so the emitted nodes avoid  *)
(* every predecessor-closed set; when nothing is ready any more, the nodes *)
(* that remain form such a set.  No induction on paths is needed.          *)
(*                                                                         *)
(* The search: the stack is the path of grey nodes, and what a call has    *)
(* examined is black or next on that path.  So a node is blackened when    *)
(* all its targets are black: no black node lies on a cycle with a node    *)
(* blackened later, and the black nodes stay acyclic.                      *)
(***************************************************************************)
EXTENDS GlobalOrder, FiniteSetTheorems, SequenceTheorems, TLAPS

\* A non-empty set of naturals has a least element: the intervals up to its elements
\* are finite sets, and strict inclusion of finite sets is well-founded.
LEMMA LeastNatural ==
    ASSUME NEW S \in SUBSET Nat, S # {}
    PROVE  \E n \in S : \A m \in S : n <= m
<1> DEFINE T == {0 .. n : n \in S}
<1>1. T # {} /\ T \subseteq FiniteSubsetsOf(Nat)
  <2>1. \A n \in S : IsFiniteSet(0 .. n) /\ 0 .. n \in SUBSET Nat
    BY FS_Interval
  <2> QED
    BY <2>1, Zenon DEF FiniteSubsetsOf
<1>2. PICK t \in T : \A u \in T : ~ (<<u, t>> \in StrictSubsetOrdering(Nat))
  <2> HIDE DEF T
  <2> QED
    BY <1>1, WFMin, FS_StrictSubsetOrderingWellFounded
<1>3. PICK n \in S : t = 0 .. n
  OBVIOUS
<1>4. ASSUME NEW m \in S, m < n PROVE <<0 .. m, 0 .. n>> \in StrictSubsetOrdering(Nat)
  <2>1. 0 .. m \subseteq 0 .. n /\ 0 .. n \subseteq Nat /\ n \in 0 .. n /\ n \notin 0 .. m
    BY <1>4
  <2> QED
    BY <2>1 DEF StrictSubsetOrdering
<1>5. \A m \in S : ~ (m < n)
  BY <1>2, <1>3, <1>4, Zenon
<1> QED
  BY <1>5

-----------------------------------------------------------------------------
(* The topological sort. *)

Remaining == Node \ Emitted

\* The tables hold exactly the edges of the relations read so far.
TablesLoaded ==
    /\ successors = UNION {relations[i] : i \in 1 .. loaded}
    /\ phase # "load" => loaded = Len(relations)

\* Before the loop nothing is emitted; from then on, ready is exact.
ReadyIsExact ==
    /\ phase = "load" => order = << >> /\ ready = {}
    /\ phase # "load" => ready = {n \in Remaining : indegree[n] = 0}
    /\ phase = "done" => ready = {}

EmittedOnce ==
    /\ \A i, j \in 1 .. Len(order) : order[i] = order[j] => i = j
    /\ IsFiniteSet(Emitted) /\ Cardinality(Emitted) = Len(order)

\* A node is emitted after all its predecessors.
EmittedAfterPredecessors ==
    \A j \in 1 .. Len(order) : \A m \in Node :
        <<m, order[j]>> \in successors => \E i \in 1 .. j - 1 : order[i] = m

\* No node of a predecessor-closed set is ever emitted.
EmittedAvoidsCycles ==
    phase # "load" => \A S \in SUBSET Node :
        PredecessorClosed(S, successors) => S \cap Emitted = {}

\* A node smaller than one already emitted was waiting for a predecessor then.
WaitedForPredecessor ==
    \A n \in Remaining : \A i \in 1 .. Len(order) : n < order[i] =>
        \E m \in Node : <<m, n>> \in successors /\ \A k \in 1 .. i - 1 : order[k] # m

IInv ==
    /\ TypeOK
    /\ TablesLoaded
    /\ ReadyIsExact
    /\ EmittedOnce
    /\ IndegreeCountsPredecessors
    /\ EmittedAfterPredecessors
    /\ EmittedAvoidsCycles
    /\ WaitedForPredecessor
    /\ SmallestFirst

-----------------------------------------------------------------------------
(* Facts about counting and about the helper operators. *)

LEMMA CountIsNat ==
    ASSUME NEW S \in SUBSET Node
    PROVE  IsFiniteSet(S) /\ Cardinality(S) \in Nat /\ (Cardinality(S) = 0 <=> S = {})
BY NodeAssumption, FS_Subset, FS_CardinalityType, FS_EmptySet

LEMMA CountOfDisjointUnion ==
    ASSUME NEW A \in SUBSET Node, NEW B \in SUBSET Node, NEW C,
           A \cup B = C, A \cap B = {}
    PROVE  Cardinality(C) = Cardinality(A) + Cardinality(B)
<1>1. Cardinality(A \cup B) = Cardinality(A) + Cardinality(B) - Cardinality(A \cap B)
  BY CountIsNat, FS_Union
<1>2. Cardinality(A) \in Nat /\ Cardinality(B) \in Nat /\ Cardinality(A \cap B) = 0
  BY CountIsNat, FS_EmptySet
<1>3. Cardinality(C) = Cardinality(A \cup B)
  BY Zenon
<1> QED
  BY <1>1, <1>2, <1>3

LEMMA EdgesOfInput ==
    ASSUME TypeOK
    PROVE  /\ Edges \in SUBSET (Node \X Node)
           /\ loaded = Len(relations) /\ TablesLoaded => successors = Edges
BY DEF TypeOK, Edges, TablesLoaded

\* The effect of appending one node that was not emitted yet.
LEMMA EmitExtends ==
    ASSUME TypeOK, NEW node \in Node, order' = Append(order, node)
    PROVE  /\ order' \in Seq(Node)
           /\ Len(order') = Len(order) + 1
           /\ order'[Len(order) + 1] = node
           /\ \A i \in 1 .. Len(order) : order'[i] = order[i]
           /\ Emitted' = Emitted \cup {node}
<1>1. order \in Seq(Node) /\ Len(order) \in Nat
  BY DEF TypeOK
<1>2. /\ order' \in Seq(Node)
      /\ Len(order') = Len(order) + 1
      /\ order'[Len(order) + 1] = node
      /\ \A i \in 1 .. Len(order) : order'[i] = order[i]
  BY <1>1
<1>3. Emitted' = Emitted \cup {node}
  BY <1>1, <1>2 DEF Emitted
<1> QED
  BY <1>2, <1>3

LEMMA EmittedIsNodes ==
    ASSUME TypeOK
    PROVE  Emitted \in SUBSET Node /\ Remaining \in SUBSET Node
BY DEF TypeOK, Emitted, Remaining

-----------------------------------------------------------------------------
(* The inductive invariant holds initially. *)

LEMMA InitIInv == Init => IInv
<1> SUFFICES ASSUME Init PROVE IInv
  OBVIOUS
<1> USE DEF Init
<1>1. TypeOK
  BY InputAssumption DEF TypeOK
<1>2. Emitted = {} /\ successors = {} /\ Len(order) = 0
  BY DEF Emitted
<1>3. TablesLoaded /\ ReadyIsExact
  BY DEF TablesLoaded, ReadyIsExact
<1>4. EmittedOnce
  BY <1>2, FS_EmptySet DEF EmittedOnce
<1>5. IndegreeCountsPredecessors
  <2> SUFFICES ASSUME NEW n \in Node
               PROVE  indegree[n] = Cardinality({m \in Node \ Emitted : <<m, n>> \in successors})
    BY DEF IndegreeCountsPredecessors
  <2>1. {m \in Node \ Emitted : <<m, n>> \in successors} = {}
    BY <1>2
  <2> QED
    BY <2>1, FS_EmptySet
<1>6. EmittedAfterPredecessors /\ EmittedAvoidsCycles /\ WaitedForPredecessor /\ SmallestFirst
  BY <1>2 DEF EmittedAfterPredecessors, EmittedAvoidsCycles, WaitedForPredecessor, SmallestFirst
<1> QED
  BY <1>1, <1>3, <1>4, <1>5, <1>6 DEF IInv

-----------------------------------------------------------------------------
(* Every action preserves it. *)

LEMMA LoadPreserves == IInv /\ LoadRelation => IInv'
<1> SUFFICES ASSUME IInv, LoadRelation PROVE IInv'
  OBVIOUS
<1> USE DEF LoadRelation, NewEdges
<1> DEFINE new == relations[loaded + 1]
           Before(n) == {m \in Node : <<m, n>> \in successors}
           Added(n) == {m \in Node : <<m, n>> \in new \ successors}
           After(n) == {m \in Node : <<m, n>> \in successors'}
<1>0. TypeOK /\ TablesLoaded /\ ReadyIsExact /\ IndegreeCountsPredecessors
  BY DEF IInv
<1>1. new \in SUBSET (Node \X Node)
  BY <1>0 DEF TypeOK
<1>2. Emitted = {} /\ order = << >> /\ Emitted' = {} /\ order' = << >>
  BY <1>0 DEF ReadyIsExact, Emitted
<1>3. ASSUME NEW n \in Node
      PROVE  /\ indegree'[n] = Cardinality(After(n))
             /\ indegree'[n] \in Nat
  <2>1. /\ Before(n) \cup Added(n) = After(n)
        /\ Before(n) \cap Added(n) = {}
    OBVIOUS
  <2>2. indegree[n] = Cardinality(Before(n))
    BY <1>0, <1>2 DEF IndegreeCountsPredecessors
  <2>3. Cardinality(After(n)) = Cardinality(Before(n)) + Cardinality(Added(n))
    BY <2>1, CountOfDisjointUnion
  <2>4. indegree'[n] = indegree[n] + Cardinality(Added(n))
    OBVIOUS
  <2>5. Cardinality(After(n)) \in Nat
    BY CountIsNat
  <2> QED
    BY <2>2, <2>3, <2>4, <2>5
<1>4. TypeOK'
  <2>1. indegree' \in [Node -> Nat]
    BY <1>3
  <2> QED
    BY <1>0, <1>1, <2>1 DEF TypeOK
<1>5. TablesLoaded'
  <2>1. 1 .. loaded' = (1 .. loaded) \cup {loaded + 1}
    BY <1>0 DEF TypeOK
  <2> QED
    BY <1>0, <2>1 DEF TablesLoaded
<1>6. IndegreeCountsPredecessors'
  BY <1>2, <1>3 DEF IndegreeCountsPredecessors
<1>7. ReadyIsExact' /\ EmittedOnce' /\ EmittedAvoidsCycles'
  BY <1>0, <1>2, FS_EmptySet DEF ReadyIsExact, EmittedOnce, EmittedAvoidsCycles
<1>8. EmittedAfterPredecessors' /\ WaitedForPredecessor' /\ SmallestFirst'
  BY <1>2 DEF EmittedAfterPredecessors, WaitedForPredecessor, SmallestFirst
<1> QED
  BY <1>4, <1>5, <1>6, <1>7, <1>8 DEF IInv

LEMMA CollectPreserves == IInv /\ CollectReady => IInv'
<1> SUFFICES ASSUME IInv, CollectReady PROVE IInv'
  OBVIOUS
<1> USE DEF CollectReady
<1>0. TypeOK /\ TablesLoaded /\ ReadyIsExact /\ IndegreeCountsPredecessors
  BY DEF IInv
<1>1. Emitted = {} /\ order = << >> /\ Emitted' = {} /\ order' = << >>
  BY <1>0 DEF ReadyIsExact, Emitted
<1>2. TypeOK' /\ TablesLoaded' /\ IndegreeCountsPredecessors'
  BY <1>0, <1>1 DEF TypeOK, TablesLoaded, IndegreeCountsPredecessors
<1>3. ReadyIsExact' /\ EmittedOnce' /\ EmittedAvoidsCycles'
  BY <1>0, <1>1, FS_EmptySet DEF ReadyIsExact, EmittedOnce, EmittedAvoidsCycles, Remaining
<1>4. EmittedAfterPredecessors' /\ WaitedForPredecessor' /\ SmallestFirst'
  BY <1>1 DEF EmittedAfterPredecessors, WaitedForPredecessor, SmallestFirst
<1> QED
  BY <1>2, <1>3, <1>4 DEF IInv

LEMMA EmitPreserves == IInv /\ Emit => IInv'
<1> SUFFICES ASSUME IInv, Emit PROVE IInv'
  OBVIOUS
<1>1. PICK node \in ready :
        /\ \A other \in ready : node <= other
        /\ order' = Append(order, node)
        /\ indegree' = Released(node)
        /\ ready' = (ready \ {node}) \cup
                {n \in Node : <<node, n>> \in successors /\ indegree[n] = 1}
  BY DEF Emit, SmallestReady, LastPredecessor
<1> DEFINE Left(n) == {m \in Remaining : <<m, n>> \in successors}
<1>2. /\ TypeOK /\ TablesLoaded /\ ReadyIsExact /\ EmittedOnce
      /\ IndegreeCountsPredecessors /\ EmittedAfterPredecessors
      /\ EmittedAvoidsCycles /\ WaitedForPredecessor /\ SmallestFirst
  BY DEF IInv
<1>3. /\ phase = "drain" /\ phase' = "drain"
      /\ UNCHANGED <<relations, loaded, successors>>
  BY DEF Emit, SmallestReady, LastPredecessor
<1>4. node \in Node /\ node \in Remaining /\ indegree[node] = 0
  BY <1>2, <1>3 DEF ReadyIsExact, Remaining
<1>5. /\ order \in Seq(Node) /\ Len(order) \in Nat
      /\ order' \in Seq(Node)
      /\ Len(order') = Len(order) + 1
      /\ order'[Len(order) + 1] = node
      /\ \A i \in 1 .. Len(order) : order'[i] = order[i]
      /\ Emitted' = Emitted \cup {node}
  BY <1>1, <1>2, <1>4, EmitExtends DEF TypeOK
<1>6. 1 .. Len(order') = (1 .. Len(order)) \cup {Len(order) + 1}
  BY <1>5
<1>7. Remaining' = Remaining \ {node}
  BY <1>5 DEF Remaining
<1>8. \A n \in Node : Left(n) \in SUBSET Node /\ indegree[n] = Cardinality(Left(n))
  BY <1>2 DEF IndegreeCountsPredecessors, Remaining
\* Every predecessor of the emitted node was emitted before.
<1>9. \A m \in Node : <<m, node>> \in successors => m \in Emitted
  <2>1. Left(node) = {}
    BY <1>4, <1>8, CountIsNat
  <2> QED
    BY <2>1 DEF Remaining
<1>10. ASSUME NEW n \in Node
       PROVE  /\ indegree'[n] = Cardinality(Left(n) \ {node})
              /\ indegree'[n] \in Nat
              /\ indegree'[n] = IF <<node, n>> \in successors THEN indegree[n] - 1 ELSE indegree[n]
  <2>1. indegree'[n] = IF <<node, n>> \in successors THEN indegree[n] - 1 ELSE indegree[n]
    BY <1>1 DEF Released
  <2>2. node \in Left(n) <=> <<node, n>> \in successors
    BY <1>4
  <2>3. /\ IsFiniteSet(Left(n))
        /\ Cardinality(Left(n) \ {node}) \in Nat
    <3>1. Left(n) \in SUBSET Node /\ Left(n) \ {node} \in SUBSET Node
      BY <1>8
    <3> QED
      BY <3>1, CountIsNat
  <2>4. Cardinality(Left(n) \ {node}) =
            IF node \in Left(n) THEN Cardinality(Left(n)) - 1 ELSE Cardinality(Left(n))
    <3> HIDE DEF Left
    <3> QED
      BY <2>3, FS_RemoveElement
  <2> QED
    BY <1>8, <2>1, <2>2, <2>3, <2>4
<1>11. TypeOK'
  <2>1. indegree' \in [Node -> Nat]
    BY <1>1, <1>10 DEF Released
  <2> QED
    BY <1>1, <1>2, <1>3, <1>5, <2>1 DEF TypeOK
<1>12. TablesLoaded'
  BY <1>2, <1>3 DEF TablesLoaded
<1>13. IndegreeCountsPredecessors'
  <2> SUFFICES ASSUME NEW n \in Node
               PROVE  indegree'[n] = Cardinality({m \in Node \ Emitted' : <<m, n>> \in successors'})
    BY DEF IndegreeCountsPredecessors
  <2>1. {m \in Node \ Emitted' : <<m, n>> \in successors'} = Left(n) \ {node}
    BY <1>3, <1>5 DEF Remaining
  <2> QED
    BY <1>10, <2>1
<1>14. ReadyIsExact'
  <2>1. ready = {n \in Remaining : indegree[n] = 0}
    BY <1>2, <1>3 DEF ReadyIsExact
  <2>2. ASSUME NEW n \in Node
        PROVE  n \in ready' <=> n \in Remaining' /\ indegree'[n] = 0
    <3>1. CASE <<node, n>> \in successors
      <4>1. n \notin ready /\ n # node
        BY <1>4, <1>9, <2>1, <3>1, <1>8, CountIsNat DEF Remaining
      <4>2. n \in Remaining
        <5>1. n \in Emitted => \E j \in 1 .. Len(order) : order[j] = n
          BY DEF Emitted
        <5>2. \A j \in 1 .. Len(order) : order[j] = n => \E i \in 1 .. j - 1 : order[i] = node
          BY <1>2, <1>4, <3>1 DEF EmittedAfterPredecessors
        <5>3. \A j \in 1 .. Len(order) : \A i \in 1 .. j - 1 : order[i] \in Emitted
          BY <1>5 DEF Emitted
        <5> QED
          BY <1>4, <5>1, <5>2, <5>3 DEF Remaining
      <4>3. n \in ready' <=> indegree[n] = 1
        BY <1>1, <3>1, <4>1
      <4>4. indegree'[n] = indegree[n] - 1 /\ indegree[n] \in Nat
        BY <1>2, <1>10, <3>1 DEF TypeOK
      <4> QED
        BY <1>7, <4>1, <4>2, <4>3, <4>4
    <3>2. CASE <<node, n>> \notin successors
      <4>1. indegree'[n] = indegree[n]
        BY <1>10, <3>2
      <4> QED
        BY <1>1, <1>7, <2>1, <3>2, <4>1
    <3> QED
      BY <3>1, <3>2
  <2>3. ready' \in SUBSET Node /\ Remaining' \in SUBSET Node
    BY <1>11 DEF TypeOK, Remaining
  <2>4. ready' = {n \in Remaining' : indegree'[n] = 0}
    BY <2>2, <2>3
  <2> QED
    BY <1>3, <2>4 DEF ReadyIsExact
<1>15. EmittedOnce'
  <2>1. \A i \in 1 .. Len(order) : order[i] # node
    BY <1>4 DEF Emitted, Remaining
  <2>2. \A i, j \in 1 .. Len(order') : order'[i] = order'[j] => i = j
    BY <1>2, <1>5, <1>6, <2>1 DEF EmittedOnce
  <2>3. IsFiniteSet(Emitted') /\ Cardinality(Emitted') = Len(order')
    <3>1. node \notin Emitted
      BY <1>4 DEF Remaining
    <3>2. IsFiniteSet(Emitted) /\ Cardinality(Emitted) = Len(order)
      BY <1>2 DEF EmittedOnce
    <3>3. /\ IsFiniteSet(Emitted \cup {node})
          /\ Cardinality(Emitted \cup {node}) = Cardinality(Emitted) + 1
      <4> HIDE DEF Emitted
      <4> QED
        BY <3>1, <3>2, FS_AddElement
    <3>4. Emitted' = Emitted \cup {node} /\ Len(order') = Len(order) + 1
      BY <1>2, <1>5
    <3> QED
      BY <3>2, <3>3, <3>4
  <2> QED
    BY <2>2, <2>3 DEF EmittedOnce
<1>16. EmittedAfterPredecessors'
  <2> SUFFICES ASSUME NEW j \in 1 .. Len(order'), NEW m \in Node,
                      <<m, order'[j]>> \in successors
               PROVE  \E i \in 1 .. j - 1 : order'[i] = m
    BY <1>3 DEF EmittedAfterPredecessors
  <2>1. CASE j \in 1 .. Len(order)
    <3>1. PICK i \in 1 .. j - 1 : order[i] = m
      BY <1>2, <1>5, <2>1 DEF EmittedAfterPredecessors
    <3>2. i \in 1 .. Len(order)
      BY <1>5, <2>1, <3>1
    <3> QED
      BY <1>5, <3>1, <3>2
  <2>2. CASE j = Len(order) + 1
    <3>1. m \in Emitted
      BY <1>5, <1>9, <2>2
    <3>2. PICK i \in 1 .. Len(order) : order[i] = m
      BY <3>1 DEF Emitted
    <3> QED
      BY <1>5, <2>2, <3>2
  <2> QED
    BY <1>6, <2>1, <2>2
<1>17. EmittedAvoidsCycles'
  <2> SUFFICES ASSUME NEW S \in SUBSET Node, PredecessorClosed(S, successors)
               PROVE  S \cap Emitted' = {}
    BY <1>3 DEF EmittedAvoidsCycles
  <2>1. S \cap Emitted = {}
    BY <1>2, <1>3 DEF EmittedAvoidsCycles
  <2>2. node \notin S
    BY <1>9, <2>1 DEF PredecessorClosed
  <2> QED
    BY <1>5, <2>1, <2>2
<1>18. WaitedForPredecessor'
  <2> SUFFICES ASSUME NEW n \in Remaining', NEW i \in 1 .. Len(order'), n < order'[i]
               PROVE  \E m \in Node : <<m, n>> \in successors /\ \A k \in 1 .. i - 1 : order'[k] # m
    BY <1>3 DEF WaitedForPredecessor
  <2>0. n \in Node /\ n \in Remaining
    BY <1>7 DEF Remaining
  <2>1. CASE i \in 1 .. Len(order)
    <3>1. PICK m \in Node : <<m, n>> \in successors /\ \A k \in 1 .. i - 1 : order[k] # m
      BY <1>2, <1>5, <2>0, <2>1 DEF WaitedForPredecessor
    <3>2. \A k \in 1 .. i - 1 : order'[k] = order[k]
      BY <1>5, <2>1
    <3> QED
      BY <3>1, <3>2
  <2>2. CASE i = Len(order) + 1
    <3>1. n \notin ready
      <4>1. n < node /\ n \in Nat /\ node \in Nat
        BY <1>4, <1>5, <2>0, <2>2, NodeAssumption
      <4> QED
        BY <1>1, <4>1
    <3>2. Left(n) # {}
      BY <1>2, <1>3, <1>8, <2>0, <3>1, FS_EmptySet DEF ReadyIsExact
    <3>3. PICK m \in Left(n) : TRUE
      BY <3>2
    <3>4. m \in Node /\ m \notin Emitted /\ <<m, n>> \in successors
      BY <3>3 DEF Remaining
    <3>5. \A k \in 1 .. Len(order) : order'[k] # m
      BY <1>5, <3>4 DEF Emitted
    <3>6. i - 1 = Len(order)
      BY <1>5, <2>2
    <3> QED
      BY <3>4, <3>5, <3>6
  <2> QED
    BY <1>6, <2>1, <2>2
<1>19. SmallestFirst'
  <2>0. Edges' = Edges /\ Edges = successors
    BY <1>2, <1>3, EdgesOfInput DEF TablesLoaded, Edges
  <2> SUFFICES ASSUME NEW i \in 1 .. Len(order'), NEW j \in 1 .. Len(order'),
                      i < j, order'[j] < order'[i]
               PROVE  \E k \in i .. j - 1 : <<order'[k], order'[j]>> \in Edges
    BY <2>0 DEF SmallestFirst
  <2>1. i \in 1 .. Len(order) /\ order'[i] = order[i]
    BY <1>5
  <2>2. CASE j \in 1 .. Len(order)
    <3>1. PICK k \in i .. j - 1 : <<order[k], order[j]>> \in Edges
      BY <1>2, <1>5, <2>1, <2>2 DEF SmallestFirst
    <3>2. order'[k] = order[k] /\ order'[j] = order[j]
      BY <1>5, <2>1, <2>2
    <3> QED
      BY <3>1, <3>2
  <2>3. CASE j = Len(order) + 1
    <3>1. node < order[i]
      BY <1>5, <2>1, <2>3
    <3>2. PICK m \in Node : <<m, node>> \in successors /\ \A k \in 1 .. i - 1 : order[k] # m
      BY <1>2, <1>4, <2>1, <3>1 DEF WaitedForPredecessor
    <3>3. PICK k \in 1 .. Len(order) : order[k] = m
      BY <1>9, <3>2 DEF Emitted
    <3>4. k \in i .. j - 1
      BY <1>5, <2>1, <2>3, <3>2, <3>3
    <3> QED
      BY <1>5, <2>0, <2>3, <3>2, <3>3, <3>4
  <2> QED
    BY <1>6, <2>2, <2>3
<1> QED
  BY <1>11, <1>12, <1>13, <1>14, <1>15, <1>16, <1>17, <1>18, <1>19 DEF IInv

LEMMA ReturnPreserves == IInv /\ Return => IInv'
<1> SUFFICES ASSUME IInv, Return PROVE IInv'
  OBVIOUS
<1>1. /\ phase = "drain" /\ ready = {} /\ phase' = "done"
      /\ UNCHANGED <<relations, loaded, successors, indegree, ready, order>>
  BY DEF Return
<1>2. Emitted' = Emitted /\ Remaining' = Remaining /\ Edges' = Edges
  BY <1>1 DEF Remaining, Emitted, Edges
<1>3. TypeOK' /\ TablesLoaded'
  BY <1>1 DEF IInv, TypeOK, TablesLoaded
<1>4. ReadyIsExact'
  BY <1>1, <1>2 DEF IInv, ReadyIsExact
<1>5. EmittedOnce' /\ EmittedAfterPredecessors' /\ IndegreeCountsPredecessors'
  BY <1>1, <1>2 DEF IInv, EmittedOnce, EmittedAfterPredecessors, IndegreeCountsPredecessors
<1>6. EmittedAvoidsCycles' /\ WaitedForPredecessor' /\ SmallestFirst'
  BY <1>1, <1>2 DEF IInv, EmittedAvoidsCycles, WaitedForPredecessor, SmallestFirst
<1> QED
  BY <1>3, <1>4, <1>5, <1>6 DEF IInv

LEMMA StutterPreserves == IInv /\ UNCHANGED vars => IInv'
<1> SUFFICES ASSUME IInv, UNCHANGED vars PROVE IInv'
  OBVIOUS
<1>1. UNCHANGED <<relations, loaded, successors, indegree, ready, order, phase>>
  BY DEF vars
<1>2. Emitted' = Emitted /\ Remaining' = Remaining /\ Edges' = Edges
  BY <1>1 DEF Remaining, Emitted, Edges
<1>3. TypeOK' /\ TablesLoaded'
  BY <1>1 DEF IInv, TypeOK, TablesLoaded
<1>4. ReadyIsExact'
  <2>1. {n \in Remaining' : indegree'[n] = 0} = {n \in Remaining : indegree[n] = 0}
    BY <1>1, <1>2
  <2> QED
    BY <1>1, <2>1, Zenon DEF IInv, ReadyIsExact
<1>5. EmittedOnce' /\ EmittedAfterPredecessors' /\ IndegreeCountsPredecessors'
  BY <1>1, <1>2 DEF IInv, EmittedOnce, EmittedAfterPredecessors, IndegreeCountsPredecessors
<1>6. EmittedAvoidsCycles'
  BY <1>1, <1>2, Zenon DEF IInv, EmittedAvoidsCycles
<1>7. WaitedForPredecessor'
  <2>1. order \in Seq(Node) /\ Remaining \in SUBSET Nat
    BY NodeAssumption DEF IInv, TypeOK, Remaining
  <2> QED
    BY <1>1, <1>2, <2>1 DEF IInv, WaitedForPredecessor
<1>8. SmallestFirst'
  BY <1>1, <1>2 DEF IInv, SmallestFirst
<1> QED
  BY <1>3, <1>4, <1>5, <1>6, <1>7, <1>8 DEF IInv

LEMMA NextPreserves == IInv /\ [Next]_vars => IInv'
BY LoadPreserves, CollectPreserves, EmitPreserves, ReturnPreserves, StutterPreserves
   DEF Next

LEMMA Inductive == Spec => []IInv
BY InitIInv, NextPreserves, PTL DEF Spec

-----------------------------------------------------------------------------
(* What the invariant implies. *)

\* An order of full length lists every operation, since none is listed twice.
LEMMA OrderedListsAllNodes == IInv /\ Ordered => Emitted = Node
BY NodeAssumption, EmittedIsNodes, FS_Subset DEF IInv, Ordered, EmittedOnce

LEMMA CompleteWhenDone ==
    ASSUME IInv, phase = "done"
    PROVE  /\ successors = Edges
           /\ \A n \in Remaining : \E m \in Remaining : <<m, n>> \in Edges
<1>1. successors = Edges
  BY EdgesOfInput DEF IInv, TablesLoaded
<1>2. ASSUME NEW n \in Remaining PROVE \E m \in Remaining : <<m, n>> \in Edges
  <2>1. n \in Node /\ indegree[n] # 0
    BY <1>2 DEF IInv, ReadyIsExact, Remaining
  <2>2. {m \in Node \ Emitted : <<m, n>> \in successors} # {}
    BY <2>1, FS_EmptySet DEF IInv, IndegreeCountsPredecessors
  <2> QED
    BY <1>1, <2>2 DEF Remaining
<1> QED
  BY <1>1, <1>2

\* The tables, the ready list and the emitted order are well-typed in every reachable state.
THEOREM TypeCorrect == Spec => []TypeOK
BY Inductive, PTL DEF IInv

\* The in-degree table counts every remaining predecessor exactly once, which is
\* why an edge shared by ppo and co does not keep its target from being emitted.
THEOREM IndegreeCorrect == Spec => []IndegreeCountsPredecessors
BY Inductive, PTL DEF IInv

\* The returned order does not depend on set iteration: it is the least one.
THEOREM Deterministic == Spec => []SmallestFirst
BY Inductive, PTL DEF IInv

\* A returned order is the least linear extension of the union of the relations.
THEOREM OrderIsGmo == Spec => []ReturnedOrderIsGmo
<1>1. IInv => ReturnedOrderIsGmo
  <2> SUFFICES ASSUME IInv, phase = "done", Ordered
               PROVE  IsLinearExtension(order, Node, Edges)
    BY DEF ReturnedOrderIsGmo, IInv
  <2>1. /\ order \in Seq(Node) /\ Len(order) = Cardinality(Node)
        /\ DOMAIN order = 1 .. Cardinality(Node)
    BY DEF IInv, TypeOK, Ordered
  <2>2. Node = {order[i] : i \in DOMAIN order}
    BY <2>1, OrderedListsAllNodes DEF Emitted
  <2>3. ASSUME NEW i \in DOMAIN order, NEW j \in DOMAIN order,
               <<order[i], order[j]>> \in Edges
        PROVE  i < j
    <3>1. /\ i \in 1 .. Len(order) /\ j \in 1 .. Len(order)
          /\ order[i] \in Node /\ <<order[i], order[j]>> \in successors
      BY <2>1, <2>3, CompleteWhenDone
    <3>2. PICK k \in 1 .. j - 1 : order[k] = order[i]
      BY <3>1 DEF IInv, EmittedAfterPredecessors
    <3>3. k \in 1 .. Len(order)
      BY <2>1, <3>1, <3>2
    <3>4. k = i
      BY <3>1, <3>2, <3>3 DEF IInv, EmittedOnce
    <3> QED
      BY <3>1, <3>2, <3>4
  <2> QED
    BY <2>1, <2>2, <2>3 DEF IsLinearExtension
<1> QED
  BY <1>1, Inductive, PTL

\* When the function returns, what was not emitted is exactly what lies on or behind
\* a cycle.
LEMMA CyclicWhenNone == IInv => NoneMeansCyclic
<1> SUFFICES ASSUME IInv, phase = "done"
             PROVE  ~ Ordered <=> Cyclic(Node, Edges)
  BY DEF NoneMeansCyclic
<1>1. ASSUME ~ Ordered PROVE Cyclic(Node, Edges)
  <2>1. Emitted # Node
    BY <1>1 DEF IInv, EmittedOnce, Ordered
  <2>2. Remaining # {} /\ Remaining \in SUBSET Node
    BY <2>1, EmittedIsNodes DEF IInv, Remaining
  <2> QED
    BY <2>2, CompleteWhenDone DEF Cyclic, PredecessorClosed
<1>2. ASSUME Ordered, Cyclic(Node, Edges) PROVE FALSE
  <2>1. PICK S \in SUBSET Node : S # {} /\ PredecessorClosed(S, successors)
    BY <1>2, CompleteWhenDone DEF Cyclic
  <2>2. S \cap Emitted = {}
    BY <2>1 DEF IInv, EmittedAvoidsCycles
  <2> QED
    BY <1>2, <2>1, <2>2, OrderedListsAllNodes
<1> QED
  BY <1>1, <1>2

\* None is returned if and only if the relations together have a cycle, the same
\* condition check_rvwmo reports as a violated rvwmo_global_memory_order axiom.
THEOREM NoneIffCyclic == Spec => []NoneMeansCyclic
BY CyclicWhenNone, Inductive, PTL

-----------------------------------------------------------------------------
(* The search for a labelled cycle. *)

Finished == {n \in Node : color[n] = "black"}

\* The stack is a path of exactly the grey nodes, each at its recorded position.
StackIsPath ==
    /\ \A i \in 1 .. Len(stack) : color[stack[i]] = "grey" /\ position[stack[i]] = i
    /\ \A n \in Node : color[n] = "grey" => \E i \in 1 .. Len(stack) : stack[i] = n
    /\ \A i \in 1 .. Len(stack) - 1 : <<stack[i], stack[i + 1]>> \in Edges

\* A target looked at is finished, or the call it led to is still active.
ExaminedIsBehind ==
    \A n \in Node : \A t \in examined[n] :
        color[t] = "black" \/ \E i \in 1 .. Len(stack) - 1 : stack[i] = n /\ stack[i + 1] = t

FinishedIsAcyclic == ~ Cyclic(Finished, Edges)

SearchIInv ==
    /\ SearchTypeOK
    /\ StackIsPath
    /\ ExaminedIsBehind
    /\ FinishedIsClosed
    /\ FinishedIsAcyclic
    /\ ReportedCycleIsReal
    /\ NoneMeansAcyclic

-----------------------------------------------------------------------------
(* Facts about the stack and about edge labels. *)

\* The stack never outgrows the nodes: the recorded positions tell its entries apart.
LEMMA StackIsShort ==
    ASSUME NEW s \in Seq(Node), NEW p, \A i \in 1 .. Len(s) : p[s[i]] = i
    PROVE  Len(s) <= Cardinality(Node)
<1>1. Len(s) \in Nat /\ s \in [1 .. Len(s) -> Node]
  OBVIOUS
<1>2. IsFiniteSet(1 .. Len(s)) /\ Cardinality(1 .. Len(s)) = Len(s)
  <2>1. IsFiniteSet(1 .. Len(s))
           /\ Cardinality(1 .. Len(s)) = IF 1 > Len(s) THEN 0 ELSE Len(s) - 1 + 1
    BY <1>1, FS_Interval
  <2> QED
    BY <1>1, <2>1
<1>3. s \in Injection(1 .. Len(s), Node)
  BY <1>1 DEF Injection, IsInjective
<1> QED
  BY <1>2, <1>3, NodeAssumption, FS_Injection

\* What setdefault records for an edge: the first relation that contains it.
LEMMA LabelIsFirst ==
    ASSUME relations \in Seq(SUBSET (Node \X Node)), NEW edge \in Edges
    PROVE  /\ Label(edge) \in 1 .. Len(relations)
           /\ edge \in relations[Label(edge)]
           /\ \A j \in 1 .. Label(edge) - 1 : edge \notin relations[j]
<1> DEFINE Having == {i \in 1 .. Len(relations) : edge \in relations[i]}
<1>1. Having \in SUBSET Nat /\ Having # {}
  BY DEF Edges
<1>2. PICK least \in Having : \A j \in Having : least <= j
  <2> HIDE DEF Having
  <2> QED
    BY <1>1, LeastNatural
<1>3. /\ Label(edge) \in 1 .. Len(relations)
      /\ edge \in relations[Label(edge)]
      /\ \A j \in 1 .. Len(relations) : edge \in relations[j] => Label(edge) <= j
  BY <1>2 DEF Label
<1> QED
  BY <1>3

LEMMA EdgesJoinNodes ==
    ASSUME relations \in Seq(SUBSET (Node \X Node))
    PROVE  Edges \in SUBSET (Node \X Node)
BY DEF Edges

\* The active call, when there is one.
LEMMA CallerIsGrey ==
    ASSUME SearchTypeOK, StackIsPath, stack # << >>
    PROVE  /\ Len(stack) \in Nat \ {0}
           /\ Caller \in Node /\ color[Caller] = "grey" /\ position[Caller] = Len(stack)
BY DEF SearchTypeOK, StackIsPath, Caller

\* The stack after a call returns.
LEMMA PopProperties ==
    ASSUME SearchTypeOK, stack # << >>, stack' = SubSeq(stack, 1, Len(stack) - 1)
    PROVE  /\ stack' \in Seq(Node)
           /\ Len(stack') = Len(stack) - 1
           /\ \A i \in 1 .. Len(stack) - 1 : stack'[i] = stack[i]
<1>1. stack \in Seq(Node) /\ Len(stack) \in Nat \ {0}
  BY DEF SearchTypeOK
<1>2. PICK n \in Nat : n = Len(stack) - 1
  BY <1>1
<1>3. n \in Int /\ 1 \in Int /\ \A i \in 1 .. n : stack[i] \in Node
  BY <1>1, <1>2
<1>4. /\ SubSeq(stack, 1, n) \in Seq(Node)
      /\ Len(SubSeq(stack, 1, n)) = IF 1 <= n THEN n - 1 + 1 ELSE 0
      /\ \A i \in 1 .. n - 1 + 1 : SubSeq(stack, 1, n)[i] = stack[1 + i - 1]
  BY <1>3, SubSeqProperties
<1>5. Len(SubSeq(stack, 1, n)) = n /\ \A i \in 1 .. n : SubSeq(stack, 1, n)[i] = stack[i]
  BY <1>4
<1> QED
  BY <1>2, <1>4, <1>5

\* What is reported when the active call meets a grey target: a path of edges from
\* that target to itself, which repeats no node before its end.
LEMMA ClosedPath ==
    ASSUME SearchTypeOK, StackIsPath, stack # << >>,
           NEW target \in Node, color[target] = "grey", <<Caller, target>> \in Edges
    PROVE  \E size \in Nat \ {0} : \E path \in [1 .. size + 1 -> Node] :
             /\ \A i \in 1 .. size : <<path[i], path[i + 1]>> \in Edges
             /\ path[1] = path[size + 1]
             /\ \A i, j \in 1 .. size : path[i] = path[j] => i = j
             /\ CycleFrom(position[target], target) = [i \in 1 .. size |->
                  [source |-> path[i], relation |-> Label(<<path[i], path[i + 1]>>),
                   target |-> path[i + 1]]]
<1>1. /\ Len(stack) \in Nat \ {0} /\ stack \in Seq(Node)
      /\ stack[Len(stack)] = Caller /\ Caller \in Node
  BY CallerIsGrey DEF SearchTypeOK, Caller
<1>2. PICK start \in 1 .. Len(stack) : start = position[target] /\ stack[start] = target
  BY DEF StackIsPath
<1>3. PICK size \in Nat \ {0} : size = Len(stack) - start + 1
  BY <1>1, <1>2
<1>4. PICK suffix : suffix = SubSeq(stack, start, Len(stack))
  OBVIOUS
<1>5. /\ suffix \in Seq(Node) /\ Len(suffix) = size
      /\ \A i \in 1 .. size : suffix[i] = stack[start + i - 1]
  <2>1. start \in Int /\ Len(stack) \in Int /\ start <= Len(stack)
           /\ \A i \in start .. Len(stack) : stack[i] \in Node
    BY <1>1, <1>2
  <2>2. /\ suffix \in Seq(Node)
        /\ Len(suffix) = IF start <= Len(stack) THEN Len(stack) - start + 1 ELSE 0
        /\ \A i \in 1 .. Len(stack) - start + 1 : suffix[i] = stack[start + i - 1]
    BY <2>1, <1>4, SubSeqProperties
  <2> QED
    BY <2>1, <2>2, <1>3
<1>6. PICK path : path = Append(suffix, target)
  OBVIOUS
<1>7. /\ path \in [1 .. size + 1 -> Node] /\ Len(path) = size + 1
      /\ \A i \in 1 .. size : path[i] = stack[start + i - 1]
      /\ path[size + 1] = target
  <2>1. suffix \in Seq(Node) /\ Len(suffix) = size
    BY <1>5
  <2>2. /\ path \in [1 .. size + 1 -> Node] /\ Len(path) = size + 1
        /\ path[size + 1] = target
        /\ \A i \in 1 .. size : path[i] = suffix[i]
    <3>1. path \in Seq(Node) /\ Len(path) = Len(suffix) + 1
      BY <2>1, <1>6
    <3>2. path[Len(suffix) + 1] = target
      BY <2>1, <1>6
    <3>3. \A i \in 1 .. Len(suffix) : path[i] = suffix[i]
      BY <2>1, <1>6
    <3>4. path \in [1 .. size + 1 -> Node] /\ Len(path) = size + 1
      BY <2>1, <3>1
    <3> QED
      BY <2>1, <3>2, <3>3, <3>4
  <2>3. \A i \in 1 .. size : suffix[i] = stack[start + i - 1]
    BY <1>5
  <2>4. \A i \in 1 .. size : path[i] = stack[start + i - 1]
    BY <2>2, <2>3, Zenon
  <2> QED
    BY <2>2, <2>4
<1>8. \A i \in 1 .. size : start + i - 1 \in 1 .. Len(stack)
  BY <1>1, <1>2, <1>3
<1>9. \A i \in 1 .. size : <<path[i], path[i + 1]>> \in Edges
  <2> SUFFICES ASSUME NEW i \in 1 .. size PROVE <<path[i], path[i + 1]>> \in Edges
    OBVIOUS
  <2>1. CASE i = size
    <3>1. start + size - 1 = Len(stack)
      BY <1>1, <1>2, <1>3
    <3>2. path[size] = stack[start + size - 1]
      BY <1>7
    <3> QED
      BY <2>1, <3>1, <3>2, <1>1, <1>7
  <2>2. CASE i < size
    <3>1. start + i - 1 \in 1 .. Len(stack) - 1 /\ i + 1 \in 1 .. size
      BY <2>2, <1>1, <1>2, <1>3
    <3>2. start + (i + 1) - 1 = (start + i - 1) + 1
      BY <1>2
    <3>3. path[i] = stack[start + i - 1] /\ path[i + 1] = stack[(start + i - 1) + 1]
      BY <3>1, <3>2, <1>7
    <3> QED
      BY <3>1, <3>3 DEF StackIsPath
  <2>3. i < size \/ i = size
    BY <1>3
  <2> QED
    BY <2>1, <2>2, <2>3
<1>10. path[1] = path[size + 1]
  <2>1. path[1] = stack[start + 1 - 1] /\ start + 1 - 1 = start
    BY <1>2, <1>7
  <2> QED
    BY <2>1, <1>2, <1>7
<1>11. \A i, j \in 1 .. size : path[i] = path[j] => i = j
  <2> SUFFICES ASSUME NEW i \in 1 .. size, NEW j \in 1 .. size, path[i] = path[j]
               PROVE  i = j
    OBVIOUS
  <2>1. stack[start + i - 1] = stack[start + j - 1]
    BY <1>7
  <2>2. start + i - 1 = start + j - 1
    BY <2>1, <1>8 DEF StackIsPath
  <2> QED
    BY <2>2, <1>2
<1>12. CycleFrom(position[target], target) = [i \in 1 .. size |->
          [source |-> path[i], relation |-> Label(<<path[i], path[i + 1]>>),
           target |-> path[i + 1]]]
  <2>1. CycleFrom(start, target) = [i \in 1 .. Len(path) - 1 |->
          [source |-> path[i], relation |-> Label(<<path[i], path[i + 1]>>),
           target |-> path[i + 1]]]
    BY <1>4, <1>6, Zenon DEF CycleFrom
  <2>2. Len(path) - 1 = size
    BY <1>7
  <2> QED
    BY <2>1, <2>2, <1>2, Zenon
<1> QED
  BY <1>3, <1>7, <1>9, <1>10, <1>11, <1>12

-----------------------------------------------------------------------------
(* The inductive invariant holds initially and is preserved by every step. *)

LEMMA SearchInitIInv == SearchInit => SearchIInv
<1> SUFFICES ASSUME SearchInit PROVE SearchIInv
  OBVIOUS
<1> USE DEF SearchInit
<1>1. SearchTypeOK
  <2>1. Cardinality(Node) \in Nat
    BY NodeAssumption, FS_CardinalityType
  <2>2. relations \in Seq(SUBSET (Node \X Node))
    BY InputAssumption
  <2> QED
    BY <2>1, <2>2 DEF SearchTypeOK
<1>2. StackIsPath /\ ExaminedIsBehind
  BY DEF StackIsPath, ExaminedIsBehind
<1>3. FinishedIsClosed
  BY <1>1, EdgesJoinNodes DEF FinishedIsClosed, SearchTypeOK
<1>4. FinishedIsAcyclic
  BY DEF FinishedIsAcyclic, Finished, Cyclic
<1>5. ReportedCycleIsReal /\ NoneMeansAcyclic
  BY DEF ReportedCycleIsReal, NoneMeansAcyclic
<1> QED
  BY <1>1, <1>2, <1>3, <1>4, <1>5 DEF SearchIInv

\* Entering an unseen node, from the outer loop or from the call that examines it.
LEMMA EnterKeepsIInv ==
    ASSUME SearchIInv, verdict = "search", NEW node \in Node, color[node] = "white", Enter(node),
           UNCHANGED <<relations, cycle, verdict>>,
           examined' \in [Node -> SUBSET Node],
           \/ stack = << >> /\ examined' = examined
           \/ /\ stack # << >>
              /\ <<Caller, node>> \in Edges
              /\ examined' = [examined EXCEPT ![Caller] = @ \cup {node}]
    PROVE  SearchIInv'
<1> USE DEF SearchIInv
<1>1. /\ stack \in Seq(Node) /\ Len(stack) \in Nat
      /\ stack' = Append(stack, node)
      /\ color' = [color EXCEPT ![node] = "grey"]
      /\ position' = [position EXCEPT ![node] = Len(stack) + 1]
  BY DEF SearchTypeOK, Enter, EntryColor
<1>2. /\ stack' \in Seq(Node) /\ Len(stack') = Len(stack) + 1
      /\ \A i \in 1 .. Len(stack) : stack'[i] = stack[i]
      /\ stack'[Len(stack) + 1] = node
  BY <1>1
<1>3. Edges' = Edges
  BY DEF Edges
<1>4. \A i \in 1 .. Len(stack) : stack[i] \in Node /\ stack[i] # node
  BY <1>1 DEF StackIsPath
<1>5. StackIsPath'
  <2>1. \A i \in 1 .. Len(stack') : color'[stack'[i]] = "grey" /\ position'[stack'[i]] = i
    BY <1>1, <1>2, <1>4 DEF SearchTypeOK, StackIsPath
  <2>2. \A n \in Node : color'[n] = "grey" => \E i \in 1 .. Len(stack') : stack'[i] = n
    <3> SUFFICES ASSUME NEW n \in Node, color'[n] = "grey"
                 PROVE  \E i \in 1 .. Len(stack') : stack'[i] = n
      OBVIOUS
    <3>1. CASE n = node
      BY <3>1, <1>1, <1>2
    <3>2. CASE n # node
      <4>1. PICK i \in 1 .. Len(stack) : stack[i] = n
        BY <3>2, <1>1 DEF SearchTypeOK, StackIsPath
      <4> QED
        BY <4>1, <1>1, <1>2
    <3> QED
      BY <3>1, <3>2
  <2>3. \A i \in 1 .. Len(stack') - 1 : <<stack'[i], stack'[i + 1]>> \in Edges'
    <3> SUFFICES ASSUME NEW i \in 1 .. Len(stack)
                 PROVE  <<stack'[i], stack'[i + 1]>> \in Edges
      BY <1>1, <1>2, <1>3
    <3>1. CASE i < Len(stack)
      BY <3>1, <1>1, <1>2 DEF StackIsPath
    <3>2. CASE i = Len(stack)
      <4>1. stack # << >> /\ <<Caller, node>> \in Edges
        BY <1>1
      <4> QED
        BY <3>2, <4>1, <1>1, <1>2 DEF Caller
    <3>3. i < Len(stack) \/ i = Len(stack)
      BY <1>1
    <3> QED
      BY <3>1, <3>2, <3>3
  <2> QED
    BY <2>1, <2>2, <2>3 DEF StackIsPath
<1>6. SearchTypeOK'
  <2>1. Len(stack') <= Cardinality(Node)
    BY <1>2, <1>5, StackIsShort DEF StackIsPath
  <2>2. color' \in [Node -> {"white", "grey", "black"}] /\ position' \in [Node -> Nat]
    BY <1>1 DEF SearchTypeOK
  <2> QED
    BY <1>2, <2>1, <2>2 DEF SearchTypeOK, LabelledEdge
<1>7. ExaminedIsBehind'
  <2> SUFFICES ASSUME NEW n \in Node, NEW t \in examined'[n], color'[t] # "black"
               PROVE  \E i \in 1 .. Len(stack') - 1 : stack'[i] = n /\ stack'[i + 1] = t
    BY DEF ExaminedIsBehind
  <2>1. t \in Node /\ color[t] # "black"
    BY <1>1 DEF SearchTypeOK
  <2>2. CASE t \in examined[n]
    <3>1. PICK i \in 1 .. Len(stack) - 1 : stack[i] = n /\ stack[i + 1] = t
      BY <2>1, <2>2 DEF ExaminedIsBehind
    <3>2. i \in 1 .. Len(stack') - 1 /\ stack'[i] = n /\ stack'[i + 1] = t
      BY <3>1, <1>1, <1>2
    <3> QED
      BY <3>2
  <2>3. CASE t \notin examined[n]
    <3>1. stack # << >> /\ n = Caller /\ t = node
      BY <2>3 DEF SearchTypeOK
    <3>2. Len(stack) \in 1 .. Len(stack') - 1 /\ stack'[Len(stack)] = n
             /\ stack'[Len(stack) + 1] = t
      BY <3>1, <1>1, <1>2 DEF Caller
    <3> QED
      BY <3>2
  <2> QED
    BY <2>2, <2>3
<1>8. \A n \in Node : color'[n] = "black" <=> color[n] = "black"
  BY <1>1 DEF SearchTypeOK
<1>9. FinishedIsClosed'
  BY <1>3, <1>8, EdgesJoinNodes DEF FinishedIsClosed, SearchTypeOK
<1>10. FinishedIsAcyclic'
  BY <1>3, <1>8 DEF FinishedIsAcyclic, Finished
<1>11. ReportedCycleIsReal' /\ NoneMeansAcyclic'
  BY DEF ReportedCycleIsReal, NoneMeansAcyclic
<1> QED
  BY <1>5, <1>6, <1>7, <1>9, <1>10, <1>11

LEMMA PassOverKeepsIInv ==
    ASSUME SearchIInv, PassOver
    PROVE  SearchIInv'
<1> USE DEF SearchIInv
<1>1. PICK target \in Node :
        /\ IsNextTarget(target) /\ color[target] = "black"
        /\ examined' = [examined EXCEPT ![Caller] = @ \cup {target}]
  BY DEF PassOver
<1>2. /\ verdict = "search" /\ stack # << >>
      /\ UNCHANGED <<relations, color, stack, position, cycle, verdict>>
  BY DEF PassOver
<1>3. Caller \in Node
  BY <1>2, CallerIsGrey
<1>4. Edges' = Edges
  BY <1>2 DEF Edges
<1>5. SearchTypeOK'
  BY <1>1, <1>2, <1>3 DEF SearchTypeOK, LabelledEdge
<1>6. StackIsPath' /\ FinishedIsClosed' /\ FinishedIsAcyclic'
  BY <1>2, <1>4 DEF StackIsPath, FinishedIsClosed, FinishedIsAcyclic, Finished
<1>7. ExaminedIsBehind'
  BY <1>1, <1>2, <1>3 DEF ExaminedIsBehind, SearchTypeOK
<1>8. ReportedCycleIsReal' /\ NoneMeansAcyclic'
  BY <1>2 DEF ReportedCycleIsReal, NoneMeansAcyclic
<1> QED
  BY <1>5, <1>6, <1>7, <1>8

\* The reported edges: the path from the target's position to the top, and back.
LEMMA CloseKeepsIInv ==
    ASSUME SearchIInv, Close
    PROVE  SearchIInv'
<1> USE DEF SearchIInv
<1>1. PICK target \in Node :
        /\ IsNextTarget(target) /\ color[target] = "grey"
        /\ cycle' = CycleFrom(position[target], target)
  BY DEF Close
<1>2. /\ verdict = "search" /\ stack # << >> /\ verdict' = "found"
      /\ UNCHANGED <<relations, color, stack, position, examined>>
  BY DEF Close
<1>3. Edges' = Edges /\ Edges \in SUBSET (Node \X Node)
  BY <1>2, EdgesJoinNodes DEF Edges, SearchTypeOK
<1>4. <<Caller, target>> \in Edges
  BY <1>1 DEF IsNextTarget, Targets
<1>a. PICK size \in Nat \ {0} : \E path \in [1 .. size + 1 -> Node] :
             /\ \A i \in 1 .. size : <<path[i], path[i + 1]>> \in Edges
             /\ path[1] = path[size + 1]
             /\ \A i, j \in 1 .. size : path[i] = path[j] => i = j
             /\ CycleFrom(position[target], target) = [i \in 1 .. size |->
                  [source |-> path[i], relation |-> Label(<<path[i], path[i + 1]>>),
                   target |-> path[i + 1]]]
  BY <1>1, <1>2, <1>4, ClosedPath
<1>5. PICK path \in [1 .. size + 1 -> Node] :
             /\ \A i \in 1 .. size : <<path[i], path[i + 1]>> \in Edges
             /\ path[1] = path[size + 1]
             /\ \A i, j \in 1 .. size : path[i] = path[j] => i = j
             /\ CycleFrom(position[target], target) = [i \in 1 .. size |->
                  [source |-> path[i], relation |-> Label(<<path[i], path[i + 1]>>),
                   target |-> path[i + 1]]]
  BY <1>a
<1>6. \A i \in 1 .. size : i \in 1 .. size + 1 /\ i + 1 \in 1 .. size + 1
  OBVIOUS
<1>7. \A i \in 1 .. size :
        /\ Label(<<path[i], path[i + 1]>>) \in 1 .. Len(relations)
        /\ <<path[i], path[i + 1]>> \in relations[Label(<<path[i], path[i + 1]>>)]
        /\ \A j \in 1 .. Label(<<path[i], path[i + 1]>>) - 1 :
              <<path[i], path[i + 1]>> \notin relations[j]
  BY <1>5, LabelIsFirst DEF SearchTypeOK
<1>8. cycle' \in [1 .. size -> LabelledEdge]
  BY <1>1, <1>5, <1>6, <1>7 DEF LabelledEdge
<1>9. cycle' \in Seq(LabelledEdge) /\ Len(cycle') = size /\ DOMAIN cycle' = 1 .. size
  BY <1>8
<1>10. \A i \in 1 .. size :
          /\ cycle'[i].source = path[i] /\ cycle'[i].target = path[i + 1]
          /\ cycle'[i].relation = Label(<<path[i], path[i + 1]>>)
  BY <1>1, <1>5
<1>11. ReportedCycleIsReal'
  <2>1. cycle' # << >>
    BY <1>9
  <2>2. \A i \in DOMAIN cycle' : LabelledFirst(cycle[i])'
    <3> SUFFICES ASSUME NEW i \in 1 .. size PROVE LabelledFirst(cycle[i])'
      BY <1>9
    <3> QED
      BY <1>2, <1>7, <1>10 DEF LabelledFirst
  <2>3. \A i \in 1 .. Len(cycle') - 1 : cycle'[i].target = cycle'[i + 1].source
    <3> SUFFICES ASSUME NEW i \in 1 .. size - 1
                 PROVE  cycle'[i].target = cycle'[i + 1].source
      BY <1>9
    <3>1. i \in 1 .. size /\ i + 1 \in 1 .. size
      OBVIOUS
    <3> QED
      BY <3>1, <1>10
  <2>4. cycle'[Len(cycle')].target = cycle'[1].source
    <3>1. size \in 1 .. size /\ 1 \in 1 .. size
      OBVIOUS
    <3> QED
      BY <3>1, <1>5, <1>9, <1>10
  <2>5. \A i, j \in DOMAIN cycle' : cycle'[i].source = cycle'[j].source => i = j
    <3> SUFFICES ASSUME NEW i \in 1 .. size, NEW j \in 1 .. size,
                        cycle'[i].source = cycle'[j].source
                 PROVE  i = j
      BY <1>9
    <3>1. path[i] = cycle'[i].source /\ path[j] = cycle'[j].source
      BY <1>10
    <3>2. path[i] = path[j]
      BY <3>1, Zenon
    <3>3. \A k, l \in 1 .. size : path[k] = path[l] => k = l
      BY <1>5
    <3> QED
      BY <3>2, <3>3, Zenon
  <2> QED
    BY <2>1, <2>2, <2>3, <2>4, <2>5 DEF ReportedCycleIsReal
<1>12. NoneMeansAcyclic'
  <2> DEFINE S == {path[i] : i \in 1 .. size}
  <2>1. S \in SUBSET Node /\ S # {}
    BY <1>6
  <2>2. \A n \in S : \E m \in S : <<m, n>> \in Edges
    <3> SUFFICES ASSUME NEW i \in 1 .. size PROVE \E m \in S : <<m, path[i]>> \in Edges
      OBVIOUS
    <3>1. CASE i = 1
      <4>1. <<path[size], path[size + 1]>> \in Edges /\ path[size] \in S
        BY <1>5
      <4> QED
        BY <3>1, <4>1, <1>5
    <3>2. CASE i # 1
      <4>1. i - 1 \in 1 .. size /\ (i - 1) + 1 = i
        BY <3>2
      <4>2. <<path[i - 1], path[(i - 1) + 1]>> \in Edges /\ path[i - 1] \in S
        BY <4>1, <1>5
      <4> QED
        BY <4>1, <4>2
    <3> QED
      BY <3>1, <3>2
  <2>3. Cyclic(Node, Edges)
    BY <2>1, <2>2 DEF Cyclic, PredecessorClosed
  <2> QED
    BY <1>2, <1>3, <2>3 DEF NoneMeansAcyclic
<1>13. SearchTypeOK'
  BY <1>2, <1>9 DEF SearchTypeOK, LabelledEdge
<1>14. StackIsPath' /\ ExaminedIsBehind' /\ FinishedIsClosed' /\ FinishedIsAcyclic'
  BY <1>2, <1>3 DEF StackIsPath, ExaminedIsBehind, FinishedIsClosed, FinishedIsAcyclic, Finished
<1> QED
  BY <1>11, <1>12, <1>13, <1>14

\* A finished node has finished targets only, so no cycle runs through it.
LEMMA LeaveKeepsIInv ==
    ASSUME SearchIInv, Leave
    PROVE  SearchIInv'
<1> USE DEF SearchIInv
<1>1. /\ verdict = "search" /\ stack # << >>
      /\ stack' = SubSeq(stack, 1, Len(stack) - 1)
      /\ position' = [position EXCEPT ![Caller] = 0]
      /\ color' = [color EXCEPT ![Caller] = "black"]
      /\ UNCHANGED <<relations, examined, cycle, verdict>>
      /\ Targets(Caller) \subseteq examined[Caller]
  BY DEF Leave, ExitColor
<1>2. /\ Len(stack) \in Nat \ {0} /\ Caller \in Node /\ stack[Len(stack)] = Caller
      /\ color[Caller] = "grey" /\ position[Caller] = Len(stack)
  BY <1>1, CallerIsGrey DEF Caller
<1>3. /\ stack' \in Seq(Node) /\ Len(stack') = Len(stack) - 1
      /\ \A i \in 1 .. Len(stack) - 1 : stack'[i] = stack[i]
  BY <1>1, PopProperties
<1>4. \A i \in 1 .. Len(stack) - 1 : stack[i] \in Node /\ stack[i] # Caller
  BY <1>2 DEF StackIsPath, SearchTypeOK
<1>5. Edges' = Edges /\ Edges \in SUBSET (Node \X Node)
  BY <1>1, EdgesJoinNodes DEF Edges, SearchTypeOK
<1>6. StackIsPath'
  <2>1. \A i \in 1 .. Len(stack') : color'[stack'[i]] = "grey" /\ position'[stack'[i]] = i
    BY <1>1, <1>2, <1>3, <1>4 DEF StackIsPath, SearchTypeOK
  <2>2. \A n \in Node : color'[n] = "grey" => \E i \in 1 .. Len(stack') : stack'[i] = n
    <3> SUFFICES ASSUME NEW n \in Node, color'[n] = "grey"
                 PROVE  \E i \in 1 .. Len(stack') : stack'[i] = n
      OBVIOUS
    <3>1. n # Caller /\ color[n] = "grey"
      BY <1>1, <1>2 DEF SearchTypeOK
    <3>2. PICK i \in 1 .. Len(stack) : stack[i] = n
      BY <3>1 DEF StackIsPath
    <3>3. i \in 1 .. Len(stack')
      BY <1>2, <1>3, <3>1, <3>2
    <3> QED
      BY <1>2, <1>3, <3>2, <3>3
  <2>3. \A i \in 1 .. Len(stack') - 1 : <<stack'[i], stack'[i + 1]>> \in Edges'
    BY <1>2, <1>3, <1>5 DEF StackIsPath
  <2> QED
    BY <2>1, <2>2, <2>3 DEF StackIsPath
<1>7. SearchTypeOK'
  <2>1. Len(stack') <= Cardinality(Node)
    BY <1>3, <1>6, StackIsShort DEF StackIsPath
  <2>2. color' \in [Node -> {"white", "grey", "black"}] /\ position' \in [Node -> Nat]
    BY <1>1, <1>2 DEF SearchTypeOK
  <2> QED
    BY <1>1, <1>3, <2>1, <2>2 DEF SearchTypeOK, LabelledEdge
<1>8. \A n \in Node : color'[n] = "black" <=> color[n] = "black" \/ n = Caller
  BY <1>1, <1>2 DEF SearchTypeOK
<1>9. ExaminedIsBehind'
  <2> SUFFICES ASSUME NEW n \in Node, NEW t \in examined[n], color'[t] # "black"
               PROVE  \E i \in 1 .. Len(stack') - 1 : stack'[i] = n /\ stack'[i + 1] = t
    BY <1>1 DEF ExaminedIsBehind
  <2>1. t \in Node /\ color[t] # "black" /\ t # Caller
    BY <1>8 DEF SearchTypeOK
  <2>2. PICK i \in 1 .. Len(stack) - 1 : stack[i] = n /\ stack[i + 1] = t
    BY <2>1 DEF ExaminedIsBehind
  <2>3. i + 1 # Len(stack)
    BY <1>2, <2>1, <2>2
  <2>4. i \in 1 .. Len(stack') - 1 /\ i + 1 \in 1 .. Len(stack) - 1
    BY <1>2, <1>3, <2>2, <2>3
  <2> QED
    BY <1>2, <1>3, <2>2, <2>4
<1>10. \A t \in Node : <<Caller, t>> \in Edges => color[t] = "black"
  <2> SUFFICES ASSUME NEW t \in Node, <<Caller, t>> \in Edges PROVE color[t] = "black"
    OBVIOUS
  <2>1. t \in examined[Caller]
    BY <1>1 DEF Targets
  <2>2. ~ \E i \in 1 .. Len(stack) - 1 : stack[i] = Caller
    BY <1>4
  <2> QED
    BY <1>2, <2>1, <2>2 DEF ExaminedIsBehind
<1>11. FinishedIsClosed'
  <2> SUFFICES ASSUME NEW edge \in Edges, color'[edge[1]] = "black"
               PROVE  color'[edge[2]] = "black"
    BY <1>5 DEF FinishedIsClosed
  <2>1. edge[1] \in Node /\ edge[2] \in Node /\ edge = <<edge[1], edge[2]>>
    BY <1>5
  <2>2. color[edge[2]] = "black"
    BY <1>8, <1>10, <2>1 DEF FinishedIsClosed
  <2> QED
    BY <1>8, <2>1, <2>2
<1>12. FinishedIsAcyclic'
  <2>1. Finished' = Finished \cup {Caller} /\ Finished \in SUBSET Node
    BY <1>2, <1>8 DEF Finished
  <2> SUFFICES ASSUME NEW S \in SUBSET (Finished \cup {Caller}), S # {},
                      PredecessorClosed(S, Edges)
               PROVE  FALSE
    BY <1>5, <2>1 DEF FinishedIsAcyclic, Cyclic
  <2>2. Caller \notin S
    <3> SUFFICES ASSUME Caller \in S PROVE FALSE
      OBVIOUS
    <3>1. PICK m \in S : <<m, Caller>> \in Edges
      BY DEF PredecessorClosed
    <3>2. CASE m = Caller
      BY <3>1, <3>2, <1>2, <1>10
    <3>3. CASE m \in Finished
      <4>1. color[m] = "black"
        BY <3>3 DEF Finished
      <4>2. color[<<m, Caller>>[2]] = "black"
        BY <3>1, <4>1 DEF FinishedIsClosed
      <4> QED
        BY <4>2, <1>2
    <3> QED
      BY <3>1, <3>2, <3>3
  <2>3. S \in SUBSET Finished
    BY <2>2
  <2> QED
    BY <2>3 DEF FinishedIsAcyclic, Cyclic
<1>13. ReportedCycleIsReal' /\ NoneMeansAcyclic'
  BY <1>1 DEF ReportedCycleIsReal, NoneMeansAcyclic
<1> QED
  BY <1>6, <1>7, <1>9, <1>11, <1>12, <1>13

LEMMA ReturnNoneKeepsIInv ==
    ASSUME SearchIInv, ReturnNone
    PROVE  SearchIInv'
<1> USE DEF SearchIInv
<1>1. /\ stack = << >> /\ verdict' = "none"
      /\ \A node \in GraphNodes : color[node] # "white"
      /\ UNCHANGED <<relations, color, stack, position, examined, cycle>>
  BY DEF ReturnNone
<1>2. Edges' = Edges /\ Edges \in SUBSET (Node \X Node)
  BY <1>1, EdgesJoinNodes DEF Edges, SearchTypeOK
<1>3. \A n \in GraphNodes : n \in Finished
  <2> SUFFICES ASSUME NEW n \in GraphNodes PROVE n \in Finished
    OBVIOUS
  <2>1. n \in Node /\ color[n] # "grey"
    BY <1>1 DEF GraphNodes, StackIsPath
  <2> QED
    BY <1>1, <2>1 DEF SearchTypeOK, Finished
<1>4. ~ Cyclic(Node, Edges)
  <2> SUFFICES ASSUME NEW S \in SUBSET Node, S # {}, PredecessorClosed(S, Edges)
               PROVE  FALSE
    BY DEF Cyclic
  <2>1. \A n \in S : n \in GraphNodes
    BY DEF PredecessorClosed, GraphNodes
  <2>2. S \in SUBSET Finished
    BY <2>1, <1>3
  <2> QED
    BY <2>2 DEF FinishedIsAcyclic, Cyclic
<1>5. NoneMeansAcyclic' /\ ReportedCycleIsReal'
  BY <1>1, <1>2, <1>4 DEF NoneMeansAcyclic, ReportedCycleIsReal
<1>6. SearchTypeOK'
  BY <1>1 DEF SearchTypeOK, LabelledEdge
<1>7. StackIsPath' /\ ExaminedIsBehind' /\ FinishedIsClosed' /\ FinishedIsAcyclic'
  BY <1>1, <1>2 DEF StackIsPath, ExaminedIsBehind, FinishedIsClosed, FinishedIsAcyclic, Finished
<1> QED
  BY <1>5, <1>6, <1>7

LEMMA NextIInv == SearchIInv /\ [SearchNext]_searchVars => SearchIInv'
<1> SUFFICES ASSUME SearchIInv, [SearchNext]_searchVars PROVE SearchIInv'
  OBVIOUS
<1>1. CASE StartRoot
  <2>1. PICK node \in GraphNodes : color[node] = "white" /\ Enter(node)
    BY <1>1 DEF StartRoot
  <2>2. node \in Node /\ examined' \in [Node -> SUBSET Node]
    BY <1>1 DEF GraphNodes, StartRoot, SearchIInv, SearchTypeOK
  <2> QED
    BY <1>1, <2>1, <2>2, EnterKeepsIInv DEF StartRoot
<1>2. CASE Descend
  <2>1. PICK target \in Node :
          /\ IsNextTarget(target) /\ color[target] = "white" /\ Enter(target)
          /\ examined' = [examined EXCEPT ![Caller] = @ \cup {target}]
    BY <1>2 DEF Descend, Unseen
  <2>2. Caller \in Node
    BY <1>2, CallerIsGrey DEF Descend, SearchIInv
  <2>3. examined' \in [Node -> SUBSET Node]
    BY <2>1, <2>2 DEF SearchIInv, SearchTypeOK
  <2>4. <<Caller, target>> \in Edges
    BY <2>1 DEF IsNextTarget, Targets
  <2> QED
    BY <1>2, <2>1, <2>3, <2>4, EnterKeepsIInv DEF Descend
<1>3. CASE UNCHANGED searchVars
  <2>1. UNCHANGED <<relations, color, stack, position, examined, cycle, verdict>>
    BY <1>3 DEF searchVars
  <2>2. UNCHANGED <<Edges, Finished>>
    BY <2>1 DEF Edges, Finished
  <2>3. SearchTypeOK' /\ StackIsPath' /\ ExaminedIsBehind'
    BY <2>1, <2>2 DEF SearchIInv, SearchTypeOK, LabelledEdge, StackIsPath, ExaminedIsBehind
  <2>4. FinishedIsClosed' /\ FinishedIsAcyclic' /\ NoneMeansAcyclic'
    BY <2>1, <2>2 DEF SearchIInv, FinishedIsClosed, FinishedIsAcyclic, NoneMeansAcyclic
  <2>5. ReportedCycleIsReal'
    BY <2>1 DEF SearchIInv, ReportedCycleIsReal, LabelledFirst
  <2> QED
    BY <2>3, <2>4, <2>5 DEF SearchIInv
<1> QED
  BY <1>1, <1>2, <1>3, PassOverKeepsIInv, CloseKeepsIInv, LeaveKeepsIInv, ReturnNoneKeepsIInv
     DEF SearchNext

-----------------------------------------------------------------------------
(* The theorems. *)

LEMMA Invariance == SearchSpec => []SearchIInv
BY SearchInitIInv, NextIInv, PTL DEF SearchSpec

\* The tables of the search stay over the nodes, and its recursion is never deeper
\* than their number.
THEOREM SearchTypeCorrect == SearchSpec => []SearchTypeOK
BY Invariance, PTL DEF SearchIInv

\* What a violated acyclicity axiom is reported with is a simple, correctly
\* labelled cycle, for every graph and every list of relations.
THEOREM CycleIsReal == SearchSpec => []ReportedCycleIsReal
BY Invariance, PTL DEF SearchIInv

\* find_labeled_cycle returns None only for an acyclic union of relations.
THEOREM NoneIsAcyclic == SearchSpec => []NoneMeansAcyclic
BY Invariance, PTL DEF SearchIInv

\* A finished node never has an edge to an unfinished one.
THEOREM FinishedClosed == SearchSpec => []FinishedIsClosed
BY Invariance, PTL DEF SearchIInv

-----------------------------------------------------------------------------
(* The composition: each half behaves as it does alone, so what is proved  *)
(* of the two algorithms holds when one runs after the other.              *)

LEMMA RelationsAreKept == SearchNext => UNCHANGED relations
BY DEF SearchNext, StartRoot, Descend, PassOver, Close, Leave, ReturnNone

LEMMA OrderHalf == GlobalSpec => Spec
<1>1. GlobalInit => Init
  BY DEF GlobalInit
<1>2. [GlobalNext]_globalVars => [Next]_vars
  BY RelationsAreKept
  DEF GlobalNext, CompleteStep, CheckStep, Terminated, globalVars, vars
<1> QED
  BY <1>1, <1>2, PTL DEF GlobalSpec, Spec

LEMMA OrderKeepsRelations == Next => UNCHANGED relations
BY DEF Next, LoadRelation, CollectReady, Emit, Return

LEMMA SearchHalf == GlobalSpec => SearchSpec
<1>1. GlobalInit => SearchInit
  BY DEF GlobalInit
<1>2. [GlobalNext]_globalVars => [SearchNext]_searchVars
  BY OrderKeepsRelations
  DEF GlobalNext, CompleteStep, CheckStep, Terminated, globalVars, searchVars
<1> QED
  BY <1>1, <1>2, PTL DEF GlobalSpec, SearchSpec

\* The relations are searched for a cycle only in a completed graph.
OrderComesFirst == verdict # "search" => phase = "done"

LEMMA OrderFirst == GlobalSpec => []OrderComesFirst
<1>1. GlobalInit => OrderComesFirst
  BY DEF GlobalInit, SearchInit, OrderComesFirst
<1>2. OrderComesFirst /\ [GlobalNext]_globalVars => OrderComesFirst'
  <2>1. ASSUME OrderComesFirst, CompleteStep PROVE OrderComesFirst'
    BY <2>1 DEF OrderComesFirst, CompleteStep, Next, LoadRelation, CollectReady, Emit, Return
  <2>2. ASSUME CheckStep PROVE OrderComesFirst'
    BY <2>2 DEF OrderComesFirst, CheckStep
  <2>3. ASSUME OrderComesFirst, UNCHANGED globalVars PROVE OrderComesFirst'
    BY <2>3 DEF OrderComesFirst, globalVars, vars, searchVars
  <2> QED
    BY <2>1, <2>2, <2>3 DEF GlobalNext, Terminated
<1> QED
  BY <1>1, <1>2, PTL DEF GlobalSpec

\* check_rvwmo reports a violated global memory order exactly when the completion
\* found no order: load values are never left unchecked in an execution that passes.
THEOREM ExactlyOne == GlobalSpec => []OrderXorCycle
<1>1. IInv /\ SearchIInv /\ OrderComesFirst => OrderXorCycle
  <2> SUFFICES ASSUME IInv, SearchIInv, OrderComesFirst, verdict # "search"
               PROVE  Ordered <=> verdict = "none"
    BY DEF OrderXorCycle
  <2>1. phase = "done" /\ verdict \in {"found", "none"}
    BY DEF OrderComesFirst, SearchIInv, SearchTypeOK
  <2>2. ~ Ordered <=> Cyclic(Node, Edges)
    BY <2>1, CyclicWhenNone DEF NoneMeansCyclic
  <2>3. verdict = "found" <=> Cyclic(Node, Edges)
    BY <2>1 DEF SearchIInv, NoneMeansAcyclic
  <2> QED
    BY <2>1, <2>2, <2>3
<1> QED
  BY <1>1, OrderHalf, SearchHalf, OrderFirst, Inductive, Invariance, PTL
=============================================================================
