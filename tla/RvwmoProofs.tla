---------------------------- MODULE RvwmoProofs ----------------------------
(***************************************************************************)
(* Proofs, for every set of execution graphs, of what RvwmoCheck states    *)
(* about the checker's verdicts.                                           *)
(*                                                                         *)
(* The key lemma is LatestIsLocal: in a total order that contains ppo,     *)
(* rfe, co and fr, "the latest visible write" can be decided from program  *)
(* order and coherence alone.  Its converse, IsaOrderContainsEdges, says   *)
(* that an order that satisfies the ISA's axioms contains rfe and fr.      *)
(***************************************************************************)
EXTENDS RvwmoCheck, FiniteSetTheorems, TLAPS

\* A non-empty set of naturals has a least element: the intervals up to its elements
\* are finite sets, and strict inclusion of finite sets is well-founded.
LEMMA LeastNatural ==
    ASSUME NEW S \in SUBSET Nat, S # {}
    PROVE  \E n \in S : \A m \in S : n <= m
<1> DEFINE T == {0 .. n : n \in S}
<1>1. T # {} /\ T \subseteq FiniteSubsetsOf(Nat)
  <2>1. \A n \in S : IsFiniteSet(0 .. n) /\ 0 .. n \in SUBSET Nat
    BY FS_Interval
  <2> QED
    BY <2>1, Zenon DEF FiniteSubsetsOf
<1>2. PICK t \in T : \A u \in T : ~ (<<u, t>> \in StrictSubsetOrdering(Nat))
  <2> HIDE DEF T
  <2> QED
    BY <1>1, WFMin, FS_StrictSubsetOrderingWellFounded
<1>3. PICK n \in S : t = 0 .. n
  OBVIOUS
<1>4. ASSUME NEW m \in S, m < n PROVE <<0 .. m, 0 .. n>> \in StrictSubsetOrdering(Nat)
  <2>1. 0 .. m \subseteq 0 .. n /\ 0 .. n \subseteq Nat /\ n \in 0 .. n /\ n \notin 0 .. m
    BY <1>4
  <2> QED
    BY <2>1 DEF StrictSubsetOrdering
<1>5. \A m \in S : ~ (m < n)
  BY <1>2, <1>3, <1>4, Zenon
<1> QED
  BY <1>5

\* Edges that all lead to a higher rank form no cycle.
LEMMA RankedIsAcyclic ==
    ASSUME NEW S, NEW edges, NEW rank \in [S -> Nat],
           \A e \in edges : e \in S \X S => rank[e[1]] < rank[e[2]]
    PROVE  ~ Cyclic(S, edges)
<1> SUFFICES ASSUME NEW C \in SUBSET S, C # {}, PredecessorClosed(C, edges)
             PROVE  FALSE
  BY DEF Cyclic
<1> DEFINE Ranks == {rank[n] : n \in C}
<1>1. Ranks \in SUBSET Nat /\ Ranks # {}
  OBVIOUS
<1>2. PICK least \in Ranks : \A m \in Ranks : least <= m
  <2> HIDE DEF Ranks
  <2> QED
    BY <1>1, LeastNatural
<1>3. PICK n \in C : rank[n] = least
  OBVIOUS
<1>4. PICK m \in C : <<m, n>> \in edges
  BY DEF PredecessorClosed
<1>5. rank[m] < rank[n]
  BY <1>4
<1>6. rank[n] <= rank[m] /\ rank[n] \in Nat /\ rank[m] \in Nat
  BY <1>2, <1>3
<1> QED
  BY <1>5, <1>6

IsTotalOrder(g, S) ==
    /\ \A i \in S : <<i, i>> \notin g
    /\ \A i, j \in S : i # j => (<<i, j>> \in g <=> <<j, i>> \notin g)
    /\ \A i, j, k \in S : <<i, j>> \in g /\ <<j, k>> \in g => <<i, k>> \in g

\* The hypotheses of the lemmas: a graph that validation accepts.
Good == ValidGraph(ops, rel) /\ WellFormed(ops)

-----------------------------------------------------------------------------
(* Program order, locations and the functional rf relation. *)

LEMMA PoFacts ==
    ASSUME Good, NEW i \in Ids(ops), NEW j \in Ids(ops)
    PROVE  /\ <<i, j>> \in Po(ops) <=> Before(ops[i], ops[j])
           /\ <<i, j>> \in Po(ops) => <<j, i>> \notin Po(ops) /\ i # j
           /\ \A k \in Ids(ops) : <<i, j>> \in Po(ops) /\ <<j, k>> \in Po(ops) => <<i, k>> \in Po(ops)
           /\ i # j /\ ops[i].hart = ops[j].hart /\ ops[i].hart # NoHart =>
                <<i, j>> \in Po(ops) \/ <<j, i>> \in Po(ops)
<1>1. \A k \in Ids(ops) : ops[k].index \in Nat
  BY DEF Good, WellFormed, Ids
<1>2. <<i, j>> \in Po(ops) <=> Before(ops[i], ops[j])
  BY DEF Po
<1>3. \A k, l \in Ids(ops) : <<k, l>> \in Po(ops) <=> Before(ops[k], ops[l])
  BY DEF Po
<1>4. i # j /\ ops[i].hart = ops[j].hart /\ ops[i].hart # NoHart => ops[i].index # ops[j].index
  BY DEF Good, ValidGraph, DistinctIndexes
<1> QED
  BY <1>1, <1>2, <1>3, <1>4 DEF Before

LEMMA SourceFacts ==
    ASSUME Good, NEW r \in Reads(ops)
    PROVE  /\ Source(rel, r) \in Writes(ops)
           /\ <<Source(rel, r), r>> \in rel.rf
           /\ Source(rel, r) # r
           /\ SameLocation(ops[Source(rel, r)], ops[r])
           /\ \A v : <<v, r>> \in rel.rf => v = Source(rel, r)
<1>1. ValidRf(ops, rel)
  BY DEF Good, ValidGraph
<1>2. PICK w \in Writes(ops) : \A v \in Writes(ops) : <<v, r>> \in rel.rf <=> v = w
  BY <1>1 DEF ValidRf
<1>3. \A v : <<v, r>> \in rel.rf => v \in Writes(ops) /\ v # r /\ SameLocation(ops[v], ops[r])
  BY <1>1 DEF ValidRf
<1>4. w \in {e[1] : e \in rel.rf} /\ <<w, r>> \in rel.rf
  BY <1>2
<1>5. <<Source(rel, r), r>> \in rel.rf
  BY <1>4 DEF Source
<1> QED
  BY <1>2, <1>3, <1>5

LEMMA CoFacts ==
    ASSUME Good, NEW v \in Writes(ops), NEW w \in Writes(ops), v # w, SameLocation(ops[v], ops[w])
    PROVE  <<v, w>> \in rel.co <=> <<w, v>> \notin rel.co
BY DEF Good, ValidGraph, ValidCo

LEMMA LocationFacts ==
    ASSUME Good, NEW i \in Ids(ops), NEW j \in Ids(ops), SameLocation(ops[i], ops[j])
    PROVE  /\ Overlap(ops[i], ops[j])
           /\ SameLocation(ops[j], ops[i])
           /\ \A k \in Ids(ops) : SameLocation(ops[j], ops[k]) => SameLocation(ops[i], ops[k])
<1>1. ops[i].bytes # {}
  BY DEF Good, ValidGraph
<1>2. Footprint(ops[i]) # {}
  BY <1>1 DEF Footprint
<1> QED
  BY <1>2 DEF Overlap, SameLocation

\* PPO rule 1: a write after an access to its location keeps its place.
LEMMA StorePreserved ==
    ASSUME Good, NEW i \in Ids(ops), NEW w \in Writes(ops),
           <<i, w>> \in Po(ops), SameLocation(ops[i], ops[w])
    PROVE  <<i, w>> \in Ppo(ops, rel)
<1>1. w \in Ids(ops) /\ IsWrite(ops[w])
  BY DEF Writes
<1>2. Overlap(ops[i], ops[w]) /\ ops[i].regular /\ ops[w].regular
  BY <1>1, LocationFacts DEF Good, ValidGraph
<1> QED
  BY <1>1, <1>2 DEF Ppo, StoreAfterOverlap

-----------------------------------------------------------------------------
(* The two directions between the checker's order and the ISA's. *)

\* With ppo, rfe, co and fr in the order, the latest write is known locally.
LEMMA LatestIsLocal ==
    ASSUME Good, NEW g, IsTotalOrder(g, Ids(ops)), Edges \subseteq g, NEW r \in Reads(ops)
    PROVE  ReadsLatest(ops, rel, g, r) <=> ~ ForwardsStaleValue(r)
<1> DEFINE s == Source(rel, r)
<1>0. /\ r \in Ids(ops) /\ s \in Ids(ops) /\ s \in Writes(ops) /\ s # r
      /\ <<s, r>> \in rel.rf /\ SameLocation(ops[s], ops[r])
  BY SourceFacts DEF Reads, Writes
<1>1. /\ Ppo(ops, rel) \subseteq g /\ Rfe(ops, rel) \subseteq g
      /\ rel.co \subseteq g /\ Fr(ops, rel) \subseteq g
  BY DEF Edges, OrderEdges
<1>2. \A w \in Writes(ops) : w \in Ids(ops)
  BY DEF Writes
<1> HIDE DEF s
<1>3. ASSUME ReadsLatest(ops, rel, g, r) PROVE ~ ForwardsStaleValue(r)
  <2>1. s \in Eligible(ops, g, r) /\ \A w \in Eligible(ops, g, r) \ {s} : <<w, s>> \in g
    BY <1>3 DEF ReadsLatest, s
  <2>2. <<r, s>> \notin Po(ops)
    <3>1. SUFFICES ASSUME <<r, s>> \in Po(ops) PROVE FALSE
      OBVIOUS
    <3>2. <<r, s>> \in g
      BY <1>0, <1>1, <3>1, StorePreserved, LocationFacts
    <3>3. <<s, r>> \notin g
      BY <1>0, <3>2 DEF IsTotalOrder
    <3>4. <<s, r>> \notin Po(ops)
      BY <1>0, <3>1, PoFacts
    <3> QED
      BY <2>1, <3>3, <3>4 DEF Eligible
  <2>3. ASSUME NEW w \in Writes(ops), w # s, <<w, r>> \in Po(ops), SameLocation(ops[w], ops[r])
        PROVE  <<w, s>> \in rel.co
    <3>1. w # r
      BY <1>0, <1>2, <2>3, PoFacts
    <3>2. <<w, s>> \in g
      BY <2>1, <2>3, <3>1 DEF Eligible
    <3>3. <<s, w>> \notin rel.co
      BY <1>0, <1>1, <1>2, <2>3, <3>2 DEF IsTotalOrder
    <3>4. SameLocation(ops[w], ops[s])
      BY <1>0, <2>3 DEF SameLocation
    <3> QED
      BY <1>0, <2>3, <3>3, <3>4, CoFacts
  <2> QED
    BY <2>2, <2>3 DEF ForwardsStaleValue, s
<1>4. ASSUME ~ ForwardsStaleValue(r) PROVE ReadsLatest(ops, rel, g, r)
  <2>1. /\ <<r, s>> \notin Po(ops)
        /\ \A w \in Writes(ops) \ {s} :
                <<w, r>> \in Po(ops) /\ SameLocation(ops[w], ops[r]) => <<w, s>> \in rel.co
    BY <1>4 DEF ForwardsStaleValue, s
  <2>2. s \in Eligible(ops, g, r)
    <3>1. CASE ops[s].hart # ops[r].hart
      <4>1. <<s, r>> \in Rfe(ops, rel)
        BY <1>0, <3>1 DEF Rfe
      <4> QED
        BY <1>0, <1>1, <4>1 DEF Eligible
    <3>2. CASE ops[s].hart = ops[r].hart
      <4>1. ops[r].hart # NoHart
        BY <1>0 DEF Good, WellFormed, Reads, IsRead, Ids
      <4>2. <<s, r>> \in Po(ops)
        BY <1>0, <2>1, <3>2, <4>1, PoFacts
      <4> QED
        BY <1>0, <4>2 DEF Eligible
    <3> QED
      BY <3>1, <3>2
  <2>3. ASSUME NEW w \in Eligible(ops, g, r), w # s PROVE <<w, s>> \in g
    <3>1. /\ w \in Writes(ops) /\ w # r /\ SameLocation(ops[w], ops[r])
          /\ <<w, r>> \in g \/ <<w, r>> \in Po(ops)
      BY DEF Eligible
    <3>2. SameLocation(ops[w], ops[s])
      BY <1>0, <3>1 DEF SameLocation
    <3>3. CASE <<w, s>> \in rel.co
      BY <1>1, <3>3
    <3>4. CASE <<s, w>> \in rel.co
      <4>1. <<r, w>> \in Fr(ops, rel)
        BY <1>0, <3>1, <3>4 DEF Fr
      <4>2. <<w, r>> \notin g
        BY <1>0, <1>1, <1>2, <3>1, <4>1 DEF IsTotalOrder
      <4> QED
        BY <1>1, <2>1, <2>3, <3>1, <4>2
    <3> QED
      BY <1>0, <2>3, <3>1, <3>2, <3>3, <3>4, CoFacts
  <2> QED
    BY <2>2, <2>3 DEF ReadsLatest, s
<1> QED
  BY <1>3, <1>4

\* An order that satisfies the ISA's axioms contains rfe and fr as well.
LEMMA IsaOrderContainsEdges ==
    ASSUME Good, NEW g, IsTotalOrder(g, Ids(ops)), SatisfiesIsaAxioms(g)
    PROVE  Edges \subseteq g
<1>0. /\ Ppo(ops, rel) \subseteq g /\ rel.co \subseteq g
      /\ \A r \in Reads(ops) : ReadsLatest(ops, rel, g, r)
  BY DEF SatisfiesIsaAxioms
<1>1. ASSUME NEW w \in Writes(ops), NEW r \in Reads(ops), <<w, r>> \in Rfe(ops, rel)
      PROVE  <<w, r>> \in g
  <2>1. <<w, r>> \in rel.rf /\ ops[w].hart # ops[r].hart
    BY <1>1 DEF Rfe
  <2>2. w = Source(rel, r)
    BY <2>1, SourceFacts
  <2>3. <<w, r>> \notin Po(ops)
    BY <2>1 DEF Po, Before
  <2> QED
    BY <1>0, <2>2, <2>3 DEF ReadsLatest, Eligible
<1>2. ASSUME NEW r \in Reads(ops), NEW w \in Writes(ops), <<r, w>> \in Fr(ops, rel)
      PROVE  <<r, w>> \in g
  <2>1. r # w /\ <<Source(rel, r), w>> \in rel.co
    BY <1>2, SourceFacts DEF Fr
  <2>2. /\ w # Source(rel, r) /\ SameLocation(ops[Source(rel, r)], ops[w])
        /\ Source(rel, r) \in Writes(ops)
    BY <2>1, SourceFacts DEF Good, ValidGraph, ValidCo
  <2>3. SameLocation(ops[w], ops[r])
    BY <2>2, SourceFacts DEF SameLocation
  <2>4. r \in Ids(ops) /\ w \in Ids(ops) /\ Source(rel, r) \in Ids(ops)
    BY <2>2 DEF Reads, Writes
  <2>5. <<w, Source(rel, r)>> \notin g
    BY <1>0, <2>1, <2>2, <2>4 DEF IsTotalOrder
  <2>6. <<w, r>> \notin g
    BY <1>0, <2>1, <2>2, <2>3, <2>5 DEF ReadsLatest, Eligible
  <2> QED
    BY <2>1, <2>4, <2>6 DEF IsTotalOrder
<1>3. Rfe(ops, rel) \subseteq g
  <2>1. Rfe(ops, rel) \subseteq Writes(ops) \X Reads(ops)
    BY DEF Rfe, Good, ValidGraph, ValidRf
  <2> QED
    BY <1>1, <2>1
<1>4. Fr(ops, rel) \subseteq g
  BY <1>2 DEF Fr
<1> QED
  BY <1>0, <1>3, <1>4 DEF Edges, OrderEdges

\* The orders TotalOrders enumerates are total orders, and exclude cycles.
LEMMA TotalOrdersFacts ==
    ASSUME NEW S \in SUBSET Nat, NEW edges, NEW g \in TotalOrders(S, edges)
    PROVE  /\ g \in SUBSET (S \X S)
           /\ IsTotalOrder(g, S)
           /\ edges \cap (S \X S) \subseteq g
           /\ ~ Cyclic(S, g)
<1>1. PICK f \in [S -> S] :
        /\ \A e \in edges : f[e[1]] < f[e[2]]
        /\ \A i, j \in S : f[i] = f[j] => i = j
        /\ g = {e \in S \X S : f[e[1]] < f[e[2]]}
  BY DEF TotalOrders
<1>2. \A i \in S : f[i] \in Nat
  OBVIOUS
<1>3. \A i, j \in S : <<i, j>> \in g <=> f[i] < f[j]
  BY <1>1
<1>4. IsTotalOrder(g, S)
  BY <1>1, <1>2, <1>3 DEF IsTotalOrder
<1>5. ~ Cyclic(S, g)
  <2>1. f \in [S -> Nat] /\ \A e \in g : e \in S \X S => f[e[1]] < f[e[2]]
    BY <1>1, <1>2
  <2> QED
    BY <2>1, RankedIsAcyclic
<1> QED
  BY <1>1, <1>4, <1>5

LEMMA CyclicMonotone ==
    ASSUME NEW S, NEW small, NEW big, small \subseteq big, Cyclic(S, small)
    PROVE  Cyclic(S, big)
BY DEF Cyclic, PredecessorClosed

-----------------------------------------------------------------------------
(* The inductive invariant: completion happens only for valid graphs, and the
   witness is a linear extension whenever one exists. *)

IInv ==
    /\ TypeOK
    /\ WellFormed(ops)
    /\ stage \in {"completed", "checked"} =>
        /\ ValidGraph(ops, rel)
        /\ gmo \in IF Cyclic(Ids(ops), Edges) THEN {{}} ELSE TotalOrders(Ids(ops), Edges)
    /\ stage = "checked" => outcome = Judgement(ops, rel, gmo)

LEMMA JudgementType == Judgement(ops, rel, gmo) \in Verdicts
BY DEF Judgement, OrderAcyclic, Verdicts

LEMMA JudgementFields ==
    ASSUME outcome = Judgement(ops, rel, gmo)
    PROVE  /\ outcome.global_memory_order <=> ~ Cyclic(Ids(ops), Edges)
           /\ outcome.load_value <=> (gmo = {} \/ LoadValueOffenses(ops, rel, gmo) = {})
<1>1. /\ outcome.global_memory_order = (~ Cyclic(Ids(ops), Edges))
      /\ outcome.load_value = (gmo = {} \/ LoadValueOffenses(ops, rel, gmo) = {})
  BY Zenon DEF Judgement, OrderAcyclic, Edges
<1> QED
  BY <1>1, Zenon

LEMMA InductiveInvariant == Spec => []IInv
<1>1. Init => IInv
  <2> SUFFICES ASSUME Init PROVE IInv
    OBVIOUS
  <2>1. Ids(ops) \in SUBSET Nat /\ WellFormed(ops)
    BY GraphsAssumption DEF Init, Ids, ops
  <2> QED
    BY <2>1 DEF Init, IInv, TypeOK, Verdicts
<1>2. IInv /\ [Next]_vars => IInv'
  <2> SUFFICES ASSUME IInv, [Next]_vars PROVE IInv'
    OBVIOUS
  <2>0. graph' = graph => ops' = ops /\ rel' = rel /\ Edges' = Edges
    BY DEF ops, rel, Edges
  <2>1. CASE Reject
    <3>1. UNCHANGED <<graph, gmo, outcome>> /\ stage' = "error"
      BY <2>1 DEF Reject
    <3> QED
      BY <2>0, <3>1 DEF IInv, TypeOK
  <2>2. CASE Complete
    <3>1. /\ UNCHANGED <<graph, outcome>> /\ stage' = "completed"
          /\ ValidGraph(ops, rel)
          /\ gmo' \in IF Cyclic(Ids(ops), Edges) THEN {{}} ELSE TotalOrders(Ids(ops), Edges)
      BY <2>2 DEF Complete, Witnesses, Edges
    <3>2. gmo' \in SUBSET (Ids(ops) \X Ids(ops))
      <4>1. Ids(ops) \in SUBSET Nat
        BY DEF IInv, TypeOK
      <4> QED
        BY <3>1, <4>1, TotalOrdersFacts
    <3> QED
      BY <2>0, <3>1, <3>2 DEF IInv, TypeOK
  <2>3. CASE Check
    <3>1. UNCHANGED <<graph, gmo>> /\ stage = "completed"
      BY <2>3 DEF Check
    <3>2. Judgement(ops, rel, gmo)' = Judgement(ops, rel, gmo)
      BY <2>0, <3>1 DEF Judgement
    <3>3. \/ stage' = "checked" /\ outcome' = Judgement(ops, rel, gmo)
          \/ stage' = "error" /\ UNCHANGED outcome
      BY <2>3 DEF Check
    <3>4. CASE stage' = "checked" /\ outcome' = Judgement(ops, rel, gmo)
      BY <2>0, <3>1, <3>2, <3>4, JudgementType DEF IInv, TypeOK
    <3>5. CASE stage' = "error" /\ UNCHANGED outcome
      BY <2>0, <3>1, <3>5 DEF IInv, TypeOK
    <3> QED
      BY <3>3, <3>4, <3>5
  <2>4. CASE UNCHANGED vars
    <3>1. UNCHANGED <<graph, stage, gmo, outcome>>
      BY <2>4 DEF vars
    <3>2. Judgement(ops, rel, gmo)' = Judgement(ops, rel, gmo)
      BY <2>0, <3>1 DEF Judgement
    <3> QED
      BY <2>0, <3>1, <3>2 DEF IInv, TypeOK
  <2> QED
    BY <2>1, <2>2, <2>3, <2>4 DEF Next
<1> QED
  BY <1>1, <1>2, PTL DEF Spec

\* The states, operations and verdicts are well-typed in every reachable state.
THEOREM TypeCorrect == Spec => []TypeOK
BY InductiveInvariant, PTL DEF IInv

-----------------------------------------------------------------------------
(* The verdicts. *)

LEMMA EdgesAreOnIds == ASSUME Good PROVE Edges \subseteq Ids(ops) \X Ids(ops)
BY DEF Good, ValidGraph, ValidRf, ValidCo, Edges, OrderEdges, Ppo, Po, Rfe, Fr, Reads, Writes

LEMMA WitnessFacts ==
    ASSUME IInv, stage \in {"completed", "checked"}
    PROVE  /\ Good
           /\ ~ Cyclic(Ids(ops), Edges) => IsTotalOrder(gmo, Ids(ops)) /\ Edges \subseteq gmo
           /\ Cyclic(Ids(ops), Edges) => gmo = {}
<1>1. Good
  BY DEF IInv, Good
<1>2. ASSUME ~ Cyclic(Ids(ops), Edges) PROVE IsTotalOrder(gmo, Ids(ops)) /\ Edges \subseteq gmo
  <2>1. gmo \in TotalOrders(Ids(ops), Edges) /\ Ids(ops) \in SUBSET Nat
    BY <1>2 DEF IInv, TypeOK
  <2>2. Edges \cap (Ids(ops) \X Ids(ops)) \subseteq gmo /\ IsTotalOrder(gmo, Ids(ops))
    BY <2>1, TotalOrdersFacts
  <2> QED
    BY <1>1, <2>2, EdgesAreOnIds
<1> QED
  BY <1>1, <1>2 DEF IInv

\* The load-value verdict is the same for every linear extension of the order
\* relations, so returning the least one loses nothing.
THEOREM WitnessDoesNotMatter == Spec => []WitnessIsIrrelevant
<1>1. IInv => WitnessIsIrrelevant
  <2> SUFFICES ASSUME IInv, stage = "completed", gmo # {}
               PROVE  LoadValueOffenses(ops, rel, gmo) = {r \in Reads(ops) : ForwardsStaleValue(r)}
    BY DEF WitnessIsIrrelevant
  <2>1. Good /\ IsTotalOrder(gmo, Ids(ops)) /\ Edges \subseteq gmo
    BY WitnessFacts
  <2>2. \A r \in Reads(ops) : ReadsLatest(ops, rel, gmo, r) <=> ~ ForwardsStaleValue(r)
    BY <2>1, LatestIsLocal
  <2> QED
    BY <2>2 DEF LoadValueOffenses
<1> QED
  BY <1>1, InductiveInvariant, PTL

\* A checked graph without order and load-value violations has a witness in which
\* every read takes the latest visible write.
LEMMA AcceptedWitness ==
    ASSUME IInv, stage = "checked", outcome.global_memory_order, outcome.load_value
    PROVE  /\ Good
           /\ IsTotalOrder(gmo, Ids(ops)) /\ Edges \subseteq gmo
           /\ \A r \in Reads(ops) : ReadsLatest(ops, rel, gmo, r)
<1>1. /\ outcome.global_memory_order <=> ~ Cyclic(Ids(ops), Edges)
      /\ outcome.load_value <=> (gmo = {} \/ LoadValueOffenses(ops, rel, gmo) = {})
  BY JudgementFields DEF IInv
<1>2. Good /\ IsTotalOrder(gmo, Ids(ops)) /\ Edges \subseteq gmo
  BY <1>1, WitnessFacts
<1>3. ASSUME NEW r \in Reads(ops) PROVE ReadsLatest(ops, rel, gmo, r)
  <2>1. Source(rel, r) \in Ids(ops) /\ r \in Ids(ops) /\ Source(rel, r) # r
    BY <1>2, SourceFacts DEF Reads, Writes
  <2>2. gmo # {}
    BY <1>2, <2>1 DEF IsTotalOrder
  <2> QED
    BY <1>1, <2>2 DEF LoadValueOffenses
<1> QED
  BY <1>2, <1>3

\* The checker's verdict on order and values is the ISA's: it forbids a graph only
\* when no global memory order satisfies the axioms.
THEOREM ForbiddenIsUnexplainable == Spec => []ForbiddenMeansNoOrder
<1>1. IInv => ForbiddenMeansNoOrder
  <2> SUFFICES ASSUME IInv, stage = "checked",
                      NEW order \in TotalOrders(Ids(ops), {}), SatisfiesIsaAxioms(order)
               PROVE  outcome.global_memory_order /\ outcome.load_value
    BY DEF ForbiddenMeansNoOrder
  <2>1. Good
    BY WitnessFacts
  <2>2. IsTotalOrder(order, Ids(ops)) /\ ~ Cyclic(Ids(ops), order)
    BY TotalOrdersFacts DEF IInv, TypeOK
  <2>3. Edges \subseteq order
    BY <2>1, <2>2, IsaOrderContainsEdges
  <2>4. ~ Cyclic(Ids(ops), Edges)
    BY <2>2, <2>3, CyclicMonotone
  <2>5. IsTotalOrder(gmo, Ids(ops)) /\ Edges \subseteq gmo
    BY <2>4, WitnessFacts
  <2>6. \A r \in Reads(ops) : ReadsLatest(ops, rel, gmo, r)
    <3>1. \A r \in Reads(ops) : ~ ForwardsStaleValue(r)
      BY <2>1, <2>2, <2>3, LatestIsLocal DEF SatisfiesIsaAxioms
    <3> QED
      BY <2>1, <2>5, <3>1, LatestIsLocal
  <2> QED
    <3>1. LoadValueOffenses(ops, rel, gmo) = {}
      BY <2>6 DEF LoadValueOffenses
    <3> QED
      BY <2>4, <3>1, JudgementFields DEF IInv
<1> QED
  BY <1>1, InductiveInvariant, PTL

\* AMO atomicity never is the only violated axiom.
THEOREM AmoAtomicityIsImplied == Spec => []AmoAtomicityFollows
<1>1. IInv => AmoAtomicityFollows
  <2> SUFFICES ASSUME IInv, stage = "checked",
                      outcome.global_memory_order, outcome.load_value,
                      NEW a \in AmoOffenses(ops, rel), ops[a].kind = "amo"
               PROVE  FALSE
    BY DEF AmoAtomicityFollows
  <2> DEFINE s == Source(rel, a)
  <2>1. a \in Ids(ops) /\ a \in Reads(ops) /\ a \in Writes(ops)
    BY DEF AmoOffenses, Reads, Writes, IsRead, IsWrite
  <2>2. /\ Good /\ IsTotalOrder(gmo, Ids(ops)) /\ Edges \subseteq gmo
        /\ ReadsLatest(ops, rel, gmo, a)
    BY <2>1, AcceptedWitness
  <2>3. /\ s \in Writes(ops) /\ s \in Ids(ops) /\ s # a /\ <<s, a>> \in rel.rf
        /\ SameLocation(ops[s], ops[a])
    BY <2>1, <2>2, SourceFacts DEF Writes
  <2>4. /\ Ppo(ops, rel) \subseteq gmo /\ rel.co \subseteq gmo /\ Fr(ops, rel) \subseteq gmo
    BY <2>2 DEF Edges, OrderEdges
  <2>5. <<s, a>> \in rel.co
    <3>1. SUFFICES ASSUME <<a, s>> \in rel.co PROVE FALSE
      BY <2>1, <2>2, <2>3, CoFacts
    <3>2. <<s, a>> \notin gmo
      BY <2>1, <2>2, <2>3, <2>4, <3>1 DEF IsTotalOrder
    <3>3. <<s, a>> \in Po(ops)
      BY <2>2, <3>2 DEF ReadsLatest, Eligible
    <3> QED
      BY <2>1, <2>2, <2>3, <2>4, <3>2, <3>3, StorePreserved
  <2>6. PICK w \in Writes(ops) : w # s /\ w # a /\ <<s, w>> \in rel.co /\ <<w, a>> \in rel.co
    BY <2>1, <2>5 DEF AmoOffenses, Reads, Writes
  <2>7. <<a, w>> \in Fr(ops, rel)
    BY <2>1, <2>3, <2>6 DEF Fr
  <2>8. w \in Ids(ops)
    BY DEF Writes
  <2> QED
    BY <2>1, <2>2, <2>4, <2>6, <2>7, <2>8 DEF IsTotalOrder
<1> QED
  BY <1>1, InductiveInvariant, PTL

\* If every program-order pair is preserved, allowed means sequentially consistent.
THEOREM FullyOrderedGivesSc == Spec => []FullyOrderedIsSc
<1>1. IInv => FullyOrderedIsSc
  <2> SUFFICES ASSUME IInv, Allowed, Po(ops) \subseteq Ppo(ops, rel)
               PROVE  /\ Po(ops) \subseteq gmo
                      /\ \A r \in Reads(ops) :
                        /\ <<Source(rel, r), r>> \in gmo
                        /\ \A w \in Writes(ops) \ {r} : SameLocation(ops[w], ops[r]) /\ <<w, r>> \in gmo
                            => w = Source(rel, r) \/ <<w, Source(rel, r)>> \in gmo
    BY DEF FullyOrderedIsSc
  <2>1. stage = "checked" /\ outcome.global_memory_order /\ outcome.load_value
    BY DEF Allowed, Passed
  <2>2. /\ Edges \subseteq gmo
        /\ \A r \in Reads(ops) : ReadsLatest(ops, rel, gmo, r)
    BY <2>1, AcceptedWitness
  <2>3. Po(ops) \subseteq gmo
    BY <2>2 DEF Edges, OrderEdges
  <2> QED
    BY <2>2, <2>3 DEF ReadsLatest, Eligible
<1> QED
  BY <1>1, InductiveInvariant, PTL

\* The hypotheses of the coherence lemmas: a total order that contains the
\* checker's edges and in which every read takes the latest visible write.
Explains(g) ==
    /\ Good
    /\ IsTotalOrder(g, Ids(ops))
    /\ Edges \subseteq g
    /\ \A r \in Reads(ops) : ReadsLatest(ops, rel, g, r)

LEMMA ExplainsFacts ==
    ASSUME NEW g, Explains(g)
    PROVE  /\ Good
           /\ Ppo(ops, rel) \subseteq g /\ rel.co \subseteq g /\ Fr(ops, rel) \subseteq g
           /\ \A i, j \in Ids(ops) : <<i, j>> \in g => <<j, i>> \notin g
           /\ \A i, j, k \in Ids(ops) : <<i, j>> \in g /\ <<j, k>> \in g => <<i, k>> \in g
           /\ \A v, w \in Writes(ops) : v # w /\ SameLocation(ops[v], ops[w]) =>
                (<<v, w>> \in rel.co <=> <<v, w>> \in g) /\ (<<v, w>> \in g <=> <<w, v>> \notin g)
<1>1. /\ Good /\ Ppo(ops, rel) \subseteq g /\ rel.co \subseteq g /\ Fr(ops, rel) \subseteq g
      /\ IsTotalOrder(g, Ids(ops))
  BY DEF Explains, Edges, OrderEdges
<1>2. \A i, j \in Ids(ops) : <<i, j>> \in g => <<j, i>> \notin g
  BY <1>1 DEF IsTotalOrder
<1>3. ASSUME NEW v \in Writes(ops), NEW w \in Writes(ops), v # w, SameLocation(ops[v], ops[w])
      PROVE  (<<v, w>> \in rel.co <=> <<v, w>> \in g) /\ (<<v, w>> \in g <=> <<w, v>> \notin g)
  <2>1. v \in Ids(ops) /\ w \in Ids(ops)
    BY DEF Writes
  <2>2. <<v, w>> \in rel.co <=> <<w, v>> \notin rel.co
    BY <1>1, <1>3, CoFacts
  <2> QED
    BY <1>1, <1>2, <1>3, <2>1, <2>2 DEF IsTotalOrder
<1>4. \A i, j, k \in Ids(ops) : <<i, j>> \in g /\ <<j, k>> \in g => <<i, k>> \in g
  BY <1>1 DEF IsTotalOrder
<1> QED
  BY <1>1, <1>2, <1>3, <1>4

\* A read before a write of its hart to its location took an older write (CoRW).
LEMMA ReadThenWrite ==
    ASSUME NEW g, Explains(g), NEW i \in Reads(ops), NEW j \in Writes(ops),
           <<i, j>> \in Po(ops), SameLocation(ops[i], ops[j])
    PROVE  <<Source(rel, i), j>> \in rel.co
<1> DEFINE s == Source(rel, i)
<1>1. /\ Good /\ i \in Ids(ops) /\ j \in Ids(ops) /\ s \in Ids(ops)
      /\ s \in Writes(ops) /\ SameLocation(ops[s], ops[i])
  BY SourceFacts, ExplainsFacts DEF Reads, Writes
<1>2. SameLocation(ops[s], ops[j])
  BY <1>1 DEF SameLocation
<1>3. <<i, j>> \in g
  BY <1>1, ExplainsFacts, StorePreserved
<1>4. <<s, i>> \in g \/ <<s, i>> \in Po(ops)
  BY DEF Explains, ReadsLatest, Eligible
<1>5. s # j
  BY <1>1, <1>3, <1>4, ExplainsFacts, PoFacts
<1>6. <<s, j>> \in g
  <2>1. CASE <<s, i>> \in g
    BY <1>1, <1>3, <2>1, ExplainsFacts
  <2>2. CASE <<s, i>> \in Po(ops)
    <3>1. <<s, j>> \in Po(ops)
      BY <1>1, <2>2, PoFacts
    <3> QED
      BY <1>1, <1>2, <3>1, ExplainsFacts, StorePreserved
  <2> QED
    BY <1>4, <2>1, <2>2
<1> QED
  BY <1>1, <1>2, <1>5, <1>6, ExplainsFacts

\* A read after a write of its hart to its location takes that write or a newer one (CoWR).
LEMMA WriteThenRead ==
    ASSUME NEW g, Explains(g), NEW w \in Writes(ops), NEW j \in Reads(ops),
           <<w, j>> \in Po(ops), SameLocation(ops[w], ops[j]), w # Source(rel, j)
    PROVE  <<w, Source(rel, j)>> \in rel.co
<1> DEFINE s == Source(rel, j)
<1>1. /\ Good /\ w \in Ids(ops) /\ j \in Ids(ops) /\ s \in Ids(ops)
      /\ s \in Writes(ops) /\ SameLocation(ops[s], ops[j])
  BY SourceFacts, ExplainsFacts DEF Reads, Writes
<1>2. SameLocation(ops[w], ops[s]) /\ w # j
  BY <1>1, PoFacts DEF SameLocation
<1>3. <<w, s>> \in g
  BY <1>2 DEF Explains, ReadsLatest, Eligible
<1> QED
  BY <1>1, <1>2, <1>3, ExplainsFacts

\* Two reads of a hart do not go back in coherence order (CoRR).
LEMMA ReadThenRead ==
    ASSUME NEW g, Explains(g), NEW i \in Reads(ops), NEW j \in Reads(ops),
           <<i, j>> \in Po(ops), SameLocation(ops[i], ops[j]), Source(rel, i) # Source(rel, j)
    PROVE  <<Source(rel, i), Source(rel, j)>> \in rel.co
<1> DEFINE l == Source(rel, i)
           s == Source(rel, j)
<1>1. /\ Good /\ i \in Ids(ops) /\ j \in Ids(ops) /\ l \in Ids(ops) /\ s \in Ids(ops)
      /\ l \in Writes(ops) /\ SameLocation(ops[l], ops[i])
      /\ s \in Writes(ops) /\ SameLocation(ops[s], ops[j]) /\ <<s, j>> \in rel.rf
  BY SourceFacts, ExplainsFacts DEF Reads, Writes
<1>2. SameLocation(ops[l], ops[j]) /\ SameLocation(ops[l], ops[s])
  BY <1>1 DEF SameLocation
<1>3. SUFFICES ASSUME <<s, l>> \in rel.co PROVE FALSE
  BY <1>1, <1>2, CoFacts
<1>4. <<l, i>> \in g \/ <<l, i>> \in Po(ops)
  BY DEF Explains, ReadsLatest, Eligible
<1>5. <<l, i>> \notin Po(ops)
  <2>1. SUFFICES ASSUME <<l, i>> \in Po(ops) PROVE FALSE
    OBVIOUS
  <2>2. <<l, j>> \in Po(ops)
    BY <1>1, <2>1, PoFacts
  <2>3. <<l, s>> \in rel.co
    BY <1>1, <1>2, <2>2, WriteThenRead
  <2> QED
    BY <1>1, <1>2, <1>3, <2>3, CoFacts
<1>6. <<l, i>> \in g /\ l # j
  BY <1>1, <1>4, <1>5, ReadThenWrite, <1>3, ExplainsFacts, PoFacts,
     StorePreserved
<1>7. <<j, l>> \in g
  <2>1. <<j, l>> \in Fr(ops, rel)
    BY <1>1, <1>3, <1>6 DEF Fr
  <2> QED
    BY <2>1, ExplainsFacts
<1>8. ASSUME <<i, j>> \in g PROVE FALSE
  BY <1>1, <1>6, <1>7, <1>8, ExplainsFacts
<1>9. PICK m \in Writes(ops) : /\ Between(ops[i], ops[m], ops[j])
                               /\ Footprint(ops[i]) \cap Footprint(ops[j]) \cap Footprint(ops[m]) # {}
  <2>1. SUFFICES ASSUME \A m \in Writes(ops) : Between(ops[i], ops[m], ops[j]) =>
                            Footprint(ops[i]) \cap Footprint(ops[j]) \cap Footprint(ops[m]) = {}
                 PROVE  FALSE
    OBVIOUS
  <2>2. IsRead(ops[i]) /\ IsRead(ops[j]) /\ Overlap(ops[i], ops[j])
    BY <1>1, LocationFacts DEF Reads
  <2>3. DifferentSources(ops, rel, i, j)
    BY <2>1, <2>2 DEF DifferentSources
  <2>4. ops[i].regular /\ ops[j].regular
    BY <1>1 DEF Good, ValidGraph
  <2>5. <<i, j>> \in Ppo(ops, rel)
    BY <1>1, <2>3, <2>4 DEF Ppo
  <2> QED
    BY <1>8, <2>5, ExplainsFacts
<1>10. /\ m \in Ids(ops) /\ <<i, m>> \in Po(ops) /\ <<m, j>> \in Po(ops)
       /\ SameLocation(ops[i], ops[m]) /\ SameLocation(ops[m], ops[j])
  <2>1. m \in Ids(ops)
    BY DEF Writes
  <2>2. Overlap(ops[i], ops[m])
    BY <1>9 DEF Overlap
  <2>3. SameLocation(ops[i], ops[m])
    BY <1>1, <2>1, <2>2 DEF Good, ValidGraph, ScalarLocations
  <2>4. SameLocation(ops[m], ops[j])
    BY <2>3 DEF SameLocation
  <2> QED
    BY <1>1, <1>9, <2>1, <2>3, <2>4, PoFacts DEF Between
<1>11. <<i, m>> \in g
  BY <1>1, <1>10, ExplainsFacts, StorePreserved
<1>12. m = s \/ <<m, s>> \in g
  BY <1>10, WriteThenRead, ExplainsFacts
<1>13. <<s, l>> \in g
  BY <1>3, ExplainsFacts
<1>14. <<i, s>> \in g
  BY <1>1, <1>10, <1>11, <1>12, ExplainsFacts
<1>15. <<i, l>> \in g
  BY <1>1, <1>13, <1>14, ExplainsFacts
<1> QED
  BY <1>1, <1>6, <1>15, ExplainsFacts

\* An allowed graph is coherent at every location.
THEOREM AllowedIsCoherent == Spec => []CoherentPerLocation
<1>1. IInv => CoherentPerLocation
  <2> DEFINE Seen(i) == IF IsRead(ops[i]) THEN Source(rel, i) ELSE i
             Left(i) == IF IsWrite(ops[i]) THEN i ELSE Source(rel, i)
             Coherent(i, j) == \/ <<Left(i), Seen(j)>> \in rel.co
                               \/ IsRead(ops[j]) /\ Left(i) = Seen(j)
  <2> SUFFICES ASSUME IInv, Allowed, NEW i \in Ids(ops), NEW j \in Ids(ops),
                      <<i, j>> \in Po(ops), SameLocation(ops[i], ops[j])
               PROVE  Coherent(i, j)
    BY DEF CoherentPerLocation, Po
  <2>1. Explains(gmo)
    BY AcceptedWitness DEF Allowed, Passed, Explains
  <2>2. Good /\ i # j
    BY <2>1, PoFacts DEF Explains
  <2>3. ASSUME NEW k \in Ids(ops)
        PROVE  (IsRead(ops[k]) <=> k \in Reads(ops)) /\ (IsWrite(ops[k]) <=> k \in Writes(ops))
    BY DEF Reads, Writes
  <2>4. ASSUME NEW k \in Ids(ops) PROVE k \in Reads(ops) \/ k \in Writes(ops)
    <3>1. ops[k].kind \in {"read", "amo", "write", "init_write"}
      BY <2>2 DEF Good, WellFormed, Ids
    <3> QED
      BY <2>3, <3>1 DEF IsRead, IsWrite
  <2>5. CASE i \in Writes(ops) /\ j \in Reads(ops)
    BY <2>1, <2>3, <2>5, WriteThenRead
  <2>6. CASE i \notin Writes(ops) /\ j \in Reads(ops)
    BY <2>1, <2>3, <2>4, <2>6, ReadThenRead
  <2>7. CASE i \in Writes(ops) /\ j \notin Reads(ops)
    <3>1. j \in Writes(ops)
      BY <2>4, <2>7
    <3>2. <<i, j>> \in gmo
      BY <2>1, <2>2, <3>1, ExplainsFacts, StorePreserved
    <3> QED
      BY <2>1, <2>2, <2>3, <2>7, <3>1, <3>2, ExplainsFacts
  <2>8. CASE i \notin Writes(ops) /\ j \notin Reads(ops)
    BY <2>1, <2>3, <2>4, <2>8, ReadThenWrite
  <2> QED
    BY <2>5, <2>6, <2>7, <2>8
<1> QED
  BY <1>1, InductiveInvariant, PTL
=============================================================================
