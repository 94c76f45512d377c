-------------------------- MODULE CompletionProofs --------------------------
(***************************************************************************)
(* Proofs about the two completion backends.  For every set of problems    *)
(* with well-typed constraints, what FiniteSearch and FiniteCompletion     *)
(* state about `solve_finite`, its evaluator, and what is printed for Z3;  *)
(* for every set of queries, what CandidateRejection states about          *)
(* `solve_z3`.                                                             *)
(*                                                                         *)
(* Values are computed over the nodes of an expression; what holds of each *)
(* is shown of the first node for which it might not.                      *)
(*                                                                         *)
(* Within the limit, every total assignment that comes before the path in  *)
(* the order of the domains has been dismissed, and so has every one that  *)
(* extends a path whose call is being left: pruned because a constraint    *)
(* is False of a part of it, or examined at a leaf.                        *)
(***************************************************************************)
EXTENDS FiniteCompletion, CandidateRejection, FiniteSetTheorems, SequenceTheorems, TLAPS

\* A non-empty set of naturals has a least element: the intervals up to its elements
\* are finite sets, and strict inclusion of finite sets is well-founded.
LEMMA LeastNatural ==
    ASSUME NEW S \in SUBSET Nat, S # {}
    PROVE  \E n \in S : \A m \in S : n <= m
<1> DEFINE T == {0 .. n : n \in S}
<1>1. T # {} /\ T \subseteq FiniteSubsetsOf(Nat)
  <2>1. \A n \in S : IsFiniteSet(0 .. n) /\ 0 .. n \in SUBSET Nat
    BY FS_Interval
  <2> QED
    BY <2>1, Zenon DEF FiniteSubsetsOf
<1>2. PICK t \in T : \A u \in T : ~ (<<u, t>> \in StrictSubsetOrdering(Nat))
  <2> HIDE DEF T
  <2> QED
    BY <1>1, WFMin, FS_StrictSubsetOrderingWellFounded
<1>3. PICK n \in S : t = 0 .. n
  OBVIOUS
<1>4. ASSUME NEW m \in S, m < n PROVE <<0 .. m, 0 .. n>> \in StrictSubsetOrdering(Nat)
  <2>1. 0 .. m \subseteq 0 .. n /\ 0 .. n \subseteq Nat /\ n \in 0 .. n /\ n \notin 0 .. m
    BY <1>4
  <2> QED
    BY <2>1 DEF StrictSubsetOrdering
<1>5. \A m \in S : ~ (m < n)
  BY <1>2, <1>3, <1>4, Zenon
<1> QED
  BY <1>5

-----------------------------------------------------------------------------
(* The values of the nodes of an expression: there is one function that    *)
(* gives every node the value of its operator on those of its operands,    *)
(* because the operands stand before it.                                   *)

\* The operands of the first n nodes stand before them, where these have any.
Placed(e, events, n) ==
    \A j \in 1 .. n :
        LET node == Expr!Held(e[j], events)
        IN  node.op \in Expr!Leaves \/ \A k \in DOMAIN node.args : node.args[k] \in 1 .. j - 1

Valuation(value, e, n, events, assignment) ==
    value = [j \in 1 .. n |->
                LET node == Expr!Held(e[j], events)
                IN  Expr!NodeValue(node, [k \in DOMAIN node.args |-> value[node.args[k]]], assignment)]

\* Values of earlier nodes are all that the value of a node depends on.
LEMMA NodeValueLocal ==
    ASSUME NEW node, NEW f, NEW g, NEW assignment,
           node.op \in Expr!Leaves \/ \A k \in DOMAIN node.args : f[node.args[k]] = g[node.args[k]]
    PROVE  Expr!NodeValue(node, [k \in DOMAIN node.args |-> f[node.args[k]]], assignment)
               = Expr!NodeValue(node, [k \in DOMAIN node.args |-> g[node.args[k]]], assignment)
<1>1. CASE node.op \in Expr!Leaves
  BY <1>1 DEF Expr!NodeValue
<1>2. CASE \A k \in DOMAIN node.args : f[node.args[k]] = g[node.args[k]]
  <2>1. [k \in DOMAIN node.args |-> f[node.args[k]]] = [k \in DOMAIN node.args |-> g[node.args[k]]]
    BY <1>2
  <2> QED
    BY <2>1, Zenon
<1> QED
  BY <1>1, <1>2

LEMMA ValuationExists ==
    ASSUME NEW e, NEW events, NEW assignment, NEW n \in Nat, Placed(e, events, n)
    PROVE  \E value : Valuation(value, e, n, events, assignment)
<1> DEFINE Bad == {k \in Nat : k <= n /\ \A value : ~ Valuation(value, e, k, events, assignment)}
<1> SUFFICES ASSUME Bad # {} PROVE FALSE
  OBVIOUS
<1>1. PICK k \in Bad : \A j \in Bad : k <= j
  <2>1. Bad \in SUBSET Nat
    OBVIOUS
  <2> HIDE DEF Bad
  <2> QED
    BY <2>1, LeastNatural
<1>2. k # 0
  <2> SUFFICES ASSUME k = 0 PROVE FALSE
    OBVIOUS
  <2> DEFINE none == [j \in 1 .. 0 |-> 0]
  <2>1. none = [j \in 1 .. 0 |->
                  LET node == Expr!Held(e[j], events)
                  IN  Expr!NodeValue(node, [i \in DOMAIN node.args |-> none[node.args[i]]], assignment)]
    OBVIOUS
  <2>2. Valuation(none, e, 0, events, assignment)
    BY <2>1, Zenon DEF Valuation
  <2> QED
    BY <1>1, <2>2
<1>3. k - 1 \in Nat /\ k - 1 \notin Bad /\ k - 1 <= n
  BY <1>1, <1>2
<1>4. PICK f : Valuation(f, e, k - 1, events, assignment)
  BY <1>3
<1> DEFINE Args(j) == Expr!Held(e[j], events).args
           V(h, j) == Expr!NodeValue(Expr!Held(e[j], events), [i \in DOMAIN Args(j) |-> h[Args(j)[i]]], assignment)
           g == [j \in 1 .. k |-> IF j = k THEN V(f, k) ELSE f[j]]
<1>5. \A j \in 1 .. k - 1 : g[j] = f[j] /\ f[j] = V(f, j)
  <2>1. ASSUME NEW j \in 1 .. k - 1 PROVE f[j] = V(f, j)
    BY <1>4, Zenon DEF Valuation
  <2>2. ASSUME NEW j \in 1 .. k - 1 PROVE g[j] = f[j]
    <3> HIDE DEF V
    <3> QED
      BY <1>1
  <2> QED
    BY <2>1, <2>2
<1>6. g[k] = V(f, k)
  BY <1>1, <1>2
<1>7. g = [j \in 1 .. k |-> g[j]]
  OBVIOUS
<1> HIDE DEF g
<1>8. ASSUME NEW j \in 1 .. k PROVE g[j] = V(g, j)
  <2>1. Expr!Held(e[j], events).op \in Expr!Leaves \/ \A i \in DOMAIN Args(j) : g[Args(j)[i]] = f[Args(j)[i]]
    <3>1. j \in 1 .. n
      BY <1>1
    <3>2. 1 .. j - 1 \subseteq 1 .. k - 1
      BY <1>1
    <3> QED
      BY <1>5, <3>1, <3>2 DEF Placed
  <2>2. V(g, j) = V(f, j)
    BY <2>1, NodeValueLocal
  <2>3. g[j] = V(f, j)
    <3> HIDE DEF V
    <3>1. j = k \/ j \in 1 .. k - 1
      BY <1>1
    <3> QED
      BY <1>5, <1>6, <3>1
  <2> QED
    BY <2>2, <2>3
<1>9. g = [j \in 1 .. k |-> V(g, j)]
  <2> HIDE DEF V
  <2>1. [j \in 1 .. k |-> g[j]] = [j \in 1 .. k |-> V(g, j)]
    BY <1>8
  <2> QED
    BY <1>7, <2>1
<1>10. Valuation(g, e, k, events, assignment)
  BY <1>9, Zenon DEF Valuation
<1> QED
  BY <1>1, <1>10

LEMMA ValuationAgrees ==
    ASSUME NEW e, NEW events, NEW assignment, NEW n \in Nat, NEW m \in 0 .. n, Placed(e, events, n),
           NEW f, Valuation(f, e, m, events, assignment), NEW g, Valuation(g, e, n, events, assignment)
    PROVE  \A j \in 1 .. m : f[j] = g[j]
<1> DEFINE Bad == {j \in Nat : j \in 1 .. m /\ f[j] # g[j]}
<1> SUFFICES ASSUME Bad # {} PROVE FALSE
  OBVIOUS
<1>1. PICK j \in Bad : \A i \in Bad : j <= i
  BY LeastNatural
<1> DEFINE Args == Expr!Held(e[j], events).args
           V(h) == Expr!NodeValue(Expr!Held(e[j], events), [i \in DOMAIN Args |-> h[Args[i]]], assignment)
<1>2. f[j] = V(f) /\ g[j] = V(g)
  <2>1. j \in 1 .. m /\ j \in 1 .. n
    BY <1>1
  <2> QED
    BY <2>1, Zenon DEF Valuation
<1>3. \A i \in 1 .. j - 1 : f[i] = g[i]
  BY <1>1
<1>4. j \in 1 .. n
  BY <1>1
<1>5. Expr!Held(e[j], events).op \in Expr!Leaves \/ \A i \in DOMAIN Args : f[Args[i]] = g[Args[i]]
  BY <1>3, <1>4 DEF Placed
<1>6. V(f) = V(g)
  BY <1>5, NodeValueLocal
<1> QED
  BY <1>1, <1>2, <1>6

LEMMA ValueAtValuation ==
    ASSUME NEW e, NEW events, NEW assignment, NEW n \in Nat, Placed(e, events, n)
    PROVE  \E value : /\ Valuation(value, e, n, events, assignment)
                      /\ Expr!ValueAt(e, n, events, assignment) = value[n]
<1> DEFINE chosen == CHOOSE value : Valuation(value, e, n, events, assignment)
<1>1. Valuation(chosen, e, n, events, assignment)
  BY ValuationExists
<1>2. Expr!ValueAt(e, n, events, assignment) = chosen[n]
  BY DEF Expr!ValueAt, Valuation
<1> QED
  BY <1>1, <1>2, Zenon

Operands(e, i, events, assignment) ==
    LET node == Expr!Held(e[i], events)
    IN  [k \in DOMAIN node.args |-> Expr!ValueAt(e, node.args[k], events, assignment)]

\* The value of a node is that of its operator on the values of its operands.
LEMMA ValueEquation ==
    ASSUME NEW e, NEW events, NEW assignment, NEW n \in Nat, NEW i \in 1 .. n, Placed(e, events, n)
    PROVE  Expr!ValueAt(e, i, events, assignment)
               = Expr!NodeValue(Expr!Held(e[i], events), Operands(e, i, events, assignment), assignment)
<1> DEFINE Of(m) == CHOOSE value : Valuation(value, e, m, events, assignment)
           node == Expr!Held(e[i], events)
<1>1. \A m \in 1 .. n : Placed(e, events, m)
  BY DEF Placed
<1>2. ASSUME NEW m \in 1 .. n
      PROVE  Valuation(Of(m), e, m, events, assignment) /\ Expr!ValueAt(e, m, events, assignment) = Of(m)[m]
  <2>1. Valuation(Of(m), e, m, events, assignment)
    BY <1>1, ValuationExists
  <2>2. Expr!ValueAt(e, m, events, assignment) = Of(m)[m]
    BY DEF Expr!ValueAt, Valuation
  <2> QED
    BY <2>1, <2>2
<1> HIDE DEF Of
<1>3. Of(i)[i] = Expr!NodeValue(node, [k \in DOMAIN node.args |-> Of(i)[node.args[k]]], assignment)
  BY <1>2 DEF Valuation
<1>4. CASE node.op \in Expr!Leaves
  BY <1>2, <1>3, <1>4 DEF Expr!NodeValue
<1>5. CASE node.op \notin Expr!Leaves
  <2>1. ASSUME NEW k \in DOMAIN node.args
        PROVE  Of(i)[node.args[k]] = Expr!ValueAt(e, node.args[k], events, assignment)
    <3>1. node.args[k] \in 1 .. i - 1
      BY <1>5 DEF Placed
    <3>2. PICK m \in 1 .. n : m = node.args[k] /\ m \in 0 .. i
      BY <3>1
    <3>3. Valuation(Of(m), e, m, events, assignment) /\ Valuation(Of(i), e, i, events, assignment)
      BY <1>2
    <3>4. Of(m)[m] = Of(i)[m]
      BY <1>1, <3>2, <3>3, ValuationAgrees
    <3> QED
      BY <1>2, <3>2, <3>4
  <2>2. [k \in DOMAIN node.args |-> Of(i)[node.args[k]]]
            = [k \in DOMAIN node.args |-> Expr!ValueAt(e, node.args[k], events, assignment)]
    <3> HIDE DEF node
    <3> QED
      BY <2>1
  <2> QED
    BY <1>2, <1>3, <2>2, Zenon DEF Operands
<1> QED
  BY <1>4, <1>5

-----------------------------------------------------------------------------
(* What is known of an expression stays known when more symbols are bound, *)
(* unless its evaluation raises then.                                      *)

LEMMA VerdictsDiffer ==
    /\ Unknown # TRUE /\ Unknown # FALSE
    /\ Raised # TRUE /\ Raised # FALSE /\ Unknown # Raised
    /\ None \notin Int \cup {TRUE, FALSE, Unknown, Raised}
BY ValueAssumption DEF Verdictless

Refines(x, y) == x \in {Unknown, Raised} \/ y = x \/ y = Raised

\* A node stands for a leaf, or it is an operator on earlier nodes.
Evaluable(e, events) ==
    /\ Len(e) \in Nat \ {0}
    /\ \A j \in 1 .. Len(e) :
        LET node == Expr!Held(e[j], events)
        IN  \/ node.op \in Expr!Leaves
            \/ /\ node = e[j]
               /\ node.op \in Expr!Operators
               /\ node.args \in Seq(1 .. j - 1)
               /\ Expr!Arity(node.op, Len(node.args))

LEMMA EvaluableLength ==
    ASSUME NEW e, NEW events, Evaluable(e, events)
    PROVE  Len(e) \in Nat \ {0} /\ \E n \in Nat : n = Len(e)
<1>1. Len(e) \in Nat \ {0}
  BY DEF Evaluable
<1> QED
  BY <1>1

LEMMA EvaluablePlaced ==
    ASSUME NEW e, NEW events, Evaluable(e, events)
    PROVE  Placed(e, events, Len(e))
BY DEF Evaluable, Placed

FunctionOn(f, D) == f = [k \in D |-> f[k]]

\* A strict operator on operands none of which is unknown or raises.
LEMMA SameOperands ==
    ASSUME NEW D, NEW v, NEW w, FunctionOn(v, D), FunctionOn(w, D),
           \A k \in D : Refines(v[k], w[k]),
           Unknown \notin Expr!Values(v), Raised \notin Expr!Values(v), Raised \notin Expr!Values(w)
    PROVE  v = w
<1> USE DEF FunctionOn
<1>1. ASSUME NEW k \in D PROVE v[k] = w[k]
  <2>1. v[k] \in Expr!Values(v) /\ w[k] \in Expr!Values(w)
    BY DEF Expr!Values
  <2> QED
    BY <2>1 DEF Refines
<1> QED
  BY <1>1

LEMMA ApplyRefines ==
    ASSUME NEW op, NEW D, NEW v, NEW w, FunctionOn(v, D), FunctionOn(w, D),
           \A k \in D : Refines(v[k], w[k]),
           op = "implies" => {1, 2} \subseteq D
    PROVE  Refines(Expr!Apply(op, v), Expr!Apply(op, w))
<1>1. DOMAIN v = D /\ DOMAIN w = D
  BY DEF FunctionOn
<1> SUFFICES ASSUME Raised \notin Expr!Values(v), Raised \notin Expr!Values(w)
             PROVE  Refines(Expr!Apply(op, v), Expr!Apply(op, w))
  BY DEF Expr!Apply, Refines
<1>2. \A k \in D : v[k] = Unknown \/ w[k] = v[k]
  <2> SUFFICES ASSUME NEW k \in D PROVE v[k] = Unknown \/ w[k] = v[k]
    OBVIOUS
  <2>1. v[k] \in Expr!Values(v) /\ w[k] \in Expr!Values(w)
    BY <1>1 DEF Expr!Values
  <2> QED
    BY <2>1 DEF Refines
<1>3. \A x \in Expr!Values(v) : x = Unknown \/ x \in Expr!Values(w)
  BY <1>1, <1>2 DEF Expr!Values
<1>4. Unknown \notin Expr!Values(v) => v = w
  BY SameOperands
<1>5. Unknown # TRUE /\ Unknown # FALSE
  BY VerdictsDiffer
<1>6. CASE op = "and"
  <2>1. FALSE \in Expr!Values(v) => FALSE \in Expr!Values(w)
    BY <1>3, <1>5
  <2>2. Expr!Apply(op, v) = Expr!Conjunction(v) /\ Expr!Apply(op, w) = Expr!Conjunction(w)
    BY <1>6 DEF Expr!Apply
  <2> QED
    BY <1>4, <2>1, <2>2 DEF Expr!Conjunction, Refines
<1>7. CASE op = "or"
  <2>1. TRUE \in Expr!Values(v) => TRUE \in Expr!Values(w)
    BY <1>3, <1>5
  <2>2. Expr!Apply(op, v) = Expr!Disjunction(v) /\ Expr!Apply(op, w) = Expr!Disjunction(w)
    BY <1>7 DEF Expr!Apply
  <2> QED
    BY <1>4, <2>1, <2>2 DEF Expr!Disjunction, Refines
<1>8. CASE op = "implies"
  <2>1. Expr!Apply(op, v) = Expr!Implication(v) /\ Expr!Apply(op, w) = Expr!Implication(w)
    BY <1>8 DEF Expr!Apply
  <2>2. (v[1] = Unknown \/ w[1] = v[1]) /\ (v[2] = Unknown \/ w[2] = v[2])
    BY <1>2, <1>8
  <2> QED
    BY <1>5, <2>1, <2>2 DEF Expr!Implication, Refines
<1>9. CASE op = "distinct"
  <2>1. Expr!Apply(op, v) = Expr!Distinct(v) /\ Expr!Apply(op, w) = Expr!Distinct(w)
    BY <1>9 DEF Expr!Apply
  <2>2. (\E i, j \in DOMAIN v : i # j /\ v[i] = v[j] /\ v[i] # Unknown)
            => \E i, j \in DOMAIN w : i # j /\ w[i] = w[j] /\ w[i] # Unknown
    BY <1>1, <1>2
  <2> QED
    BY <1>4, <2>1, <2>2 DEF Expr!Distinct, Refines
<1>10. CASE op \notin {"and", "or", "implies", "distinct"}
  <2>1. Unknown \in Expr!Values(v) => Expr!Apply(op, v) = Unknown
    BY <1>10 DEF Expr!Apply
  <2>2. v = w => Expr!Apply(op, v) = Expr!Apply(op, w)
    OBVIOUS
  <2> QED
    BY <1>4, <2>1, <2>2 DEF Refines
<1> QED
  BY <1>6, <1>7, <1>8, <1>9, <1>10

LEMMA ChoiceRefines ==
    ASSUME NEW v, NEW w, \A k \in {1, 2, 3} : Refines(v[k], w[k])
    PROVE  Refines(Expr!Choice(v), Expr!Choice(w))
<1>1. /\ Unknown # TRUE /\ Unknown # FALSE /\ Raised # TRUE /\ Raised # FALSE
      /\ Unknown # Raised
  BY VerdictsDiffer
<1> DEFINE a == v[1]  b == v[2]  c == v[3]  d == w[1]  f == w[2]  g == w[3]
<1>2. Refines(a, d) /\ Refines(b, f) /\ Refines(c, g)
  OBVIOUS
<1>3. CASE a = TRUE \/ a = FALSE
  BY <1>1, <1>2, <1>3 DEF Refines, Expr!Choice
<1>4. CASE a = Raised
  BY <1>1, <1>4 DEF Refines, Expr!Choice
<1>5. CASE a \notin {TRUE, FALSE, Raised}
  <2>1. Expr!Choice(v) = Expr!Undecided(b, c)
    BY <1>5 DEF Expr!Choice
  <2>2. Expr!Undecided(b, c) \notin {Unknown, Raised} => b = c /\ Expr!Undecided(b, c) = b
    BY DEF Expr!Undecided
  <2>3. b = c /\ b \notin {Unknown, Raised} => Expr!Choice(w) \in {b, Raised}
    <3> SUFFICES ASSUME b = c, b \notin {Unknown, Raised} PROVE Expr!Choice(w) \in {b, Raised}
      OBVIOUS
    <3>1. f \in {b, Raised} /\ g \in {b, Raised}
      BY <1>2 DEF Refines
    <3>2. Expr!Undecided(f, g) \in {b, Raised}
      BY <3>1 DEF Expr!Undecided
    <3> QED
      BY <3>1, <3>2 DEF Expr!Choice
  <2> QED
    BY <2>1, <2>2, <2>3 DEF Refines
<1> QED
  BY <1>3, <1>4, <1>5

LEMMA LeafRefines ==
    ASSUME NEW leaf, leaf.op \in Expr!Leaves, NEW small, NEW large,
           \A n \in DOMAIN small : n \in DOMAIN large /\ large[n] = small[n]
    PROVE  Refines(Expr!Leaf(leaf, small), Expr!Leaf(leaf, large))
BY DEF Expr!Leaves, Expr!Leaf, Refines

LEMMA ValueRefines ==
    ASSUME NEW e, NEW events, Evaluable(e, events), NEW small, NEW large,
           \A n \in DOMAIN small : n \in DOMAIN large /\ large[n] = small[n]
    PROVE  Refines(Expr!Evaluate(e, events, small), Expr!Evaluate(e, events, large))
<1> DEFINE V(i, assignment) == Expr!ValueAt(e, i, events, assignment)
           Bad == {i \in Nat : i \in 1 .. Len(e) /\ ~ Refines(V(i, small), V(i, large))}
<1>1. Bad = {}
  <2> SUFFICES ASSUME Bad # {} PROVE FALSE
    OBVIOUS
  <2>1. PICK i \in Bad : \A j \in Bad : i <= j
    <3>1. Bad \in SUBSET Nat
      OBVIOUS
    <3> HIDE DEF Bad
    <3> QED
      BY <3>1, LeastNatural
  <2>2. PICK n \in Nat : n = Len(e)
    BY DEF Evaluable
  <2>3. i \in 1 .. n
    BY <2>1, <2>2
  <2> DEFINE node == Expr!Held(e[i], events)
             v == Operands(e, i, events, small)
             w == Operands(e, i, events, large)
  <2>4. /\ V(i, small) = Expr!NodeValue(node, v, small)
        /\ V(i, large) = Expr!NodeValue(node, w, large)
    <3>1. Placed(e, events, n)
      BY <2>2, EvaluablePlaced
    <3> QED
      BY <2>3, <3>1, ValueEquation
  <2>5. \A j \in 1 .. i - 1 : Refines(V(j, small), V(j, large))
    <3> HIDE DEF V
    <3> QED
      BY <2>1, <2>2, <2>3
  <2>6. CASE node.op \in Expr!Leaves
    <3>1. Refines(V(i, small), V(i, large))
      BY <2>4, <2>6, LeafRefines DEF Expr!NodeValue
    <3> QED
      BY <2>1, <3>1
  <2>7. CASE node.op \notin Expr!Leaves
    <3>1. node.args \in Seq(1 .. i - 1) /\ Expr!Arity(node.op, Len(node.args))
      BY <2>2, <2>3, <2>7 DEF Evaluable
    <3> DEFINE D == DOMAIN node.args
    <3>2. FunctionOn(v, D) /\ FunctionOn(w, D)
      BY DEF Operands, FunctionOn
    <3>3. ASSUME NEW k \in D PROVE Refines(v[k], w[k])
      <4>1. v[k] = V(node.args[k], small) /\ w[k] = V(node.args[k], large)
        BY DEF Operands
      <4> HIDE DEF V, node, v, w
      <4>2. node.args[k] \in 1 .. i - 1
        BY <3>1, <2>3
      <4> QED
        BY <2>5, <4>1, <4>2
    <3>4. /\ node.op = "implies" => {1, 2} \subseteq D
          /\ node.op = "ite" => {1, 2, 3} \subseteq D
      <4>1. PICK m \in Nat : m = Len(node.args) /\ D = 1 .. m
        BY <3>1
      <4>2. /\ node.op = "implies" => Len(node.args) = 2
            /\ node.op = "ite" => Len(node.args) = 3
        BY <3>1 DEF Expr!Arity, Expr!Leaves
      <4> HIDE DEF node
      <4>3. (node.op = "implies" => D = 1 .. 2) /\ (node.op = "ite" => D = 1 .. 3)
        BY <4>1, <4>2
      <4> HIDE DEF D
      <4> QED
        BY <4>3
    <3>5. V(i, small) = Expr!Node(node.op, v) /\ V(i, large) = Expr!Node(node.op, w)
      BY <2>4, <2>7, Zenon DEF Expr!NodeValue
    <3> HIDE DEF v, w, D, node, V
    <3>6. Refines(V(i, small), V(i, large))
      BY <3>2, <3>3, <3>4, <3>5, ApplyRefines, ChoiceRefines DEF Expr!Node
    <3> QED
      BY <2>1, <3>6 DEF V
  <2> QED
    BY <2>6, <2>7
<1>2. Len(e) \in 1 .. Len(e) /\ Len(e) \in Nat
  BY DEF Evaluable
<1> QED
  BY <1>1, <1>2 DEF Expr!Evaluate

-----------------------------------------------------------------------------
(* A well-typed expression has a value of its sort, or none.               *)

HasSort(x, sort) ==
    /\ sort.kind = "bool" => x \in BOOLEAN
    /\ sort.kind = "int" => x \in Int \cup {None}
    /\ sort.kind = "bv" => x \in Int

Known(x, sort) == x \in {Unknown, Raised} \/ HasSort(x, sort)

LEMMA BooleanKnown ==
    ASSUME NEW x \in {TRUE, FALSE, Unknown, Raised}
    PROVE  Known(x, Expr!BoolSort)
BY DEF Known, HasSort, Expr!BoolSort

LEMMA KnownBoolean ==
    ASSUME NEW x, Known(x, Expr!BoolSort)
    PROVE  x \in {TRUE, FALSE, Unknown, Raised}
BY DEF Known, HasSort, Expr!BoolSort

LEMMA FloorDivideInt ==
    ASSUME NEW a \in Int, NEW b \in Int, b # 0
    PROVE  Expr!FloorDivide(a, b) \in Int /\ Expr!Modulo(a, b) \in Int
<1>1. CASE b > 0
  <2>1. a \div b \in Int
    BY <1>1
  <2> QED
    BY <1>1, <2>1 DEF Expr!FloorDivide, Expr!Modulo
<1>2. CASE ~ (b > 0)
  <2>1. (-b) \in Int /\ -b > 0 /\ (-a) \in Int
    BY <1>2
  <2>2. (-a) \div (-b) \in Int
    BY <2>1
  <2> QED
    BY <1>2, <2>2 DEF Expr!FloorDivide, Expr!Modulo
<1> QED
  BY <1>1, <1>2

\* The verdicts of the operators that yield one.
LEMMA StrictBoolean ==
    ASSUME NEW v,
           NEW op \in {"not", "xor", "eq", "ne", "lt", "le", "gt", "ge"} \cup Expr!Functions,
           op = "not" => v[1] \in BOOLEAN, op \in Expr!Ordering => v[1] \in Int /\ v[2] \in Int
    PROVE  Expr!Strict(op, v) \in {TRUE, FALSE, Raised}
<1>1. CASE op \in {"not", "xor", "eq", "ne"}
  BY <1>1 DEF Expr!Strict
<1>2. CASE op \in {"lt", "le", "gt", "ge"}
  <2>1. PICK a \in Int, b \in Int : a = v[1] /\ b = v[2]
    BY <1>2 DEF Expr!Ordering
  <2>2. (a < b) \in BOOLEAN /\ (a <= b) \in BOOLEAN /\ (a > b) \in BOOLEAN /\ (a >= b) \in BOOLEAN
    OBVIOUS
  <2>3. Expr!Strict(op, v) \in {a < b, a <= b, a > b, a >= b}
    BY <1>2, <2>1, Zenon DEF Expr!Strict
  <2> QED
    BY <2>2, <2>3
<1>3. CASE op \in {"same_value", "mask_overlap", "mask_covers"}
  BY <1>3 DEF Expr!Strict, Expr!AllEqual
<1>4. CASE op = "same_block"
  <2>1. Expr!Strict(op, v) = Expr!SameBlock(v)
    BY <1>4 DEF Expr!Strict
  <2> QED
    BY <2>1 DEF Expr!SameBlock
<1> QED
  BY <1>1, <1>2, <1>3, <1>4 DEF Expr!Functions

LEMMA StrictNumber ==
    ASSUME NEW v, NEW op \in Expr!Arithmetic \cup {"neg"}, v[1] \in Int, op # "neg" => v[2] \in Int
    PROVE  Expr!Strict(op, v) \in Int \cup {Raised}
<1>1. CASE op \in {"neg", "add", "sub", "mul"}
  BY <1>1 DEF Expr!Strict
<1>2. CASE op \in {"div", "mod"}
  BY <1>2, FloorDivideInt DEF Expr!Strict
<1> QED
  BY <1>1, <1>2 DEF Expr!Arithmetic

LEMMA LogicalOperands ==
    ASSUME NEW op \in Expr!Logical, NEW sorts, Expr!TypedHere(op, sorts)
    PROVE  Expr!AllBool(sorts)
BY DEF Expr!TypedHere, Expr!AllBool, Expr!Logical, Expr!Equality, Expr!Ordering, Expr!Arithmetic

\* A node on operands that have values of their sorts, or none.
LEMMA NodeKnown ==
    ASSUME NEW op \in Expr!Operators, NEW n \in Nat, Expr!Arity(op, n),
           NEW v, FunctionOn(v, 1 .. n), NEW sorts, FunctionOn(sorts, 1 .. n),
           \A k \in 1 .. n : Known(v[k], sorts[k]),
           Expr!TypedHere(op, sorts),
           NEW sort, sort = Expr!SortOf(op, sorts, sort), op \in Expr!Functions => sort = Expr!BoolSort
    PROVE  Known(Expr!Node(op, v), sort)
<1>1. DOMAIN v = 1 .. n /\ DOMAIN sorts = 1 .. n
  BY DEF FunctionOn
<1>2. CASE op = "ite"
  <2>1. n = 3
    BY <1>2 DEF Expr!Arity, Expr!Leaves
  <2>2. sorts[2] = sorts[3] /\ sort = sorts[2]
    BY <1>2 DEF Expr!TypedHere, Expr!SortOf, Expr!Logical, Expr!Equality, Expr!Ordering, Expr!Arithmetic,
                Expr!Leaves, Expr!Functions
  <2>3. Known(v[2], sort) /\ Known(v[3], sort)
    <3>1. 2 \in 1 .. 3 /\ 3 \in 1 .. 3
      OBVIOUS
    <3> QED
      BY <2>1, <2>2, <3>1
  <2>4. Expr!Node(op, v) \in {v[2], v[3], Unknown, Raised}
    BY <1>2 DEF Expr!Node, Expr!Choice, Expr!Undecided
  <2> QED
    BY <2>3, <2>4 DEF Known
<1> SUFFICES ASSUME op # "ite", Raised \notin Expr!Values(v) PROVE Known(Expr!Apply(op, v), sort)
  BY <1>2 DEF Expr!Node, Expr!Apply, Known
<1>3. CASE op \in {"and", "or", "implies", "distinct"}
  <2>1. sort = Expr!BoolSort
    BY <1>3 DEF Expr!SortOf, Expr!Arithmetic, Expr!Leaves, Expr!Functions
  <2>2. Expr!Apply(op, v) \in {TRUE, FALSE, Unknown}
    BY <1>3 DEF Expr!Apply, Expr!Conjunction, Expr!Disjunction, Expr!Implication, Expr!Distinct
  <2> QED
    BY <2>1, <2>2, BooleanKnown
<1>4. CASE op \notin {"and", "or", "implies", "distinct"}
  <2>1. Expr!Apply(op, v) = (IF Unknown \in Expr!Values(v) THEN Unknown
                            ELSE IF op \in Expr!Computing /\ None \in Expr!Values(v) THEN Raised
                            ELSE Expr!Strict(op, v))
    BY <1>4, Zenon DEF Expr!Apply
  <2> SUFFICES ASSUME Unknown \notin Expr!Values(v), op \in Expr!Computing => None \notin Expr!Values(v)
               PROVE  Known(Expr!Strict(op, v), sort)
    BY <2>1 DEF Known
  <2>2. \A k \in 1 .. n : HasSort(v[k], sorts[k])
    BY <1>1 DEF Known, Expr!Values
  <2>3. ASSUME op \in Expr!Ordering \cup Expr!Arithmetic \cup {"neg"}
        PROVE  v[1] \in Int /\ (op # "neg" => v[2] \in Int)
    <3>1. Expr!Compatible(sorts) /\ Expr!Numeric(sorts[1])
      BY <2>3 DEF Expr!TypedHere, Expr!Logical, Expr!Equality, Expr!Ordering, Expr!Arithmetic
    <3>2. n = (IF op = "neg" THEN 1 ELSE 2)
      BY <2>3 DEF Expr!Arity, Expr!Leaves, Expr!Ordering, Expr!Arithmetic
    <3>3. 1 \in 1 .. n /\ (op # "neg" => 2 \in 1 .. n)
      BY <3>2
    <3>4. sorts[1].kind \in {"int", "bv"} /\ (op # "neg" => sorts[2] = sorts[1])
      BY <1>1, <3>1, <3>3 DEF Expr!Compatible, Expr!Numeric
    <3>5. v[1] # None /\ (op # "neg" => v[2] # None)
      <4>1. op \in Expr!Computing
        BY <2>3 DEF Expr!Computing, Expr!Ordering, Expr!Arithmetic
      <4> QED
        BY <1>1, <3>3, <4>1 DEF Expr!Values
    <3> QED
      BY <2>2, <3>3, <3>4, <3>5 DEF HasSort
  <2>4. CASE op \in Expr!Arithmetic \cup {"neg"}
    <3>1. Expr!Strict(op, v) \in Int \cup {Raised}
      BY <2>3, <2>4, StrictNumber
    <3>2. sort = sorts[1] /\ sort.kind \in {"int", "bv"}
      <4>1. Expr!Numeric(sorts[1])
        BY <2>4 DEF Expr!TypedHere, Expr!Logical, Expr!Equality, Expr!Ordering, Expr!Arithmetic
      <4>2. sort = sorts[1]
        BY <2>4 DEF Expr!SortOf, Expr!Arithmetic, Expr!Leaves, Expr!Functions
      <4> QED
        BY <4>1, <4>2 DEF Expr!Numeric
    <3> QED
      BY <3>1, <3>2 DEF Known, HasSort
  <2>5. CASE op \in {"not", "xor", "eq", "ne", "lt", "le", "gt", "ge"} \cup Expr!Functions
    <3>1. sort = Expr!BoolSort
      BY <2>5 DEF Expr!SortOf, Expr!Arithmetic, Expr!Leaves, Expr!Functions
    <3>2. op = "not" => v[1] \in BOOLEAN
      <4> SUFFICES ASSUME op = "not" PROVE v[1] \in BOOLEAN
        OBVIOUS
      <4>1. n = 1
        BY DEF Expr!Arity, Expr!Leaves
      <4>2. Expr!AllBool(sorts)
        BY LogicalOperands DEF Expr!Logical
      <4>3. 1 \in 1 .. n
        BY <4>1
      <4> QED
        BY <1>1, <2>2, <4>2, <4>3 DEF Expr!AllBool, Expr!BoolSort, HasSort
    <3>3. op \in Expr!Ordering => v[1] \in Int /\ v[2] \in Int
      BY <2>3 DEF Expr!Ordering
    <3> QED
      BY <2>5, <3>1, <3>2, <3>3, StrictBoolean, BooleanKnown
  <2> QED
    BY <1>4, <2>4, <2>5 DEF Expr!Operators, Expr!Logical, Expr!Equality, Expr!Ordering
<1> QED
  BY <1>3, <1>4

\* The leaves have values of their sorts, and calls are predicates.
SoundLeaves(e, events, assignment) ==
    \A i \in 1 .. Len(e) :
        LET node == Expr!Held(e[i], events)
        IN  /\ node.op \in Expr!Leaves => Known(Expr!Leaf(node, assignment), e[i].sort)
            /\ node.op \in Expr!Functions => node.sort = Expr!BoolSort

\* A typed node on a set of operands.
LEMMA TypedNode ==
    ASSUME NEW e, DOMAIN e = 1 .. Len(e), Expr!Typed(e), NEW i \in 1 .. Len(e)
    PROVE  /\ e[i].sort = Expr!SortOf(e[i].op, Expr!Sorts(e, e[i]), e[i].sort)
           /\ Expr!TypedHere(e[i].op, Expr!Sorts(e, e[i]))
           /\ Expr!Sorts(e, e[i]) = [k \in DOMAIN e[i].args |-> e[e[i].args[k]].sort]
BY DEF Expr!Typed, Expr!Sorts

LEMMA ValueKnown ==
    ASSUME NEW e, NEW events, NEW assignment, Evaluable(e, events), DOMAIN e = 1 .. Len(e), Expr!Typed(e),
           SoundLeaves(e, events, assignment)
    PROVE  \A i \in 1 .. Len(e) : Known(Expr!ValueAt(e, i, events, assignment), e[i].sort)
<1>2. PICK n \in Nat : n = Len(e)
  BY EvaluableLength, Zenon
<1> DEFINE V(i) == Expr!ValueAt(e, i, events, assignment)
           Bad == {i \in Nat : i \in 1 .. Len(e) /\ ~ Known(V(i), e[i].sort)}
<1> SUFFICES ASSUME Bad # {} PROVE FALSE
  OBVIOUS
<1>1. PICK i \in Bad : \A j \in Bad : i <= j
  <2>1. Bad \in SUBSET Nat
    OBVIOUS
  <2> HIDE DEF Bad
  <2> QED
    BY <2>1, LeastNatural
<1>3. i \in 1 .. n
  BY <1>1, <1>2
<1> DEFINE node == Expr!Held(e[i], events)
           v == Operands(e, i, events, assignment)
<1>4. V(i) = Expr!NodeValue(node, v, assignment)
  <2>1. Placed(e, events, n)
    BY <1>2, EvaluablePlaced
  <2> QED
    BY <1>3, <2>1, ValueEquation
<1>5. \A j \in 1 .. i - 1 : Known(V(j), e[j].sort)
  <2> HIDE DEF V
  <2> QED
    BY <1>1, <1>2, <1>3
<1>6. CASE node.op \in Expr!Leaves
  <2>1. Known(V(i), e[i].sort)
    BY <1>2, <1>3, <1>4, <1>6 DEF Expr!NodeValue, SoundLeaves
  <2> QED
    BY <1>1, <2>1
<1>7. CASE node.op \notin Expr!Leaves
  <2>1. /\ node = e[i] /\ node.op \in Expr!Operators /\ node.args \in Seq(1 .. i - 1)
        /\ Expr!Arity(node.op, Len(node.args))
    BY <1>2, <1>3, <1>7 DEF Evaluable
  <2> DEFINE sorts == Expr!Sorts(e, node)
  <2>2. PICK m \in Nat : m = Len(node.args) /\ DOMAIN node.args = 1 .. m
    BY <2>1
  <2>3. FunctionOn(v, 1 .. m) /\ FunctionOn(sorts, 1 .. m)
    BY <2>2 DEF Operands, Expr!Sorts, FunctionOn
  <2>4. ASSUME NEW k \in 1 .. m PROVE Known(v[k], sorts[k])
    <3>1. v[k] = V(node.args[k]) /\ sorts[k] = e[node.args[k]].sort
      BY <2>2 DEF Operands, Expr!Sorts
    <3> HIDE DEF V, node, v, sorts
    <3>2. node.args[k] \in 1 .. i - 1
      BY <1>3, <2>1, <2>2
    <3> QED
      BY <1>5, <3>1, <3>2
  <2>5. /\ Expr!TypedHere(node.op, sorts) /\ e[i].sort = Expr!SortOf(node.op, sorts, e[i].sort)
        /\ node.op \in Expr!Functions => e[i].sort = Expr!BoolSort
    BY <1>2, <1>3, <2>1, TypedNode DEF SoundLeaves
  <2>6. V(i) = Expr!Node(node.op, v)
    BY <1>4, <1>7, Zenon DEF Expr!NodeValue
  <2> DEFINE op == node.op  sort == e[i].sort
  <2>7. Known(V(i), sort)
    <3>1. op \in Expr!Operators /\ Expr!Arity(op, m)
      BY <2>1, <2>2
    <3>2. Expr!TypedHere(op, sorts) /\ sort = Expr!SortOf(op, sorts, sort)
      BY <2>5
    <3>3. op \in Expr!Functions => sort = Expr!BoolSort
      BY <2>5
    <3>4. V(i) = Expr!Node(op, v)
      BY <2>6
    <3> HIDE DEF V, v, sorts, op, sort
    <3> QED
      BY <2>3, <2>4, <3>1, <3>2, <3>3, <3>4, NodeKnown
  <2> HIDE DEF V, node, v, sorts
  <2> QED
    BY <1>1, <2>7 DEF V
<1> QED
  BY <1>6, <1>7

-----------------------------------------------------------------------------
(* The constraints of a problem. *)

LEMMA ProblemShape ==
    ASSUME NEW pr \in Problem
    PROVE  /\ Len(pr.domains) \in Nat /\ DOMAIN pr.names = 1 .. Len(pr.domains)
           /\ \A i, j \in 1 .. Len(pr.domains) : pr.names[i] = pr.names[j] => i = j
           /\ \A i \in 1 .. Len(pr.constraints) : WellPosed(pr, pr.constraints[i])
BY ProblemAssumption, ExpressionAssumption

LEMMA WellPosedEvaluable ==
    ASSUME NEW pr, NEW c, WellPosed(pr, c)
    PROVE  Evaluable(c, pr.events)
<1>1. Len(c) \in Nat \ {0} /\ DOMAIN c = 1 .. Len(c)
  BY DEF WellPosed, Expr!WellFormed
<1>2. ASSUME NEW j \in 1 .. Len(c)
      PROVE  LET node == Expr!Held(c[j], pr.events)
             IN  \/ node.op \in Expr!Leaves
                 \/ /\ node = c[j] /\ node.op \in Expr!Operators /\ node.args \in Seq(1 .. j - 1)
                    /\ Expr!Arity(node.op, Len(node.args))
  <2>1. /\ c[j].op \in Expr!Operators \cup {"literal", "symbol", "field"} /\ c[j].args \in Seq(1 .. j - 1)
        /\ Expr!Arity(c[j].op, Len(c[j].args))
    BY <1>1 DEF WellPosed, Expr!WellFormed
  <2>2. CASE c[j].op = "field"
    <3>1. LeafFits(pr, Expr!Held(c[j], pr.events), c[j].sort)
      BY <1>1, <2>2 DEF WellPosed
    <3> QED
      BY <3>1 DEF LeafFits, Expr!Leaves
  <2>3. CASE c[j].op # "field"
    BY <2>1, <2>3 DEF Expr!Held, Expr!Leaves
  <2> QED
    BY <2>2, <2>3
<1> QED
  BY <1>1, <1>2, Zenon DEF Evaluable

\* What a symbol is assigned.
LEMMA AssignmentAt ==
    ASSUME NEW pr, NEW values, \A i, j \in DOMAIN values : pr.names[i] = pr.names[j] => i = j
    PROVE  /\ DOMAIN Assignment(pr, values) = {pr.names[i] : i \in DOMAIN values}
           /\ \A i \in DOMAIN values : Assignment(pr, values)[pr.names[i]] = values[i]
<1>1. DOMAIN Assignment(pr, values) = {pr.names[i] : i \in DOMAIN values}
  BY DEF Assignment
<1>2. ASSUME NEW i \in DOMAIN values PROVE Assignment(pr, values)[pr.names[i]] = values[i]
  <2> DEFINE at == CHOOSE j \in DOMAIN values : pr.names[j] = pr.names[i]
  <2>1. at \in DOMAIN values /\ pr.names[at] = pr.names[i]
    OBVIOUS
  <2>2. at = i
    BY <2>1
  <2>3. Assignment(pr, values)[pr.names[i]] = values[at]
    BY <1>1 DEF Assignment
  <2> QED
    BY <2>2, <2>3
<1> QED
  BY <1>1, <1>2

\* Under the values of a path, whole or in part, the leaves of a constraint are sound.
LEMMA ConstraintLeaves ==
    ASSUME NEW pr \in Problem, NEW c, WellPosed(pr, c),
           NEW p, DOMAIN p \subseteq 1 .. Len(pr.domains),
           \A i \in DOMAIN p : p[i] \in 1 .. Len(pr.domains[i])
    PROVE  SoundLeaves(c, pr.events, Assignment(pr, ValuesOf(pr, p)))
<1> DEFINE values == ValuesOf(pr, p)
           bound == Assignment(pr, values)
<1>1. DOMAIN values = DOMAIN p /\ \A i \in DOMAIN p : values[i] = pr.domains[i][p[i]]
  BY DEF ValuesOf
<1>2. /\ DOMAIN bound = {pr.names[i] : i \in DOMAIN p}
      /\ \A i \in DOMAIN p : bound[pr.names[i]] = pr.domains[i][p[i]]
  <2>1. \A i, j \in DOMAIN values : pr.names[i] = pr.names[j] => i = j
    BY <1>1, ProblemShape
  <2> HIDE DEF values
  <2>2. /\ DOMAIN bound = {pr.names[i] : i \in DOMAIN values}
        /\ \A i \in DOMAIN values : bound[pr.names[i]] = values[i]
    BY <2>1, AssignmentAt, Zenon
  <2> HIDE DEF bound
  <2> QED
    BY <1>1, <2>2
<1>3. Len(c) \in Nat \ {0} /\ DOMAIN c = 1 .. Len(c)
  BY DEF WellPosed, Expr!WellFormed
<1>4. ASSUME NEW sort, NEW value, Fits(sort, value) PROVE HasSort(value, sort)
  <2>1. sort.kind \in {"int", "bv"} => value \in Int
    BY <1>4 DEF Fits, Expr!Accepts
  <2> QED
    BY <1>4, <2>1 DEF Fits, Expr!Accepts, HasSort
<1> HIDE DEF bound
<1>5. ASSUME NEW i \in 1 .. Len(c), NEW node, node = Expr!Held(c[i], pr.events), node.op \in Expr!Leaves
      PROVE  Known(Expr!Leaf(node, bound), c[i].sort)
  <2>1. c[i].op \in {"literal", "symbol", "field"}
    <3>1. c[i].op \in Expr!Operators \cup {"literal", "symbol", "field"}
      BY <1>3 DEF WellPosed, Expr!WellFormed
    <3>2. CASE c[i].op \in Expr!Operators
      <4>1. node = c[i]
        BY <1>5, <3>2 DEF Expr!Held, Expr!Operators, Expr!Logical, Expr!Equality, Expr!Ordering,
                          Expr!Arithmetic, Expr!Functions
      <4> QED
        BY <1>5, <3>2, <4>1 DEF Expr!Leaves, Expr!Operators, Expr!Logical, Expr!Equality, Expr!Ordering,
                                Expr!Arithmetic, Expr!Functions
    <3> QED
      BY <3>1, <3>2
  <2>2. LeafFits(pr, node, c[i].sort)
    BY <1>3, <1>5, <2>1 DEF WellPosed
  <2> DEFINE sort == c[i].sort
  <2>3. CASE node.op = "literal"
    <3>1. Fits(sort, node.value)
      BY <2>2, <2>3 DEF LeafFits
    <3>2. Expr!Leaf(node, bound) = node.value
      BY <2>3 DEF Expr!Leaf
    <3> QED
      BY <1>4, <3>1, <3>2 DEF Known
  <2>4. CASE node.op = "symbol"
    <3>1. PICK m \in DOMAIN pr.names :
            pr.names[m] = node.name /\ \A place \in 1 .. Len(pr.domains[m]) : Fits(sort, pr.domains[m][place])
      BY <2>2, <2>4 DEF LeafFits
    <3>2. Expr!Leaf(node, bound) = (IF node.name \in DOMAIN bound THEN bound[node.name] ELSE Unknown)
      BY <2>4 DEF Expr!Leaf
    <3>3. ASSUME node.name \in DOMAIN bound PROVE m \in DOMAIN p
      <4>1. PICK j \in DOMAIN p : pr.names[j] = pr.names[m]
        BY <1>2, <3>1, <3>3
      <4>2. j \in 1 .. Len(pr.domains) /\ m \in 1 .. Len(pr.domains)
        BY ProblemShape
      <4> QED
        BY <4>1, <4>2, ProblemShape
    <3>4. ASSUME m \in DOMAIN p PROVE HasSort(bound[node.name], sort)
      <4>1. Fits(sort, bound[node.name])
        BY <1>2, <3>1, <3>4
      <4> QED
        BY <1>4, <4>1
    <3> QED
      BY <3>2, <3>3, <3>4 DEF Known
  <2>5. CASE node.op = "missing"
    BY <2>5 DEF Expr!Leaf, Known
  <2>6. CASE node.op = "none"
    <3>1. sort.kind = "int" /\ Expr!Leaf(node, bound) = None
      BY <2>2, <2>6 DEF LeafFits, Expr!Leaf
    <3> QED
      BY <3>1 DEF Known, HasSort
  <2> QED
    BY <1>5, <2>3, <2>4, <2>5, <2>6 DEF Expr!Leaves
<1>6. ASSUME NEW i \in 1 .. Len(c), NEW node, node = Expr!Held(c[i], pr.events), node.op \in Expr!Functions
      PROVE  node.sort = Expr!BoolSort
  <2>1. node.op \notin Expr!Leaves
    BY <1>6 DEF Expr!Leaves, Expr!Functions
  <2>2. node = c[i]
    <3>1. Evaluable(c, pr.events)
      BY WellPosedEvaluable
    <3> QED
      BY <1>6, <2>1, <3>1 DEF Evaluable
  <2> QED
    BY <1>3, <1>6, <2>2 DEF WellPosed
<1> QED
  BY <1>5, <1>6, Zenon DEF SoundLeaves, bound

\* The evaluator gives one of four verdicts on a constraint, and one that is known stays the
\* same when more variables are bound, or its evaluation raises.
LEMMA VerdictsAreFinal ==
    ASSUME NEW pr \in Problem, NEW p \in TotalPathsOf(pr), NEW i \in 1 .. Len(pr.constraints)
    PROVE  /\ Evaluated(pr, pr.constraints[i], ValuesOf(pr, p)) \in {TRUE, FALSE, Unknown, Raised}
           /\ \A n \in 0 .. Len(pr.domains) :
                  LET known == Evaluated(pr, pr.constraints[i], ValuesOf(pr, FirstOf(p, n)))
                  IN  known \in {TRUE, FALSE} => Evaluated(pr, pr.constraints[i], ValuesOf(pr, p)) \in {known, Raised}
<1> DEFINE c == pr.constraints[i]
           bound == Assignment(pr, ValuesOf(pr, p))
<1>1. WellPosed(pr, c) /\ Evaluable(c, pr.events)
  BY ProblemShape, WellPosedEvaluable
<1>2. PICK width \in Nat : width = Len(pr.domains)
  BY ProblemShape
<1>3. DOMAIN p = 1 .. width /\ \A j \in 1 .. width : p[j] \in 1 .. Len(pr.domains[j])
  <2>1. DOMAIN p = 1 .. width /\ \A j \in 1 .. width : p[j] <= Len(pr.domains[j])
    BY <1>2 DEF TotalPathsOf
  <2>2. ASSUME NEW j \in 1 .. width PROVE p[j] \in 1 .. Len(pr.domains[j])
    <3>1. PICK m \in 1 .. width : p[j] \in 1 .. Len(pr.domains[m])
      BY <1>2 DEF TotalPathsOf
    <3>2. Len(pr.domains[j]) \in Nat /\ Len(pr.domains[m]) \in Nat
      BY <1>2, ProblemAssumption
    <3> QED
      BY <2>1, <3>1, <3>2
  <2> QED
    BY <2>1, <2>2
<1>4. \A j, m \in 1 .. width : pr.names[j] = pr.names[m] => j = m
  BY <1>2, ProblemShape
<1>5. DOMAIN ValuesOf(pr, p) = 1 .. width /\ \A j \in 1 .. width : ValuesOf(pr, p)[j] = pr.domains[j][p[j]]
  BY <1>3 DEF ValuesOf
<1>6. Evaluated(pr, c, ValuesOf(pr, p)) \in {TRUE, FALSE, Unknown, Raised}
  <2>1. SoundLeaves(c, pr.events, bound)
    <3>1. DOMAIN p \subseteq 1 .. Len(pr.domains) /\ \A j \in DOMAIN p : p[j] \in 1 .. Len(pr.domains[j])
      BY <1>2, <1>3
    <3> QED
      BY <1>1, <3>1, ConstraintLeaves
  <2>2. DOMAIN c = 1 .. Len(c) /\ Expr!Typed(c) /\ c[Len(c)].sort = Expr!BoolSort
    BY <1>1 DEF WellPosed, Expr!WellFormed
  <2> HIDE DEF c, bound
  <2>3. \A j \in 1 .. Len(c) : Known(Expr!ValueAt(c, j, pr.events, bound), c[j].sort)
    BY <1>1, <2>1, <2>2, ValueKnown
  <2>4. Len(c) \in 1 .. Len(c)
    BY <1>1, EvaluableLength
  <2>5. Known(Expr!Evaluate(c, pr.events, bound), Expr!BoolSort)
    BY <2>2, <2>3, <2>4 DEF Expr!Evaluate
  <2> QED
    BY <2>5, KnownBoolean DEF Evaluated, bound
<1>7. ASSUME NEW n \in 0 .. Len(pr.domains)
      PROVE  Refines(Evaluated(pr, c, ValuesOf(pr, FirstOf(p, n))), Evaluated(pr, c, ValuesOf(pr, p)))
  <2> DEFINE part == Assignment(pr, ValuesOf(pr, FirstOf(p, n)))
             first == ValuesOf(pr, FirstOf(p, n))
             all == ValuesOf(pr, p)
  <2>1. DOMAIN first = 1 .. n /\ \A j \in 1 .. n : first[j] = pr.domains[j][p[j]]
    BY DEF ValuesOf, FirstOf
  <2>2. 1 .. n \subseteq 1 .. width
    BY <1>2
  <2> HIDE DEF first, all
  <2>3. /\ DOMAIN Assignment(pr, first) = {pr.names[j] : j \in DOMAIN first}
        /\ \A j \in DOMAIN first : Assignment(pr, first)[pr.names[j]] = first[j]
    <3>1. \A j, m \in DOMAIN first : pr.names[j] = pr.names[m] => j = m
      BY <1>4, <2>1, <2>2
    <3> QED
      BY <3>1, AssignmentAt, Zenon
  <2>4. /\ DOMAIN Assignment(pr, all) = {pr.names[j] : j \in DOMAIN all}
        /\ \A j \in DOMAIN all : Assignment(pr, all)[pr.names[j]] = all[j]
    <3>1. \A j, m \in DOMAIN all : pr.names[j] = pr.names[m] => j = m
      BY <1>4, <1>5 DEF all
    <3> QED
      BY <3>1, AssignmentAt, Zenon
  <2>5. ASSUME NEW name \in DOMAIN Assignment(pr, first)
        PROVE  name \in DOMAIN Assignment(pr, all) /\ Assignment(pr, all)[name] = Assignment(pr, first)[name]
    <3>1. PICK j \in 1 .. n : name = pr.names[j]
      BY <2>1, <2>3
    <3>2. j \in DOMAIN all /\ all[j] = first[j] /\ j \in DOMAIN first
      BY <1>5, <2>1, <2>2 DEF all
    <3> QED
      BY <2>3, <2>4, <3>1, <3>2
  <2> HIDE DEF c
  <2>6. Refines(Expr!Evaluate(c, pr.events, Assignment(pr, first)), Expr!Evaluate(c, pr.events, Assignment(pr, all)))
    BY <1>1, <2>5, ValueRefines
  <2> QED
    BY <2>6 DEF Evaluated, first, all
<1> QED
  BY <1>6, <1>7, VerdictsDiffer DEF Refines

\* An assignment that is no completion, and whose unknowns have been noted.
Dismissed(q) == ~ Solves(q) /\ (Possible(q) => unresolved)

Extends(q, p) == \A i \in 1 .. Len(p) : q[i] = p[i]

Behind(q) == Before(q, path) \/ (phase = "leave" /\ Extends(q, path))

BehindIsDismissed ==
    phase \in {"enter", "leave"} /\ ~ Exceeded(explored) =>
        \A q \in TotalPaths : Behind(q) => Dismissed(q)

Searching == phase \in {"enter", "leave"} => ~ witness.found

IInv ==
    /\ TypeOK
    /\ problem \in Problem
    /\ Searching
    /\ BehindIsDismissed
    /\ UnsatIsExhaustive
    /\ SatIsFirstSolution

-----------------------------------------------------------------------------

\* The lengths that make up a problem.
LEMMA ProblemTypes ==
    ASSUME problem \in Problem
    PROVE  /\ Width \in Nat /\ Len(problem.constraints) \in Nat /\ problem.limit \in Nat
           /\ \A i \in 1 .. Width : Len(problem.domains[i]) \in Nat \ {0}
BY ProblemAssumption DEF Width

\* The places of a total path.
LEMMA TotalPathTypes ==
    ASSUME problem \in Problem, NEW q \in TotalPaths
    PROVE  /\ DOMAIN q = 1 .. Width
           /\ \A i \in 1 .. Width : q[i] \in Nat \ {0} /\ q[i] <= Len(problem.domains[i])
<1>1. \A i \in 1 .. Width : 1 .. Len(problem.domains[i]) \subseteq Nat \ {0}
  BY ProblemTypes
<1>2. UNION {1 .. Len(problem.domains[i]) : i \in 1 .. Width} \subseteq Nat \ {0}
  BY <1>1
<1> QED
  BY <1>2 DEF TotalPaths, TotalPathsOf, Width

\* The path, too, is a function on the positions of its variables.
LEMMA PathTypes ==
    ASSUME TypeOK, problem \in Problem
    PROVE  /\ Len(path) \in Nat /\ Len(path) <= Width /\ DOMAIN path = 1 .. Len(path)
           /\ \A i \in 1 .. Len(path) : path[i] \in Nat \ {0} /\ path[i] <= Len(problem.domains[i])
BY DEF TypeOK

\* A verdict on the path carries over to every total assignment that extends it.
LEMMA RefutedStays ==
    ASSUME TypeOK, problem \in Problem, NEW q \in TotalPaths, Extends(q, path), Refuted(path)
    PROVE  Verdicts(q) \cap {FALSE, Raised} # {}
<1>1. path = FirstOf(q, Len(path))
  BY PathTypes DEF FirstOf, Extends, TypeOK
<1>2. PICK i \in 1 .. Len(problem.constraints) : Verdict(path, i) = FALSE
  BY DEF Refuted
<1>3. Len(path) \in 0 .. Len(problem.domains)
  BY PathTypes, ProblemTypes DEF Width
<1>4. Evaluated(problem, problem.constraints[i], ValuesOf(problem, FirstOf(q, Len(path)))) = FALSE
  BY <1>1, <1>2 DEF Verdict, Assigned
<1>5. Evaluated(problem, problem.constraints[i], ValuesOf(problem, q)) \in {FALSE, Raised}
  BY <1>3, <1>4, VerdictsAreFinal DEF TotalPaths
<1> QED
  BY <1>5 DEF Verdicts, Verdict, Assigned

LEMMA RefutedIsDismissed ==
    ASSUME NEW q, Verdicts(q) \cap {FALSE, Raised} # {}
    PROVE  Dismissed(q)
<1>1. PICK x : x \in Verdicts(q) /\ x \in {FALSE, Raised}
  OBVIOUS
<1>2. x \notin {TRUE, Unknown}
  BY <1>1, VerdictsDiffer
<1>3. ~ (Verdicts(q) \subseteq {TRUE}) /\ ~ (Verdicts(q) \subseteq {TRUE, Unknown})
  BY <1>1, <1>2
<1> QED
  BY <1>3, Zenon DEF Dismissed, Solves, Possible

\* Without a False or raising constraint in evaluation order there is none at all.
LEMMA ConsistentVerdicts ==
    ASSUME problem \in Problem, NEW q \in TotalPaths, Consistent(q)
    PROVE  Verdicts(q) \subseteq {TRUE, Unknown}
<1> DEFINE Bad == {i \in 1 .. Len(problem.constraints) : Verdict(q, i) \in {FALSE, Raised}}
<1>1. Bad \in SUBSET Nat
  <2>1. 1 .. Len(problem.constraints) \subseteq Nat
    BY ProblemTypes
  <2> QED
    BY <2>1, Zenon
<1>2. Bad = {}
  <2> SUFFICES ASSUME NEW n \in Bad PROVE FALSE
    OBVIOUS
  <2>1. PICK least \in Bad : \A j \in Bad : least <= j
    <3> HIDE DEF Bad
    <3> QED
      BY <1>1, LeastNatural
  <2>2. ASSUME NEW j \in 1 .. least - 1
        PROVE  j \in 1 .. Len(problem.constraints) /\ j \notin Bad
    <3>1. PICK m \in Nat : m = Len(problem.constraints)
      BY ProblemTypes
    <3>2. least \in Nat /\ least \in 1 .. m
      BY <2>1, <3>1
    <3>3. j \in 1 .. m /\ ~ (least <= j)
      BY <3>2
    <3> QED
      BY <2>1, <3>1, <3>3
  <2>3. \A j \in 1 .. least - 1 : Verdict(q, j) # FALSE /\ Verdict(q, j) # Raised
    BY <2>2
  <2> QED
    BY <2>1, <2>3 DEF Consistent, Refuted, Raises
<1>3. \A i \in 1 .. Len(problem.constraints) : Verdict(q, i) \in {TRUE, FALSE, Unknown, Raised}
  BY VerdictsAreFinal DEF Verdict, Assigned, TotalPaths
<1> QED
  BY <1>2, <1>3 DEF Verdicts

-----------------------------------------------------------------------------
(* What the moves of the search leave behind. *)

\* Nothing comes before the first path, and everything extends it.
LEMMA EmptyPath ==
    ASSUME NEW q
    PROVE  ~ Before(q, << >>) /\ Extends(q, << >>)
BY DEF Before, Extends

\* A call for a first value has no more behind it than its caller had.
LEMMA BehindDescent ==
    ASSUME TypeOK, problem \in Problem, NEW q \in TotalPaths, Len(path) < Width,
           Before(q, Append(path, 1))
    PROVE  Before(q, path)
<1> DEFINE longer == Append(path, 1)
<1>1. PICK n \in Nat : n = Len(path)
  BY PathTypes, Zenon
<1>2. /\ DOMAIN longer = 1 .. n + 1
      /\ \A i \in 1 .. n : longer[i] = path[i]
      /\ longer[n + 1] = 1
  BY <1>1, PathTypes DEF TypeOK
<1>3. PICK i \in 1 .. n + 1 : q[i] < longer[i] /\ \A j \in 1 .. i - 1 : q[j] = longer[j]
  BY <1>2 DEF Before
<1>4. i # n + 1
  <2>1. n + 1 \in 1 .. Width
    BY <1>1, PathTypes, ProblemTypes
  <2> QED
    BY <1>2, <1>3, <2>1, TotalPathTypes
<1>5. i \in 1 .. n
  BY <1>4
<1>6. i \in DOMAIN q \cap DOMAIN path
  BY <1>1, <1>5, PathTypes, ProblemTypes, TotalPathTypes
<1>7. q[i] < path[i] /\ \A j \in 1 .. i - 1 : q[j] = path[j]
  BY <1>2, <1>3, <1>5
<1> QED
  BY <1>6, <1>7 DEF Before

\* The caller's path.
LEMMA CallersProperties ==
    ASSUME TypeOK, problem \in Problem, path # << >>
    PROVE  /\ Callers \in Seq(Nat \ {0})
           /\ Len(path) \in Nat \ {0} /\ Len(Callers) = Len(path) - 1
           /\ \A i \in 1 .. Len(path) - 1 : Callers[i] = path[i]
<1>1. path \in Seq(Nat \ {0}) /\ Len(path) \in Nat \ {0}
  BY DEF TypeOK
<1>2. PICK n \in Nat : n = Len(path) - 1
  BY <1>1
<1>3. n \in Int /\ 1 \in Int /\ \A i \in 1 .. n : path[i] \in Nat \ {0}
  BY <1>1, <1>2
<1>4. /\ SubSeq(path, 1, n) \in Seq(Nat \ {0})
      /\ Len(SubSeq(path, 1, n)) = n
      /\ \A i \in 1 .. n : SubSeq(path, 1, n)[i] = path[i]
  BY <1>1, <1>2, <1>3
<1> QED
  BY <1>1, <1>2, <1>4 DEF Callers

\* What comes before a caller's path or extends it with a value up to the last one
\* tried comes before the path or extends it.
LEMMA BehindReturn ==
    ASSUME TypeOK, problem \in Problem, path # << >>, NEW q \in TotalPaths,
           \/ Before(q, Callers)
           \/ Extends(q, Callers) /\ q[Len(path)] <= Last
    PROVE  Before(q, path) \/ Extends(q, path)
<1>1. PICK n \in Nat : n + 1 = Len(path)
  BY CallersProperties
<1>2. DOMAIN Callers = 1 .. n /\ Len(Callers) = n /\ \A i \in 1 .. n : Callers[i] = path[i]
  BY <1>1, CallersProperties
<1>3. DOMAIN path = 1 .. n + 1 /\ 1 .. n + 1 \subseteq 1 .. Width /\ DOMAIN q = 1 .. Width
  BY <1>1, PathTypes, ProblemTypes, TotalPathTypes
<1>4. CASE Before(q, Callers)
  <2>1. PICK i \in 1 .. n : q[i] < Callers[i] /\ \A j \in 1 .. i - 1 : q[j] = Callers[j]
    BY <1>2, <1>4 DEF Before
  <2>2. i \in DOMAIN q \cap DOMAIN path
    <3>1. i \in 1 .. n + 1
      BY <2>1
    <3> QED
      BY <1>3, <3>1
  <2>3. q[i] < path[i] /\ \A j \in 1 .. i - 1 : q[j] = path[j]
    BY <1>2, <2>1
  <2> QED
    BY <2>2, <2>3 DEF Before
<1>5. CASE Extends(q, Callers) /\ q[Len(path)] <= Last
  <2>1. \A i \in 1 .. n : q[i] = path[i]
    BY <1>2, <1>5 DEF Extends
  <2>2. q[n + 1] \in Nat /\ path[n + 1] \in Nat /\ q[n + 1] <= path[n + 1]
    <3>1. n + 1 \in 1 .. Width /\ n + 1 \in 1 .. Len(path)
      BY <1>1, <1>3
    <3>2. q[n + 1] \in Nat /\ path[n + 1] \in Nat
      BY <3>1, TotalPathTypes, PathTypes
    <3> QED
      BY <1>1, <1>5, <3>2 DEF Last
  <2>3. CASE q[n + 1] = path[n + 1]
    <3>1. \A i \in 1 .. n + 1 : q[i] = path[i]
      BY <2>1, <2>3
    <3> QED
      BY <1>1, <3>1 DEF Extends
  <2>4. CASE q[n + 1] < path[n + 1]
    <3>1. n + 1 \in 1 .. n + 1 /\ (n + 1) - 1 = n
      OBVIOUS
    <3>2. n + 1 \in DOMAIN q \cap DOMAIN path
      BY <1>3, <3>1
    <3> QED
      BY <2>1, <2>4, <3>1, <3>2 DEF Before
  <2> QED
    BY <2>2, <2>3, <2>4
<1> QED
  BY <1>4, <1>5

\* Before the next value of a variable come the last one tried and what came before.
LEMMA BehindNextValue ==
    ASSUME TypeOK, problem \in Problem, path # << >>, NEW q \in TotalPaths,
           Before(q, Append(Callers, Last + 1))
    PROVE  Before(q, path) \/ Extends(q, path)
<1> DEFINE later == Append(Callers, Last + 1)
<1>1. PICK n \in Nat : n + 1 = Len(path)
  BY CallersProperties
<1>2. /\ Callers \in Seq(Nat \ {0}) /\ Len(Callers) = n /\ DOMAIN Callers = 1 .. n
      /\ Last \in Nat \ {0}
  BY <1>1, CallersProperties, PathTypes DEF Last
<1>3. DOMAIN later = 1 .. n + 1 /\ later[n + 1] = Last + 1 /\ \A i \in 1 .. n : later[i] = Callers[i]
  <2> HIDE DEF Callers, Last
  <2> QED
    BY <1>2
<1>4. PICK i \in 1 .. n + 1 : q[i] < later[i] /\ \A j \in 1 .. i - 1 : q[j] = later[j]
  BY <1>3 DEF Before
<1>5. 1 .. n + 1 \subseteq DOMAIN q /\ n + 1 \in 1 .. Width
  BY <1>1, PathTypes, ProblemTypes, TotalPathTypes
<1>6. CASE i = n + 1
  <2>1. \A j \in 1 .. n : q[j] = Callers[j]
    BY <1>3, <1>4, <1>6
  <2>2. q[n + 1] \in Nat /\ q[n + 1] < Last + 1
    BY <1>3, <1>4, <1>5, <1>6, TotalPathTypes
  <2>3. q[Len(path)] <= Last
    BY <1>1, <1>2, <2>2
  <2> QED
    BY <1>2, <2>1, <2>3, BehindReturn DEF Extends
<1>7. CASE i \in 1 .. n
  <2>1. i \in DOMAIN q \cap DOMAIN Callers
    BY <1>2, <1>5, <1>7
  <2>2. q[i] < Callers[i] /\ \A j \in 1 .. i - 1 : q[j] = Callers[j]
    BY <1>3, <1>4, <1>7
  <2> QED
    BY <2>1, <2>2, BehindReturn DEF Before
<1> QED
  BY <1>6, <1>7

-----------------------------------------------------------------------------
(* Every step keeps the invariant. *)

LEMMA TypeStep ==
    ASSUME TypeOK, problem \in Problem, [Next]_vars
    PROVE  TypeOK' /\ problem' = problem
<1> USE DEF TypeOK
<1>1. Len(path) \in Nat /\ Width \in Nat
  BY ProblemTypes
<1>2. CASE Prune \/ Raise \/ Finish
  BY <1>2 DEF Prune, Raise, Finish, Width
<1>3. CASE Leaf
  <2>1. unresolved' \in BOOLEAN
    BY <1>3, Zenon DEF Leaf
  <2>2. witness'.found \in BOOLEAN /\ phase' \in {"done", "leave"}
    <3>1. CASE Accepted(path)
      <4>1. phase' = "done" /\ witness' = [found |-> TRUE, values |-> Assigned(path)]
        BY <1>3, <3>1, Zenon DEF Leaf
      <4> QED
        BY <4>1
    <3>2. CASE ~ Accepted(path)
      BY <1>3, <3>2 DEF Leaf
    <3> QED
      BY <3>1, <3>2
  <2> QED
    BY <1>3, <2>1, <2>2 DEF Leaf, Width
<1>4. CASE Descend
  <2>1. /\ path' \in Seq(Nat \ {0}) /\ Len(path') = Len(path) + 1
        /\ path'[Len(path) + 1] = 1 /\ \A i \in 1 .. Len(path) : path'[i] = path[i]
    BY <1>4 DEF Descend
  <2>2. Len(path') <= Width
    BY <1>1, <1>4, <2>1 DEF Descend
  <2>3. ASSUME NEW i \in 1 .. Len(path') PROVE path'[i] <= Len(problem.domains[i])
    <3>1. CASE i = Len(path) + 1
      BY <1>1, <2>1, <2>2, <3>1, ProblemTypes
    <3>2. CASE i # Len(path) + 1
      BY <1>1, <2>1, <3>2
    <3> QED
      BY <3>1, <3>2
  <2> QED
    BY <1>4, <2>1, <2>2, <2>3 DEF Descend, Width
<1>5. CASE NextValue
  <2>1. /\ Callers \in Seq(Nat \ {0}) /\ Len(Callers) = Len(path) - 1
        /\ Len(path) \in Nat \ {0}
        /\ \A i \in 1 .. Len(path) - 1 : Callers[i] = path[i]
    BY <1>5, CallersProperties DEF NextValue
  <2>2. Last \in Nat \ {0} /\ Last + 1 <= Len(problem.domains[Len(path)])
    BY <1>1, <1>5, <2>1, ProblemTypes DEF NextValue, HasNextValue, Last
  <2>3. /\ path' \in Seq(Nat \ {0}) /\ Len(path') = Len(path)
        /\ path'[Len(path)] = Last + 1
        /\ \A i \in 1 .. Len(path) - 1 : path'[i] = path[i]
    <3>1. path' = Append(Callers, Last + 1)
      BY <1>5 DEF NextValue
    <3> HIDE DEF TypeOK
    <3> QED
      BY <2>1, <2>2, <3>1
  <2>4. ASSUME NEW i \in 1 .. Len(path') PROVE path'[i] <= Len(problem.domains[i])
    <3>1. CASE i = Len(path)
      BY <2>2, <2>3, <3>1
    <3>2. CASE i # Len(path)
      <4>1. i \in 1 .. Len(path) - 1 /\ i \in 1 .. Len(path)
        BY <1>1, <2>3, <3>2
      <4> QED
        BY <2>3, <4>1
    <3> QED
      BY <3>1, <3>2
  <2> QED
    BY <1>1, <1>5, <2>3, <2>4 DEF NextValue, Width
<1>6. CASE Return
  <2>1. path' \in Seq(Nat \ {0}) /\ Len(path') = Len(path) - 1 /\ Len(path) \in Nat \ {0}
        /\ \A i \in 1 .. Len(path) - 1 : path'[i] = path[i]
    BY <1>6, CallersProperties DEF Return
  <2> QED
    BY <1>1, <1>6, <2>1 DEF Return, Width
<1>7. CASE Terminated \/ UNCHANGED vars
  BY <1>7 DEF Terminated, vars, Width
<1> QED
  BY <1>2, <1>3, <1>4, <1>5, <1>6, <1>7 DEF Next

LEMMA BehindStep ==
    ASSUME IInv, [Next]_vars
    PROVE  BehindIsDismissed'
<1> SUFFICES ASSUME phase' \in {"enter", "leave"}, ~ Exceeded(explored'),
                    NEW q \in TotalPaths, Behind(q)'
             PROVE  ~ Solves(q) /\ (Possible(q) => unresolved')
  <2>1. problem' = problem
    BY TypeStep DEF IInv
  <2>2. /\ TotalPaths' = TotalPaths
        /\ \A q \in TotalPaths : Solves(q)' = Solves(q) /\ Possible(q)' = Possible(q)
    BY <2>1 DEF TotalPaths, Solves, Possible, Verdicts, Verdict, Assigned
  <2> QED
    BY <2>1, <2>2 DEF BehindIsDismissed, Dismissed, Exceeded
<1>1. TypeOK /\ problem \in Problem /\ problem' = problem /\ explored \in Nat /\ problem.limit \in Nat
  BY TypeStep, ProblemTypes DEF IInv, TypeOK
<1>2. ASSUME phase \in {"enter", "leave"}, ~ Exceeded(explored), Behind(q)
      PROVE  ~ Solves(q) /\ (Possible(q) => unresolved)
  BY <1>2 DEF IInv, BehindIsDismissed, Dismissed
<1>3. CASE Prune
  <2>1. Before(q, path) \/ Extends(q, path)
    BY <1>3 DEF Prune, Behind, Before, Extends
  <2>2. phase = "enter" /\ ~ Exceeded(explored) /\ Refuted(path) /\ unresolved' = unresolved
    BY <1>1, <1>3 DEF Prune, Exceeded
  <2>3. CASE Extends(q, path)
    BY <1>1, <2>2, <2>3, RefutedStays, RefutedIsDismissed DEF Dismissed
  <2>4. CASE Before(q, path)
    BY <1>2, <2>2, <2>4 DEF Behind
  <2> QED
    BY <2>1, <2>3, <2>4
<1>4. CASE Leaf
  <2>1. Before(q, path) \/ Extends(q, path)
    BY <1>4 DEF Leaf, Behind, Before, Extends
  <2>2. /\ phase = "enter" /\ ~ Exceeded(explored) /\ Consistent(path) /\ Len(path) = Width
        /\ ~ Accepted(path) /\ unresolved' = (unresolved \/ LeafUnresolved(path))
    BY <1>1, <1>4 DEF Leaf, Exceeded
  <2>3. CASE Extends(q, path)
    <3>1. q = path
      <4>1. path \in [1 .. Width -> Nat \ {0}]
        BY <1>1, <2>2 DEF TypeOK
      <4>2. q \in [1 .. Width -> Nat \ {0}]
        BY <1>1, TotalPathTypes DEF TotalPaths, TotalPathsOf
      <4>3. \A i \in 1 .. Width : q[i] = path[i]
        BY <2>2, <2>3 DEF Extends
      <4>4. PICK D : D = 1 .. Width
        OBVIOUS
      <4>5. PICK R : R = Nat \ {0}
        OBVIOUS
      <4>6. path \in [D -> R] /\ q \in [D -> R] /\ \A i \in D : q[i] = path[i]
        BY <4>1, <4>2, <4>3, <4>4, <4>5, Zenon
      <4> QED
        BY <4>6, SMT
    <3>2. Verdicts(q) \subseteq {TRUE, Unknown}
      BY <1>1, <2>2, <3>1, ConsistentVerdicts
    <3>3. ~ Solves(q)
      BY <2>2, <3>1 DEF Accepted, Solves
    <3> QED
      BY <2>2, <3>1, <3>3 DEF Possible, LeafUnresolved
  <2>4. CASE Before(q, path)
    BY <1>2, <2>2, <2>4 DEF Behind
  <2> QED
    BY <2>1, <2>3, <2>4
<1>5. CASE Descend
  <2>1. /\ phase = "enter" /\ phase' = "enter" /\ ~ Exceeded(explored) /\ Len(path) < Width
        /\ path' = Append(path, 1) /\ unresolved' = unresolved
    BY <1>1, <1>5 DEF Descend, Exceeded
  <2>2. Before(q, Append(path, 1))
    BY <2>1 DEF Behind, Before
  <2>3. Before(q, path)
    BY <1>1, <2>1, <2>2, BehindDescent
  <2> QED
    BY <1>2, <2>1, <2>3 DEF Behind
<1>6. CASE NextValue
  <2>1. /\ phase = "leave" /\ phase' = "enter" /\ ~ Exceeded(explored) /\ path # << >>
        /\ path' = Append(Callers, Last + 1) /\ unresolved' = unresolved
    BY <1>6 DEF NextValue, HasNextValue
  <2>2. Before(q, Append(Callers, Last + 1))
    BY <2>1 DEF Behind, Before
  <2>3. Before(q, path) \/ Extends(q, path)
    BY <1>1, <2>1, <2>2, BehindNextValue
  <2> QED
    BY <1>2, <2>1, <2>3 DEF Behind
<1>7. CASE Return
  <2>1. /\ phase = "leave" /\ ~ Exceeded(explored) /\ path # << >>
        /\ path' = Callers /\ unresolved' = unresolved /\ phase' = phase
    BY <1>1, <1>7 DEF Return, Exceeded
  <2>2. Last >= Len(problem.domains[Len(path)])
    BY <1>1, <1>7, <2>1, PathTypes, ProblemTypes, CallersProperties DEF Return, HasNextValue, Last
  <2>3. q[Len(path)] <= Last
    <3>1. Len(path) \in 1 .. Width
      BY <1>1, <2>1, PathTypes, ProblemTypes, CallersProperties
    <3> QED
      BY <1>1, <2>2, <3>1, TotalPathTypes, ProblemTypes, PathTypes, CallersProperties, <2>1 DEF Last
  <2>4. Before(q, Callers) \/ Extends(q, Callers)
    BY <2>1 DEF Behind, Before, Extends
  <2>5. Before(q, path) \/ Extends(q, path)
    BY <1>1, <2>1, <2>3, <2>4, BehindReturn
  <2> QED
    BY <1>2, <2>1, <2>5 DEF Behind
<1>8. CASE Raise \/ Finish \/ Terminated
  BY <1>8 DEF Raise, Finish, Terminated, vars
<1>9. CASE UNCHANGED vars
  <2>1. phase' = phase /\ path' = path /\ explored' = explored /\ unresolved' = unresolved
    BY <1>9 DEF vars
  <2>2. Behind(q)
    BY <2>1 DEF Behind, Before, Extends
  <2> QED
    BY <1>1, <1>2, <2>1, <2>2 DEF Exceeded
<1> QED
  BY <1>3, <1>4, <1>5, <1>6, <1>7, <1>8, <1>9 DEF Next

LEMMA VerdictStep ==
    ASSUME IInv, [Next]_vars
    PROVE  Searching' /\ UnsatIsExhaustive' /\ SatIsFirstSolution'
<1>1. /\ TypeOK /\ problem \in Problem /\ problem' = problem
      /\ Searching /\ BehindIsDismissed /\ UnsatIsExhaustive /\ SatIsFirstSolution
  BY TypeStep DEF IInv
<1>2. /\ TotalPaths' = TotalPaths /\ Width' = Width
      /\ \A q \in TotalPaths : Solves(q)' = Solves(q) /\ Possible(q)' = Possible(q)
  BY <1>1 DEF TotalPaths, Width, Solves, Possible, Verdicts, Verdict, Assigned
<1>3. CASE Leaf /\ Accepted(path)
  <2>1. /\ phase = "enter" /\ ~ Exceeded(explored') /\ Consistent(path) /\ Len(path) = Width
        /\ phase' = "done" /\ witness' = [found |-> TRUE, values |-> Assigned(path)]
        /\ path' = path
    BY <1>3 DEF Leaf
  <2>2. ~ Exceeded(explored)
    BY <1>1, <1>3, ProblemTypes DEF Leaf, Exceeded, TypeOK
  <2>3. Solves(path)
    BY <1>3 DEF Accepted, Solves
  <2>4. \A q \in TotalPaths : Before(q, path) => ~ Solves(q)
    BY <1>1, <2>1, <2>2 DEF BehindIsDismissed, Behind, Dismissed
  <2>5. Searching' /\ UnsatIsExhaustive'
    BY <2>1 DEF Searching, UnsatIsExhaustive, Status
  <2>6. Solves(path)' /\ Assigned(path)' = Assigned(path)
    BY <1>1, <2>1, <2>3 DEF Solves, Verdicts, Verdict, Assigned
  <2>7. \A q \in TotalPaths' : Before(q, path)' => ~ Solves(q)'
    BY <1>2, <2>1, <2>4 DEF Before
  <2> QED
    BY <1>2, <2>1, <2>5, <2>6, <2>7 DEF SatIsFirstSolution
<1>4. CASE Finish
  <2>1. /\ phase = "leave" /\ path = << >> /\ phase' = "done" /\ witness' = witness
        /\ explored' = explored /\ unresolved' = unresolved /\ ~ witness.found
    BY <1>1, <1>4 DEF Finish, Searching
  <2>2. ASSUME Status' = "unsat", NEW q \in TotalPaths PROVE ~ Possible(q)
    <3>1. ~ Exceeded(explored) /\ ~ unresolved
      BY <1>1, <2>1, <2>2 DEF Status, Exceeded
    <3>2. Behind(q)
      BY <2>1, EmptyPath DEF Behind
    <3> QED
      BY <1>1, <2>1, <3>1, <3>2 DEF BehindIsDismissed, Dismissed
  <2> QED
    BY <1>2, <2>1, <2>2 DEF Searching, UnsatIsExhaustive, SatIsFirstSolution
<1>5. CASE Prune \/ Raise \/ (Leaf /\ ~ Accepted(path)) \/ Descend \/ NextValue \/ Return
  <2>1. /\ phase \in {"enter", "leave"} /\ phase' \in {"enter", "leave", "raised"}
        /\ witness' = witness
    BY <1>5 DEF Prune, Raise, Leaf, Descend, NextValue, Return
  <2> QED
    BY <1>1, <2>1 DEF Searching, UnsatIsExhaustive, SatIsFirstSolution
<1>6. CASE Terminated \/ UNCHANGED vars
  <2>1. UNCHANGED vars
    BY <1>6 DEF Terminated
  <2>2. /\ phase' = phase /\ path' = path /\ witness' = witness
        /\ explored' = explored /\ unresolved' = unresolved
    BY <2>1 DEF vars
  <2>3. Status' = Status /\ Searching'
    BY <1>1, <2>2 DEF Status, Exceeded, Searching
  <2>4. UnsatIsExhaustive'
    BY <1>1, <1>2, <2>2, <2>3 DEF UnsatIsExhaustive
  <2>5. SatIsFirstSolution'
    <3>1. Solves(path)' = Solves(path) /\ Assigned(path)' = Assigned(path)
      BY <1>1, <2>2 DEF Solves, Verdicts, Verdict, Assigned
    <3>2. \A q \in TotalPaths : Before(q, path)' = Before(q, path)
      BY <2>2 DEF Before
    <3> QED
      BY <1>1, <1>2, <2>2, <3>1, <3>2 DEF SatIsFirstSolution
  <2> QED
    BY <2>3, <2>4, <2>5
<1> QED
  BY <1>3, <1>4, <1>5, <1>6 DEF Next

LEMMA InitInv == Init => IInv
<1> SUFFICES ASSUME Init PROVE IInv
  OBVIOUS
<1> USE DEF Init
<1>1. TypeOK /\ problem \in Problem /\ Searching /\ UnsatIsExhaustive /\ SatIsFirstSolution
  <2>1. problem \in Problem /\ Width \in Nat
    BY ProblemTypes
  <2>2. ~ witness.found /\ phase = "enter"
    OBVIOUS
  <2>3. TypeOK
    <3>1. path \in Seq(Nat \ {0}) /\ Len(path) = 0
      OBVIOUS
    <3>2. \A i \in 1 .. Len(path) : path[i] <= Len(problem.domains[i])
      BY <3>1
    <3>3. Len(path) <= Width /\ explored \in Nat /\ witness.found \in BOOLEAN
      BY <2>1, <2>2, <3>1
    <3>4. unresolved \in BOOLEAN
      BY Zenon
    <3> QED
      BY <2>2, <3>1, <3>2, <3>3, <3>4 DEF TypeOK
  <2> QED
    BY <2>1, <2>2, <2>3 DEF Searching, UnsatIsExhaustive, SatIsFirstSolution
<1>2. BehindIsDismissed
  BY EmptyPath DEF BehindIsDismissed, Behind
<1> QED
  BY <1>1, <1>2 DEF IInv

LEMMA StepInv == IInv /\ [Next]_vars => IInv'
BY TypeStep, BehindStep, VerdictStep DEF IInv

LEMMA Invariance == Spec => []IInv
BY InitInv, StepInv, PTL DEF Spec

\* Type correctness of `solve_finite`: the active calls bind a first part of the
\* variables to values of their domains.
THEOREM TypeCorrect == Spec => []TypeOK
<1>1. IInv => TypeOK
  BY DEF IInv
<1> QED
  BY <1>1, Invariance, PTL

\* `solve_finite` reports FiniteStatus.UNSAT only when no assignment within the
\* domains is a completion or could become one by resolving unknown constraints.
THEOREM UnsatSound == Spec => []UnsatIsExhaustive
<1>1. IInv => UnsatIsExhaustive
  BY DEF IInv
<1> QED
  BY <1>1, Invariance, PTL

\* The assignment that `solve_finite` returns satisfies every constraint and the
\* state semantics, and no assignment before it in the order of the domains does.
THEOREM FirstSolution == Spec => []SatIsFirstSolution
<1>1. IInv => SatIsFirstSolution
  BY DEF IInv
<1> QED
  BY <1>1, Invariance, PTL

-----------------------------------------------------------------------------
(* The node limit.  A call is only begun while the counter is within it. *)

CallsWithinLimit ==
    /\ problem \in Problem
    /\ explored \in Nat
    /\ LimitIsKept
    /\ phase = "enter" => explored <= problem.limit

LEMMA LimitInit == Init => CallsWithinLimit
BY ProblemTypes DEF Init, CallsWithinLimit, LimitIsKept

LEMMA LimitStep == CallsWithinLimit /\ [Next]_vars => CallsWithinLimit'
<1> SUFFICES ASSUME CallsWithinLimit, [Next]_vars PROVE CallsWithinLimit'
  OBVIOUS
<1> USE DEF CallsWithinLimit, LimitIsKept, Exceeded
<1>1. problem.limit \in Nat
  BY ProblemTypes
<1>2. CASE Prune
  BY <1>1, <1>2 DEF Prune
<1>3. CASE Raise
  BY <1>1, <1>3 DEF Raise
<1>4. CASE Leaf
  BY <1>1, <1>4 DEF Leaf
<1>5. CASE Descend
  BY <1>1, <1>5 DEF Descend
<1>6. CASE NextValue
  <2>1. explored' = explored /\ problem' = problem /\ ~ (explored > problem.limit)
    BY <1>6 DEF NextValue, HasNextValue
  <2> QED
    BY <1>1, <2>1
<1>7. CASE Return
  BY <1>1, <1>7 DEF Return
<1>8. CASE Finish
  BY <1>1, <1>8 DEF Finish
<1>9. CASE Terminated \/ UNCHANGED vars
  BY <1>1, <1>9 DEF Terminated, vars
<1> QED
  BY <1>2, <1>3, <1>4, <1>5, <1>6, <1>7, <1>8, <1>9 DEF Next

\* `solve_finite` makes at most one call beyond its node limit.
THEOREM LimitKept == Spec => []LimitIsKept
<1>1. CallsWithinLimit => LimitIsKept
  BY DEF CallsWithinLimit
<1> QED
  BY <1>1, LimitInit, LimitStep, PTL DEF Spec

-----------------------------------------------------------------------------
(* UNKNOWN.  What makes the search note an unresolved assignment stays a   *)
(* reason for it.                                                          *)

Unresolvable == \E p \in TotalPaths : Possible(p) /\ ~ Solves(p)

NotedIsReal == unresolved => Unresolvable

\* The path of a leaf is a total one.
LEMMA LeafPathIsTotal ==
    ASSUME TypeOK, problem \in Problem, Len(path) = Width
    PROVE  path \in TotalPaths
<1> DEFINE places == UNION {1 .. Len(problem.domains[i]) : i \in 1 .. Width}
<1>1. \A i \in 1 .. Width : path[i] \in 1 .. Len(problem.domains[i])
  BY PathTypes, ProblemTypes
<1>2. path \in [1 .. Width -> Nat \ {0}]
  BY DEF TypeOK
<1>3. \A i \in 1 .. Width : path[i] \in places
  BY <1>1
<1>4. path \in [1 .. Width -> places]
  BY <1>2, <1>3
<1>5. TotalPaths = {p \in [1 .. Width -> places] :
                      \A i \in 1 .. Width : p[i] <= Len(problem.domains[i])}
  BY DEF TotalPaths, TotalPathsOf, Width
<1>6. \A i \in 1 .. Width : path[i] <= Len(problem.domains[i])
  BY PathTypes
<1> HIDE DEF places
<1> QED
  BY <1>4, <1>5, <1>6

LEMMA NotedStep ==
    ASSUME IInv, NotedIsReal, [Next]_vars
    PROVE  NotedIsReal'
<1>1. problem' = problem
  BY DEF Next, vars, Prune, Raise, Leaf, Descend, NextValue, Return, Finish, Terminated
<1>2. Unresolvable' = Unresolvable
  BY <1>1 DEF Unresolvable, TotalPaths, Possible, Solves, Verdicts, Verdict, Assigned
<1>3. CASE Leaf /\ LeafUnresolved(path)
  <2>1. Consistent(path) /\ Len(path) = Width
    BY <1>3 DEF Leaf
  <2>2. path \in TotalPaths
    BY <2>1, LeafPathIsTotal DEF IInv
  <2>3. Verdicts(path) \subseteq {TRUE, Unknown} /\ Unknown \in Verdicts(path)
    BY <1>3, <2>1, <2>2, ConsistentVerdicts DEF IInv, LeafUnresolved
  <2>4. Possible(path) /\ ~ Solves(path)
    BY <2>3, VerdictsDiffer DEF Possible, Solves
  <2> QED
    BY <1>2, <2>2, <2>4 DEF NotedIsReal, Unresolvable
<1>4. CASE ~ (Leaf /\ LeafUnresolved(path))
  <2>1. unresolved' => unresolved
    BY <1>4 DEF Next, vars, Prune, Raise, Leaf, Descend, NextValue, Return, Finish, Terminated
  <2> QED
    BY <1>2, <2>1 DEF NotedIsReal
<1> QED
  BY <1>3, <1>4

\* `solve_finite` answers UNKNOWN only beyond its node limit, or when some assignment
\* within the domains leaves a constraint without a value and none False.
THEOREM UnknownForced == Spec => []UnknownIsForced
<1>1. Init => NotedIsReal
  BY DEF Init, NotedIsReal
<1>2. IInv /\ NotedIsReal /\ [Next]_vars => NotedIsReal'
  BY NotedStep
<1>3. CallsWithinLimit /\ NotedIsReal => UnknownIsForced
  <2> SUFFICES ASSUME CallsWithinLimit, NotedIsReal, Status = "unknown", ~ Unresolvable
               PROVE  explored = problem.limit + 1
    BY DEF UnknownIsForced, Unresolvable
  <2>1. explored > problem.limit
    BY DEF NotedIsReal, Status, Exceeded
  <2> QED
    BY <2>1, ProblemTypes DEF CallsWithinLimit, LimitIsKept
<1> QED
  BY <1>1, <1>2, <1>3, Invariance, LimitInit, LimitStep, PTL DEF Spec

\* What is known of a constraint is final, for every set of problems with well-typed
\* constraints: the evaluator may prune a partial assignment and skip a constraint that holds.
THEOREM KnownFinal == Spec => []KnownIsFinal
<1>1. IInv => KnownIsFinal
  <2> SUFFICES ASSUME IInv, NEW p \in TotalPaths, FirstOf(p, Len(path)) = path,
                      NEW i \in 1 .. Len(problem.constraints), Verdict(path, i) \in {TRUE, FALSE}
               PROVE  Verdict(p, i) \in {Verdict(path, i), Raised}
    BY Zenon DEF KnownIsFinal
  <2>1. problem \in Problem /\ p \in TotalPathsOf(problem) /\ Len(path) \in 0 .. Len(problem.domains)
    BY PathTypes, ProblemTypes DEF IInv, TotalPaths, Width
  <2>2. Evaluated(problem, problem.constraints[i], ValuesOf(problem, FirstOf(p, Len(path)))) = Verdict(path, i)
    BY DEF Verdict, Assigned
  <2> QED
    BY <2>1, <2>2, VerdictsAreFinal DEF Verdict, Assigned
<1> QED
  BY <1>1, Invariance, PTL

-----------------------------------------------------------------------------
(* Rules bound to events. *)

\* Expressions whose nodes stand for the same leaves and operators have the same values.
LEMMA SameNodes ==
    ASSUME NEW e, NEW events, NEW f, NEW others, NEW assignment, NEW n \in Nat, Placed(e, events, n),
           \A j \in 1 .. n : Expr!Held(e[j], events) = Expr!Held(f[j], others)
    PROVE  \A i \in 1 .. n : Expr!ValueAt(e, i, events, assignment) = Expr!ValueAt(f, i, others, assignment)
<1> SUFFICES ASSUME NEW i \in 1 .. n
             PROVE  Expr!ValueAt(e, i, events, assignment) = Expr!ValueAt(f, i, others, assignment)
  OBVIOUS
<1>1. 1 .. i \subseteq 1 .. n /\ i \in 1 .. i /\ i \in Nat /\ i \in 0 .. i
  OBVIOUS
<1>2. Placed(e, events, i) /\ Placed(f, others, i)
  BY <1>1 DEF Placed
<1>3. PICK v : Valuation(v, e, i, events, assignment) /\ Expr!ValueAt(e, i, events, assignment) = v[i]
  BY <1>1, <1>2, ValueAtValuation
<1>4. PICK w : Valuation(w, f, i, others, assignment) /\ Expr!ValueAt(f, i, others, assignment) = w[i]
  BY <1>1, <1>2, ValueAtValuation
<1> DEFINE W(node) == Expr!NodeValue(node, [k \in DOMAIN node.args |-> w[node.args[k]]], assignment)
<1>5. w = [j \in 1 .. i |-> W(Expr!Held(f[j], others))]
  BY <1>4, Zenon DEF Valuation
<1>6. w = [j \in 1 .. i |-> W(Expr!Held(e[j], events))]
  <2> HIDE DEF W
  <2>1. \A j \in 1 .. i : Expr!Held(e[j], events) = Expr!Held(f[j], others)
    BY <1>1
  <2>2. [j \in 1 .. i |-> W(Expr!Held(f[j], others))] = [j \in 1 .. i |-> W(Expr!Held(e[j], events))]
    BY <2>1
  <2> QED
    BY <1>5, <2>2, Zenon
<1>7. Valuation(w, e, i, events, assignment)
  BY <1>6, Zenon DEF Valuation
<1> QED
  BY <1>1, <1>2, <1>3, <1>4, <1>7, ValuationAgrees

\* Written over roles or bound to events, an expression has the same value.
LEMMA BoundValue ==
    ASSUME NEW e, Expr!WellFormed(e), NEW events, NEW binding, NEW assignment,
           \A j \in DOMAIN e : e[j].op = "field" =>
               /\ e[j].event \in DOMAIN binding
               /\ events[binding[e[j].event]][e[j].field].op \in Expr!Leaves,
           NEW roles, roles = [r \in DOMAIN binding |-> events[binding[r]]]
    PROVE  Expr!Evaluate(Expr!Substituted(e, binding), events, assignment)
               = Expr!Evaluate(e, roles, assignment)
<1> DEFINE b == Expr!Substituted(e, binding)
<1>1. PICK n \in Nat : n = Len(e) /\ n \in 1 .. n /\ DOMAIN e = 1 .. n
  <2>1. Len(e) \in Nat \ {0} /\ DOMAIN e = 1 .. Len(e)
    BY DEF Expr!WellFormed
  <2>2. Len(e) \in 1 .. Len(e)
    BY <2>1
  <2> QED
    BY <2>1, <2>2, Zenon
<1>2. Len(b) = n
  <2>1. b \in Seq({b[i] : i \in 1 .. n}) /\ DOMAIN b = 1 .. n
    BY <1>1 DEF Expr!Substituted
  <2> QED
    BY <1>1, <2>1
<1>3. ASSUME NEW j \in 1 .. n PROVE Expr!Held(e[j], roles) = Expr!Held(b[j], events)
  <2>1. CASE e[j].op = "field"
    <3>1. b[j].op = "field" /\ b[j].field = e[j].field /\ b[j].event = binding[e[j].event]
      BY <1>1, <2>1 DEF Expr!Substituted, Expr!Renamed, Expr!EventField
    <3>2. Expr!Held(e[j], roles) = events[binding[e[j].event]][e[j].field]
      BY <1>1, <2>1 DEF Expr!Held
    <3>3. Expr!Held(b[j], events) = events[b[j].event][b[j].field]
      BY <3>1 DEF Expr!Held
    <3> QED
      BY <3>1, <3>2, <3>3
  <2>2. CASE e[j].op # "field"
    <3>1. b[j] = e[j]
      BY <1>1, <2>2 DEF Expr!Substituted
    <3> QED
      BY <2>2, <3>1 DEF Expr!Held
  <2> QED
    BY <2>1, <2>2
<1>4. Placed(e, roles, n)
  <2> SUFFICES ASSUME NEW j \in 1 .. n, NEW node, node = Expr!Held(e[j], roles), node.op \notin Expr!Leaves,
                      NEW k \in DOMAIN node.args
               PROVE  node.args[k] \in 1 .. j - 1
    BY Zenon DEF Placed
  <2>1. e[j].op # "field"
    <3> SUFFICES ASSUME e[j].op = "field" PROVE FALSE
      OBVIOUS
    <3>1. node = events[binding[e[j].event]][e[j].field]
      BY <1>1 DEF Expr!Held
    <3> QED
      BY <1>1, <3>1
  <2>2. node = e[j] /\ e[j].args \in Seq(1 .. j - 1)
    BY <1>1, <2>1 DEF Expr!Held, Expr!WellFormed
  <2> QED
    BY <2>2
<1> HIDE DEF b
<1>5. Expr!ValueAt(e, n, roles, assignment) = Expr!ValueAt(b, n, events, assignment)
  BY <1>1, <1>3, <1>4, SameNodes
<1>6. Expr!Evaluate(e, roles, assignment) = Expr!Evaluate(b, events, assignment)
  BY <1>1, <1>2, <1>5 DEF Expr!Evaluate
<1> QED
  BY <1>6 DEF b

\* Whatever is assigned already, a rule says of the events what it says of its roles, for
\* every expression and every binding of its roles, also one that permutes names of events.
THEOREM BindingSound == Spec => []BindingKeepsMeaning
<1>1. IInv => BindingKeepsMeaning
  <2> SUFFICES ASSUME IInv, NEW i \in DOMAIN problem.rules
               PROVE  LET rule == problem.rules[i]
                          events == [r \in DOMAIN rule.binding |-> problem.events[rule.binding[r]]]
                      IN  Evaluated(problem, Bound(rule), Assigned(path))
                              = Expr!Evaluate(rule.written, events, Assignment(problem, Assigned(path)))
    BY Zenon DEF BindingKeepsMeaning
  <2> DEFINE e == problem.rules[i].written
             binding == problem.rules[i].binding
             events == [r \in DOMAIN binding |-> problem.events[binding[r]]]
             bound == Assignment(problem, Assigned(path))
  <2>1. /\ Expr!WellFormed(e)
        /\ \A j \in DOMAIN e : e[j].op = "field" =>
              /\ e[j].event \in DOMAIN binding
              /\ problem.events[binding[e[j].event]][e[j].field].op \in Expr!Leaves
    BY RuleAssumption, Zenon DEF IInv
  <2>2. Expr!Evaluate(Expr!Substituted(e, binding), problem.events, bound) = Expr!Evaluate(e, events, bound)
    <3>1. events = [r \in DOMAIN binding |-> problem.events[binding[r]]]
      OBVIOUS
    <3> HIDE DEF e, binding, events, bound
    <3> QED
      BY <2>1, <3>1, BoundValue
  <2> QED
    BY <2>2, Zenon DEF Evaluated, Bound
<1> QED
  BY <1>1, Invariance, PTL

-----------------------------------------------------------------------------
(* What is printed for Z3: by induction over the nodes, the printed term   *)
(* has the number of the value that the evaluator gives to the node.       *)

Encoded(x, sort, recorded) ==
    /\ HasSort(x, sort) /\ x \notin Verdictless
    /\ Expr!Coded(sort) => x \in Expr!CodedValues(recorded, sort)

\* The values of a sort are finitely many and have different places.
Numbered(recorded) ==
    \A sort : Expr!Coded(sort) =>
        /\ IsFiniteSet(Expr!CodedValues(recorded, sort))
        /\ \A x, y \in Expr!CodedValues(recorded, sort) :
              Place[x] \in Int /\ (Place[x] = Place[y] => x = y)

LEMMA NumbersDiffer ==
    ASSUME NEW S, IsFiniteSet(S), \A x, y \in S : Place[x] \in Int /\ (Place[x] = Place[y] => x = y),
           NEW x \in S, NEW y \in S, Place[x] < Place[y]
    PROVE  Cardinality({v \in S : Place[v] < Place[x]}) # Cardinality({v \in S : Place[v] < Place[y]})
<1> DEFINE X == {v \in S : Place[v] < Place[x]}
           Y == {v \in S : Place[v] < Place[y]}
<1>1. X \subseteq Y /\ x \in Y /\ x \notin X
  OBVIOUS
<1>2. IsFiniteSet(Y)
  BY FS_Subset
<1> HIDE DEF X, Y
<1>3. X # Y
  BY <1>1
<1>4. Cardinality(X) # Cardinality(Y)
  BY <1>1, <1>2, <1>3, FS_Subset
<1> QED
  BY <1>4 DEF X, Y

LEMMA SameCardinality == \A S : Expr!Cardinality(S) = Cardinality(S)
BY Zenon DEF Expr!Cardinality, Cardinality

LEMMA AtomUncoded ==
    ASSUME NEW x, NEW sort, NEW recorded, Encoded(x, sort, recorded), ~ Expr!Coded(sort)
    PROVE  Expr!Atom(recorded, sort, x) = x /\ x \in BOOLEAN \cup Int
BY DEF Expr!Atom, Encoded, HasSort, Expr!Coded, Verdictless

LEMMA AtomCoded ==
    ASSUME NEW x, NEW sort, NEW recorded, Encoded(x, sort, recorded), Expr!Coded(sort), Numbered(recorded)
    PROVE  /\ Expr!Atom(recorded, sort, x)
                  = Cardinality({v \in Expr!CodedValues(recorded, sort) : Place[v] < Place[x]})
           /\ Expr!Atom(recorded, sort, x) \in Nat
<1> DEFINE S == Expr!CodedValues(recorded, sort)
           below == {v \in S : Place[v] < Place[x]}
<1>1. Expr!Atom(recorded, sort, x) = Cardinality(below)
  BY SameCardinality DEF Expr!Atom, Expr!Code, Encoded
<1>2. IsFiniteSet(S)
  BY DEF Numbered
<1> HIDE DEF S
<1>3. IsFiniteSet(below)
  BY <1>2, FS_Subset
<1>4. Cardinality(below) \in Nat
  BY <1>3, FS_CardinalityType
<1> QED
  BY <1>1, <1>4 DEF S

\* The atoms of a sort are equal exactly when the values are.
LEMMA AtomFaithful ==
    ASSUME NEW sort, NEW recorded, Numbered(recorded),
           NEW x, Encoded(x, sort, recorded), NEW y, Encoded(y, sort, recorded)
    PROVE  Expr!Atom(recorded, sort, x) = Expr!Atom(recorded, sort, y) <=> x = y
<1>1. CASE ~ Expr!Coded(sort)
  BY <1>1, AtomUncoded
<1>2. CASE Expr!Coded(sort)
  <2> DEFINE S == Expr!CodedValues(recorded, sort)
             Number(v) == Cardinality({u \in S : Place[u] < Place[v]})
  <2>1. Expr!Atom(recorded, sort, x) = Number(x) /\ Expr!Atom(recorded, sort, y) = Number(y)
    BY <1>2, AtomCoded
  <2>2. x \in S /\ y \in S
    BY <1>2 DEF Encoded
  <2>3. IsFiniteSet(S) /\ \A a, b \in S : Place[a] \in Int /\ (Place[a] = Place[b] => a = b)
    BY <1>2 DEF Numbered
  <2> HIDE DEF S
  <2>4. Place[x] < Place[y] => Number(x) # Number(y)
    BY <2>2, <2>3, NumbersDiffer
  <2>5. Place[y] < Place[x] => Number(x) # Number(y)
    BY <2>2, <2>3, NumbersDiffer
  <2>6. x = y \/ Place[x] < Place[y] \/ Place[y] < Place[x]
    BY <2>2, <2>3
  <2> HIDE DEF Number
  <2> QED
    BY <2>1, <2>4, <2>5, <2>6
<1> QED
  BY <1>1, <1>2

LEMMA AtomDefined ==
    ASSUME NEW x, NEW sort, NEW recorded, Encoded(x, sort, recorded), Numbered(recorded)
    PROVE  Expr!Atom(recorded, sort, x) \notin Verdictless
<1>1. Expr!Atom(recorded, sort, x) \in BOOLEAN \cup Int
  <2>1. CASE Expr!Coded(sort)
    <3>1. Expr!Atom(recorded, sort, x) \in Nat
      BY <2>1, AtomCoded
    <3> QED
      BY <3>1
  <2> QED
    BY <2>1, AtomUncoded
<1> QED
  BY <1>1, ValueAssumption

LEMMA BooleanEncoded ==
    ASSUME NEW x \in BOOLEAN, NEW recorded
    PROVE  Encoded(x, Expr!BoolSort, recorded) /\ Expr!Atom(recorded, Expr!BoolSort, x) = x
<1>1. x \notin Verdictless
  BY ValueAssumption
<1>2. ~ Expr!Coded(Expr!BoolSort) /\ HasSort(x, Expr!BoolSort)
  BY DEF Expr!Coded, Expr!BoolSort, HasSort
<1> QED
  BY <1>1, <1>2 DEF Encoded, Expr!Atom

LEMMA NumberEncoded ==
    ASSUME NEW x \in Int, NEW sort, Expr!Numeric(sort), NEW recorded
    PROVE  Encoded(x, sort, recorded) /\ Expr!Atom(recorded, sort, x) = x
<1>1. x \notin Verdictless
  BY ValueAssumption
<1>2. ~ Expr!Coded(sort) /\ HasSort(x, sort)
  BY DEF Expr!Coded, Expr!Numeric, HasSort
<1> QED
  BY <1>1, <1>2 DEF Encoded, Expr!Atom

\* Without unknown or raising operands, a node is a choice or an operator on them.
LEMMA NodeDefined ==
    ASSUME NEW op \in Expr!Operators, NEW v, {Unknown, Raised, None} \cap Expr!Values(v) = {}, op # "ite"
    PROVE  /\ op = "and" => Expr!Node(op, v) = Expr!Conjunction(v)
           /\ op = "or" => Expr!Node(op, v) = Expr!Disjunction(v)
           /\ op = "implies" => Expr!Node(op, v) = Expr!Implication(v)
           /\ op = "distinct" => Expr!Node(op, v) = Expr!Distinct(v)
           /\ op \notin {"and", "or", "implies", "distinct"} => Expr!Node(op, v) = Expr!Strict(op, v)
           /\ Expr!Node(op, v) = Expr!Apply(op, v)
<1>1. Expr!Node(op, v) = Expr!Apply(op, v)
  BY DEF Expr!Node
<1>2. op \notin {"and", "or", "implies", "distinct"} => Expr!Apply(op, v) = Expr!Strict(op, v)
  <2> SUFFICES ASSUME op \notin {"and", "or", "implies", "distinct"}
               PROVE  Expr!Apply(op, v) = Expr!Strict(op, v)
    OBVIOUS
  <2> QED
    BY Zenon DEF Expr!Apply
<1>3. /\ op = "and" => Expr!Apply(op, v) = Expr!Conjunction(v)
      /\ op = "or" => Expr!Apply(op, v) = Expr!Disjunction(v)
      /\ op = "implies" => Expr!Apply(op, v) = Expr!Implication(v)
      /\ op = "distinct" => Expr!Apply(op, v) = Expr!Distinct(v)
  BY DEF Expr!Apply
<1> QED
  BY <1>1, <1>2, <1>3

\* Operands that have values of their sorts, and the atoms that are printed for them.
Printed(v, w, sorts, n, recorded) ==
    /\ FunctionOn(v, 1 .. n) /\ FunctionOn(w, 1 .. n) /\ FunctionOn(sorts, 1 .. n)
    /\ \A k \in 1 .. n : Encoded(v[k], sorts[k], recorded) /\ w[k] = Expr!Atom(recorded, sorts[k], v[k])

LEMMA PrintedDefined ==
    ASSUME NEW recorded, Numbered(recorded), NEW n \in Nat, NEW v, NEW w, NEW sorts,
           Printed(v, w, sorts, n, recorded)
    PROVE  /\ DOMAIN v = 1 .. n /\ DOMAIN w = 1 .. n /\ DOMAIN sorts = 1 .. n
           /\ {Unknown, Raised, None} \cap Expr!Values(v) = {}
           /\ Verdictless \cap Expr!Values(w) = {}
<1>1. DOMAIN v = 1 .. n /\ DOMAIN w = 1 .. n /\ DOMAIN sorts = 1 .. n
  BY DEF Printed, FunctionOn
<1>2. \A k \in 1 .. n : v[k] \notin Verdictless
  BY DEF Printed, Encoded
<1>3. \A k \in 1 .. n : w[k] \notin Verdictless
  BY AtomDefined DEF Printed
<1> QED
  BY <1>1, <1>2, <1>3 DEF Expr!Values, Verdictless

\* Where the sorts are not numbered, the atoms are the values.
LEMMA PrintedSame ==
    ASSUME NEW recorded, NEW n \in Nat, NEW v, NEW w, NEW sorts,
           Printed(v, w, sorts, n, recorded), \A k \in 1 .. n : ~ Expr!Coded(sorts[k])
    PROVE  v = w
<1>1. \A k \in 1 .. n : v[k] = w[k]
  BY AtomUncoded DEF Printed
<1> QED
  BY <1>1 DEF Printed, FunctionOn

\* Where they are the same, the atoms are equal when the values are.
LEMMA PrintedEqual ==
    ASSUME NEW recorded, Numbered(recorded), NEW n \in Nat, NEW v, NEW w, NEW sorts,
           Printed(v, w, sorts, n, recorded), Expr!Compatible(sorts)
    PROVE  \A i, j \in 1 .. n : v[i] = v[j] <=> w[i] = w[j]
<1> SUFFICES ASSUME NEW i \in 1 .. n, NEW j \in 1 .. n PROVE v[i] = v[j] <=> w[i] = w[j]
  OBVIOUS
<1>1. sorts[i] = sorts[j]
  BY PrintedDefined DEF Expr!Compatible
<1>2. /\ Encoded(v[i], sorts[i], recorded) /\ w[i] = Expr!Atom(recorded, sorts[i], v[i])
      /\ Encoded(v[j], sorts[i], recorded) /\ w[j] = Expr!Atom(recorded, sorts[i], v[j])
  BY <1>1 DEF Printed
<1> QED
  BY <1>2, AtomFaithful

\* The Boolean connectives, on operands that are Boolean.
LEMMA LogicalPrinted ==
    ASSUME NEW op \in Expr!Logical, NEW n \in Nat, Expr!Arity(op, n), NEW v, DOMAIN v = 1 .. n,
           \A k \in 1 .. n : v[k] \in BOOLEAN
    PROVE  Expr!Node(op, v) \in BOOLEAN /\ Expr!SmtApply(op, v) = Expr!Node(op, v)
<1>1. \A x \in Expr!Values(v) : x \in BOOLEAN
  BY DEF Expr!Values
<1>2. {Unknown, Raised, None} \cap Expr!Values(v) = {}
  BY <1>1, ValueAssumption DEF Verdictless
<1>3. op \in Expr!Operators /\ op # "ite"
  BY DEF Expr!Operators, Expr!Logical
<1>4. CASE op = "and"
  BY <1>2, <1>3, <1>4, NodeDefined DEF Expr!SmtApply, Expr!Conjunction
<1>5. CASE op = "or"
  BY <1>2, <1>3, <1>5, NodeDefined DEF Expr!SmtApply, Expr!Disjunction
<1>6. CASE op = "implies"
  <2>1. n = 2
    BY <1>6 DEF Expr!Arity, Expr!Leaves
  <2>2. v[1] \in BOOLEAN /\ v[2] \in BOOLEAN
    BY <2>1
  <2>3. Expr!Implication(v) \in BOOLEAN
    BY <2>2 DEF Expr!Implication
  <2> QED
    BY <1>2, <1>3, <1>6, <2>3, NodeDefined DEF Expr!SmtApply
<1>7. CASE op \in {"not", "xor"}
  <2>1. Expr!SmtApply(op, v) = Expr!Strict(op, v)
    BY <1>7 DEF Expr!SmtApply
  <2>2. 1 \in 1 .. n
    BY <1>7 DEF Expr!Arity, Expr!Leaves
  <2>3. Expr!Strict(op, v) \in BOOLEAN
    BY <1>7, <2>2 DEF Expr!Strict
  <2> QED
    BY <1>2, <1>3, <1>7, <2>1, <2>3, NodeDefined
<1> QED
  BY <1>4, <1>5, <1>6, <1>7 DEF Expr!Logical

\* Equality and distinctness, on values and on their numbers.
LEMMA EqualityPrinted ==
    ASSUME NEW op \in {"eq", "ne", "distinct", "same_value", "same_block"}, NEW n \in Nat, Expr!Arity(op, n),
           op = "same_block" => n = 2,
           NEW v, NEW w, FunctionOn(v, 1 .. n), FunctionOn(w, 1 .. n),
           {Unknown, Raised, None} \cap Expr!Values(v) = {},
           {Unknown, Raised, None} \cap Expr!Values(w) = {},
           \A i, j \in 1 .. n : v[i] = v[j] <=> w[i] = w[j]
    PROVE  Expr!Node(op, v) \in BOOLEAN /\ Expr!SmtApply(op, w) = Expr!Node(op, v)
<1>1. DOMAIN v = 1 .. n /\ DOMAIN w = 1 .. n
  BY DEF FunctionOn
<1>2. op \in Expr!Operators /\ op # "ite"
  BY DEF Expr!Operators, Expr!Equality, Expr!Functions
<1>3. CASE op = "distinct"
  <2>1. Expr!Node(op, v) = Expr!Distinct(v)
    BY <1>2, <1>3, NodeDefined
  <2>2. Expr!SmtApply(op, w) = Expr!Distinct(w)
    <3>1. Expr!SmtApply(op, w) = Expr!Apply(op, w)
      BY <1>3 DEF Expr!SmtApply
    <3>2. Expr!Node(op, w) = Expr!Apply(op, w) /\ Expr!Node(op, w) = Expr!Distinct(w)
      BY <1>2, <1>3, NodeDefined
    <3> QED
      BY <3>1, <3>2
  <2>3. \A i \in 1 .. n : v[i] # Unknown /\ w[i] # Unknown
    BY <1>1 DEF Expr!Values
  <2>4. Expr!Distinct(v) = (IF \E i, j \in 1 .. n : i # j /\ v[i] = v[j] THEN FALSE ELSE TRUE)
    BY <1>1, <2>3 DEF Expr!Distinct
  <2>5. Expr!Distinct(w) = (IF \E i, j \in 1 .. n : i # j /\ w[i] = w[j] THEN FALSE ELSE TRUE)
    BY <1>1, <2>3 DEF Expr!Distinct
  <2> QED
    BY <2>1, <2>2, <2>4, <2>5
<1>4. CASE op # "distinct"
  <2>1. Expr!Node(op, v) = Expr!Strict(op, v)
    BY <1>2, <1>4, NodeDefined
  <2>2. CASE op \in {"eq", "ne"}
    <3>1. n = 2
      BY <2>2 DEF Expr!Arity, Expr!Leaves
    <3>2. 1 \in 1 .. n /\ 2 \in 1 .. n
      BY <3>1
    <3>3. v[1] = v[2] <=> w[1] = w[2]
      BY <3>2
    <3>4. Expr!SmtApply(op, w) = Expr!Strict(op, w)
      BY <2>2 DEF Expr!SmtApply
    <3> QED
      BY <2>1, <2>2, <3>3, <3>4 DEF Expr!Strict
  <2>3. CASE op = "same_block"
    <3>1. 1 \in 1 .. n /\ 2 \in 1 .. n
      BY <2>3
    <3>2. v[1] = v[2] <=> w[1] = w[2]
      BY <3>1
    <3>3. Expr!SmtApply(op, w) = (w[1] = w[2])
      BY <2>3 DEF Expr!SmtApply
    <3>4. Expr!Strict(op, v) = Expr!SameBlock(v)
      BY <2>3 DEF Expr!Strict
    <3>5. Len(v) = 2
      <4>1. v \in Seq({v[i] : i \in 1 .. n})
        BY <1>1 DEF FunctionOn
      <4> QED
        BY <1>1, <2>3, <4>1
    <3>6. Expr!SameBlock(v) = (v[1] = v[2])
      BY <3>5 DEF Expr!SameBlock
    <3> QED
      BY <2>1, <3>2, <3>3, <3>4, <3>6
  <2>4. CASE op = "same_value"
    <3>1. Expr!Strict(op, v) = Expr!AllEqual(v) /\ Expr!SmtApply(op, w) = Expr!AllEqual(w)
      BY <2>4 DEF Expr!Strict, Expr!SmtApply
    <3>2. \A i \in 1 .. n : 1 \in 1 .. n
      OBVIOUS
    <3>3. Expr!AllEqual(v) = Expr!AllEqual(w) /\ Expr!AllEqual(v) \in BOOLEAN
      BY <1>1, <3>2 DEF Expr!AllEqual
    <3> QED
      BY <2>1, <3>1, <3>3
  <2> QED
    BY <1>4, <2>2, <2>3, <2>4
<1> QED
  BY <1>3, <1>4

\* Comparisons and mask operators, on numbers.
LEMMA ComparisonPrinted ==
    ASSUME NEW op \in Expr!Ordering \cup {"mask_overlap", "mask_covers"}, NEW v,
           {Unknown, Raised, None} \cap Expr!Values(v) = {}, v[1] \in Int, v[2] \in Int
    PROVE  Expr!Node(op, v) \in BOOLEAN /\ Expr!SmtApply(op, v) = Expr!Node(op, v)
<1>1. op \in Expr!Operators /\ op # "ite"
  BY DEF Expr!Operators, Expr!Ordering, Expr!Functions
<1>2. Expr!Node(op, v) = Expr!Strict(op, v)
  BY <1>1, NodeDefined DEF Expr!Ordering
<1>3. Expr!SmtApply(op, v) = Expr!Strict(op, v)
  BY DEF Expr!SmtApply, Expr!Ordering
<1>4. Expr!Strict(op, v) \in BOOLEAN
  <2>1. CASE op \in Expr!Ordering
    <3>1. PICK a \in Int, b \in Int : a = v[1] /\ b = v[2]
      OBVIOUS
    <3>2. (a < b) \in BOOLEAN /\ (a <= b) \in BOOLEAN /\ (a > b) \in BOOLEAN /\ (a >= b) \in BOOLEAN
      OBVIOUS
    <3>3. Expr!Strict(op, v) \in {a < b, a <= b, a > b, a >= b}
      BY <2>1, <3>1, Zenon DEF Expr!Strict, Expr!Ordering
    <3> QED
      BY <3>2, <3>3
  <2>2. CASE op \in {"mask_overlap", "mask_covers"}
    BY <2>2 DEF Expr!Strict
  <2> QED
    BY <2>1, <2>2
<1> QED
  BY <1>2, <1>3, <1>4

\* Arithmetic, by positive divisors.
LEMMA ArithmeticPrinted ==
    ASSUME NEW op \in Expr!Arithmetic \cup {"neg"}, NEW v,
           {Unknown, Raised, None} \cap Expr!Values(v) = {}, v[1] \in Int, op # "neg" => v[2] \in Int,
           op \in {"div", "mod"} => v[2] \in Nat \ {0}
    PROVE  Expr!Node(op, v) \in Int /\ Expr!SmtApply(op, v) = Expr!Node(op, v)
<1>1. op \in Expr!Operators /\ op # "ite"
  BY DEF Expr!Operators, Expr!Arithmetic
<1>2. Expr!Node(op, v) = Expr!Strict(op, v)
  BY <1>1, NodeDefined DEF Expr!Arithmetic
<1>3. CASE op \in {"neg", "add", "sub", "mul"}
  <2>1. Expr!SmtApply(op, v) = Expr!Strict(op, v)
    BY <1>3 DEF Expr!SmtApply
  <2>2. Expr!Strict(op, v) \in Int
    BY <1>3 DEF Expr!Strict
  <2> QED
    BY <1>2, <2>1, <2>2
<1>4. CASE op \in {"div", "mod"}
  <2>1. PICK a \in Int, b \in Nat \ {0} : a = v[1] /\ b = v[2]
    BY <1>4
  <2>2. b > 0 /\ b # 0
    OBVIOUS
  <2>3. Expr!SmtDivide(a, b) = Expr!FloorDivide(a, b) /\ Expr!FloorDivide(a, b) = a \div b
    BY <2>2 DEF Expr!SmtDivide, Expr!FloorDivide
  <2>4. Expr!FloorDivide(a, b) \in Int /\ Expr!Modulo(a, b) \in Int
    BY <2>2, FloorDivideInt
  <2>5. CASE op = "div"
    <3>1. Expr!Strict(op, v) = Expr!FloorDivide(a, b)
      BY <2>1, <2>2, <2>5 DEF Expr!Strict
    <3>2. Expr!SmtApply(op, v) = Expr!SmtDivide(a, b)
      BY <2>1, <2>2, <2>5 DEF Expr!SmtApply
    <3> QED
      BY <1>2, <2>3, <2>4, <3>1, <3>2
  <2>6. CASE op = "mod"
    <3>1. Expr!Strict(op, v) = Expr!Modulo(a, b)
      BY <2>1, <2>2, <2>6 DEF Expr!Strict
    <3>2. Expr!SmtApply(op, v) = a - b * Expr!SmtDivide(a, b)
      BY <2>1, <2>2, <2>6 DEF Expr!SmtApply
    <3> QED
      BY <1>2, <2>3, <2>4, <3>1, <3>2 DEF Expr!Modulo
  <2> QED
    BY <1>4, <2>5, <2>6
<1> QED
  BY <1>3, <1>4 DEF Expr!Arithmetic

\* A node that both backends give a meaning has a value of its sort, and is printed as its atom.
LEMMA NodePrinted ==
    ASSUME NEW recorded, Numbered(recorded), NEW op \in Expr!Operators, NEW n \in Nat, Expr!Arity(op, n),
           NEW v, NEW w, NEW sorts, Printed(v, w, sorts, n, recorded), Expr!TypedHere(op, sorts),
           NEW sort, sort = Expr!SortOf(op, sorts, sort), op \in Expr!Functions => sort = Expr!BoolSort,
           ~ Expr!IllSorted(op, sorts),
           op \in {"div", "mod"} => v[2] \in Nat \ {0},
           op \in {"same_value", "same_block"} => Expr!Compatible(sorts),
           op = "same_block" => n = 2
    PROVE  /\ Encoded(Expr!Node(op, v), sort, recorded)
           /\ Expr!SmtNode(op, sorts, w) = Expr!Atom(recorded, sort, Expr!Node(op, v))
<1>1. /\ DOMAIN v = 1 .. n /\ DOMAIN w = 1 .. n /\ DOMAIN sorts = 1 .. n
      /\ {Unknown, Raised, None} \cap Expr!Values(v) = {}
      /\ Verdictless \cap Expr!Values(w) = {}
  BY PrintedDefined
<1>2. \A k \in 1 .. n : Encoded(v[k], sorts[k], recorded) /\ w[k] = Expr!Atom(recorded, sorts[k], v[k])
  BY DEF Printed
<1>3. Expr!SmtNode(op, sorts, w) = Expr!SmtApply(op, w)
  BY <1>1 DEF Expr!SmtNode, Verdictless
\* Where the operands have numeric sorts, they are printed as they are.
<1>4. ASSUME Expr!Compatible(sorts), Expr!Numeric(sorts[1]), n \in {1, 2}
      PROVE  v = w /\ \A k \in 1 .. n : v[k] \in Int
  <2>1. 1 \in 1 .. n
    BY <1>4
  <2>2. \A k \in 1 .. n : sorts[k] = sorts[1]
    BY <1>1, <1>4 DEF Expr!Compatible
  <2>3. \A k \in 1 .. n : ~ Expr!Coded(sorts[k]) /\ sorts[k].kind \in {"int", "bv"}
    BY <1>4, <2>2 DEF Expr!Numeric, Expr!Coded
  <2>4. v = w
    BY <2>3, PrintedSame
  <2> QED
    BY <1>2, <2>3, <2>4 DEF Encoded, HasSort, Verdictless
<1>5. CASE op \in Expr!Logical
  <2>1. \A k \in 1 .. n : sorts[k] = Expr!BoolSort
    BY <1>1, <1>5, LogicalOperands DEF Expr!AllBool
  <2>2. \A k \in 1 .. n : ~ Expr!Coded(sorts[k]) /\ v[k] \in BOOLEAN
    BY <1>2, <2>1 DEF Expr!BoolSort, Expr!Coded, Encoded, HasSort
  <2>3. v = w
    BY <2>2, PrintedSame
  <2>4. sort = Expr!BoolSort
    BY <1>5 DEF Expr!SortOf, Expr!Logical, Expr!Arithmetic, Expr!Leaves, Expr!Functions
  <2>5. Expr!Node(op, v) \in BOOLEAN /\ Expr!SmtApply(op, v) = Expr!Node(op, v)
    BY <1>1, <1>5, <2>2, LogicalPrinted
  <2> QED
    BY <1>3, <2>3, <2>4, <2>5, BooleanEncoded
<1>6. CASE op \in {"eq", "ne", "distinct", "same_value", "same_block"}
  <2>1. Expr!Compatible(sorts)
    BY <1>6 DEF Expr!TypedHere, Expr!Compatible, Expr!Logical, Expr!Equality, Expr!Ordering, Expr!Arithmetic
  <2>2. \A i, j \in 1 .. n : v[i] = v[j] <=> w[i] = w[j]
    BY <2>1, PrintedEqual
  <2>3. sort = Expr!BoolSort
    BY <1>6 DEF Expr!SortOf, Expr!Arithmetic, Expr!Leaves, Expr!Functions
  <2>4. Expr!Node(op, v) \in BOOLEAN /\ Expr!SmtApply(op, w) = Expr!Node(op, v)
    <3>1. {Unknown, Raised, None} \cap Expr!Values(w) = {}
      BY <1>1 DEF Verdictless
    <3> QED
      BY <1>1, <1>6, <2>2, <3>1, EqualityPrinted DEF Printed
  <2> QED
    BY <1>3, <2>3, <2>4, BooleanEncoded
<1>7. CASE op \in Expr!Ordering \cup {"mask_overlap", "mask_covers"}
  <2>1. Expr!Compatible(sorts) /\ Expr!Numeric(sorts[1])
    <3>1. CASE op \in Expr!Ordering
      BY <3>1 DEF Expr!TypedHere, Expr!Logical, Expr!Equality, Expr!Ordering, Expr!Arithmetic
    <3>2. CASE op \in {"mask_overlap", "mask_covers"}
      <4>1. Expr!IsMask(sorts[1]) /\ Expr!Compatible(sorts)
        BY <3>2 DEF Expr!IllSorted
      <4> QED
        BY <4>1 DEF Expr!IsMask, Expr!Numeric
    <3> QED
      BY <1>7, <3>1, <3>2
  <2>2. n = 2
    BY <1>7 DEF Expr!Arity, Expr!Leaves, Expr!Ordering
  <2>3. v = w /\ v[1] \in Int /\ v[2] \in Int
    <3>1. 1 \in 1 .. n /\ 2 \in 1 .. n
      BY <2>2
    <3> QED
      BY <1>4, <2>1, <2>2, <3>1
  <2>4. sort = Expr!BoolSort
    BY <1>7 DEF Expr!SortOf, Expr!Ordering, Expr!Arithmetic, Expr!Leaves, Expr!Functions
  <2>5. Expr!Node(op, v) \in BOOLEAN /\ Expr!SmtApply(op, v) = Expr!Node(op, v)
    BY <1>1, <1>7, <2>3, ComparisonPrinted
  <2> QED
    BY <1>3, <2>3, <2>4, <2>5, BooleanEncoded
<1>8. CASE op \in Expr!Arithmetic \cup {"neg"}
  <2>1. Expr!Compatible(sorts) /\ Expr!Numeric(sorts[1])
    BY <1>8 DEF Expr!TypedHere, Expr!Logical, Expr!Equality, Expr!Ordering, Expr!Arithmetic
  <2>2. n = (IF op = "neg" THEN 1 ELSE 2)
    BY <1>8 DEF Expr!Arity, Expr!Leaves, Expr!Arithmetic
  <2>3. v = w /\ v[1] \in Int /\ (op # "neg" => v[2] \in Int)
    <3>1. 1 \in 1 .. n /\ (op # "neg" => 2 \in 1 .. n) /\ n \in {1, 2}
      BY <2>2
    <3> QED
      BY <1>4, <2>1, <3>1
  <2>4. sort = sorts[1]
    BY <1>8 DEF Expr!SortOf, Expr!Arithmetic, Expr!Leaves, Expr!Functions
  <2>5. Expr!Node(op, v) \in Int /\ Expr!SmtApply(op, v) = Expr!Node(op, v)
    BY <1>1, <1>8, <2>3, ArithmeticPrinted
  <2> QED
    BY <1>3, <2>1, <2>3, <2>4, <2>5, NumberEncoded
<1>9. CASE op = "ite"
  <2>1. n = 3
    BY <1>9 DEF Expr!Arity, Expr!Leaves
  <2>2. sorts[1] = Expr!BoolSort /\ sorts[2] = sorts[3] /\ sort = sorts[2]
    BY <1>9 DEF Expr!TypedHere, Expr!SortOf, Expr!Logical, Expr!Equality, Expr!Ordering, Expr!Arithmetic,
                Expr!Leaves, Expr!Functions
  <2>3. 1 \in 1 .. n /\ 2 \in 1 .. n /\ 3 \in 1 .. n
    BY <2>1
  <2>4. v[1] \in BOOLEAN /\ w[1] = v[1]
    <3>1. Encoded(v[1], Expr!BoolSort, recorded) /\ w[1] = Expr!Atom(recorded, Expr!BoolSort, v[1])
      BY <1>2, <2>2, <2>3
    <3>2. v[1] \in BOOLEAN
      BY <3>1 DEF Encoded, HasSort, Expr!BoolSort
    <3> QED
      BY <3>1, <3>2, BooleanEncoded
  <2>5. /\ Encoded(v[2], sort, recorded) /\ w[2] = Expr!Atom(recorded, sort, v[2])
        /\ Encoded(v[3], sort, recorded) /\ w[3] = Expr!Atom(recorded, sort, v[3])
    BY <1>2, <2>2, <2>3
  <2>6. v[1] = TRUE => Expr!Node(op, v) = v[2] /\ Expr!SmtApply(op, w) = w[2]
    <3> SUFFICES ASSUME v[1] = TRUE PROVE Expr!Node(op, v) = v[2] /\ Expr!SmtApply(op, w) = w[2]
      OBVIOUS
    <3>1. Expr!Choice(v) = v[2]
      BY VerdictsDiffer DEF Expr!Choice
    <3>2. Expr!SmtApply(op, w) = w[2]
      BY <1>9, <2>4 DEF Expr!SmtApply
    <3> QED
      BY <1>9, <3>1, <3>2 DEF Expr!Node
  <2>7. v[1] = FALSE => Expr!Node(op, v) = v[3] /\ Expr!SmtApply(op, w) = w[3]
    <3> SUFFICES ASSUME v[1] = FALSE PROVE Expr!Node(op, v) = v[3] /\ Expr!SmtApply(op, w) = w[3]
      OBVIOUS
    <3>1. Expr!Choice(v) = v[3]
      BY VerdictsDiffer DEF Expr!Choice
    <3>2. Expr!SmtApply(op, w) = w[3]
      BY <1>9, <2>4 DEF Expr!SmtApply
    <3> QED
      BY <1>9, <3>1, <3>2 DEF Expr!Node
  <2> QED
    BY <1>3, <2>4, <2>5, <2>6, <2>7
<1> QED
  BY <1>5, <1>6, <1>7, <1>8, <1>9 DEF Expr!Operators, Expr!Equality, Expr!Functions

\* The meanings of the printed nodes: again there is one function that gives every node the
\* meaning of its operator on those of its operands.
Denotation(m, e, n, events, recorded, assignment) ==
    m = [j \in 1 .. n |->
            LET node == Expr!Held(e[j], events)
            IN  Expr!SmtValue(e, node, [k \in DOMAIN node.args |-> m[node.args[k]]], recorded, assignment)]

LEMMA SmtValueLocal ==
    ASSUME NEW e, NEW node, NEW f, NEW g, NEW recorded, NEW assignment,
           node.op \in Expr!Leaves \/ \A k \in DOMAIN node.args : f[node.args[k]] = g[node.args[k]]
    PROVE  Expr!SmtValue(e, node, [k \in DOMAIN node.args |-> f[node.args[k]]], recorded, assignment)
               = Expr!SmtValue(e, node, [k \in DOMAIN node.args |-> g[node.args[k]]], recorded, assignment)
<1>1. CASE node.op \in Expr!Leaves
  BY <1>1 DEF Expr!SmtValue
<1>2. CASE \A k \in DOMAIN node.args : f[node.args[k]] = g[node.args[k]]
  <2>1. [k \in DOMAIN node.args |-> f[node.args[k]]] = [k \in DOMAIN node.args |-> g[node.args[k]]]
    BY <1>2
  <2> QED
    BY <2>1, Zenon
<1> QED
  BY <1>1, <1>2

LEMMA DenotationExists ==
    ASSUME NEW e, NEW events, NEW recorded, NEW assignment, NEW n \in Nat, Placed(e, events, n)
    PROVE  \E m : Denotation(m, e, n, events, recorded, assignment)
<1> DEFINE Bad == {k \in Nat : k <= n /\ \A m : ~ Denotation(m, e, k, events, recorded, assignment)}
<1> SUFFICES ASSUME Bad # {} PROVE FALSE
  OBVIOUS
<1>1. PICK k \in Bad : \A j \in Bad : k <= j
  <2>1. Bad \in SUBSET Nat
    OBVIOUS
  <2> HIDE DEF Bad
  <2> QED
    BY <2>1, LeastNatural
<1> DEFINE Args(j) == Expr!Held(e[j], events).args
           V(h, j) == Expr!SmtValue(e, Expr!Held(e[j], events), [i \in DOMAIN Args(j) |-> h[Args(j)[i]]],
                                    recorded, assignment)
<1>2. k # 0
  <2> SUFFICES ASSUME k = 0 PROVE FALSE
    OBVIOUS
  <2> DEFINE none == [j \in 1 .. 0 |-> 0]
  <2>1. none = [j \in 1 .. 0 |-> V(none, j)]
    OBVIOUS
  <2>2. Denotation(none, e, 0, events, recorded, assignment)
    BY <2>1, Zenon DEF Denotation
  <2> QED
    BY <1>1, <2>2
<1>3. k - 1 \in Nat /\ k - 1 \notin Bad /\ k - 1 <= n
  BY <1>1, <1>2
<1>4. PICK f : Denotation(f, e, k - 1, events, recorded, assignment)
  BY <1>3
<1> DEFINE g == [j \in 1 .. k |-> IF j = k THEN V(f, k) ELSE f[j]]
<1>5. \A j \in 1 .. k - 1 : g[j] = f[j] /\ f[j] = V(f, j)
  <2>1. ASSUME NEW j \in 1 .. k - 1 PROVE f[j] = V(f, j)
    BY <1>4, Zenon DEF Denotation
  <2>2. ASSUME NEW j \in 1 .. k - 1 PROVE g[j] = f[j]
    <3> HIDE DEF V
    <3> QED
      BY <1>1
  <2> QED
    BY <2>1, <2>2
<1>6. g[k] = V(f, k)
  BY <1>1, <1>2
<1>7. g = [j \in 1 .. k |-> g[j]]
  OBVIOUS
<1> HIDE DEF g
<1>8. ASSUME NEW j \in 1 .. k PROVE g[j] = V(g, j)
  <2>1. Expr!Held(e[j], events).op \in Expr!Leaves \/ \A i \in DOMAIN Args(j) : g[Args(j)[i]] = f[Args(j)[i]]
    <3>1. j \in 1 .. n
      BY <1>1
    <3>2. 1 .. j - 1 \subseteq 1 .. k - 1
      BY <1>1
    <3> QED
      BY <1>5, <3>1, <3>2 DEF Placed
  <2>2. V(g, j) = V(f, j)
    BY <2>1, SmtValueLocal
  <2>3. g[j] = V(f, j)
    <3> HIDE DEF V
    <3>1. j = k \/ j \in 1 .. k - 1
      BY <1>1
    <3> QED
      BY <1>5, <1>6, <3>1
  <2> QED
    BY <2>2, <2>3
<1>9. g = [j \in 1 .. k |-> V(g, j)]
  <2> HIDE DEF V
  <2>1. [j \in 1 .. k |-> g[j]] = [j \in 1 .. k |-> V(g, j)]
    BY <1>8
  <2> QED
    BY <1>7, <2>1
<1>10. Denotation(g, e, k, events, recorded, assignment)
  BY <1>9, Zenon DEF Denotation
<1> QED
  BY <1>1, <1>10

LEMMA MeaningDenotes ==
    ASSUME NEW e, NEW events, NEW recorded, NEW assignment, Len(e) \in Nat, Placed(e, events, Len(e))
    PROVE  \E m : /\ Denotation(m, e, Len(e), events, recorded, assignment)
                  /\ Expr!Meaning(e, events, recorded, assignment) = m[Len(e)]
<1> DEFINE chosen == CHOOSE m : Denotation(m, e, Len(e), events, recorded, assignment)
<1>1. Denotation(chosen, e, Len(e), events, recorded, assignment)
  BY DenotationExists
<1>2. Expr!Meaning(e, events, recorded, assignment) = chosen[Len(e)]
  BY DEF Expr!Meaning, Denotation
<1> QED
  BY <1>1, <1>2, Zenon

\* The leaves have values of their sorts, and are printed as their atoms; calls are predicates.
PrintedLeaves(e, events, recorded, assignment) ==
    \A i \in 1 .. Len(e) :
        LET node == Expr!Held(e[i], events)
            value == Expr!Leaf(node, assignment)
        IN  /\ node.op \in Expr!Leaves =>
                /\ Encoded(value, e[i].sort, recorded)
                /\ Expr!SmtLeaf(node, recorded, assignment) = Expr!Atom(recorded, e[i].sort, value)
            /\ node.op \in Expr!Functions => node.sort = Expr!BoolSort

\* What both backends give a meaning means the same in both.
LEMMA ValuePrinted ==
    ASSUME NEW e, NEW events, NEW assignment, Evaluable(e, events), DOMAIN e = 1 .. Len(e), Expr!Typed(e),
           NEW recorded, Numbered(recorded), PrintedLeaves(e, events, recorded, assignment),
           Portable(e, events, assignment),
           NEW m, Denotation(m, e, Len(e), events, recorded, assignment)
    PROVE  \A i \in 1 .. Len(e) :
              /\ Encoded(Expr!ValueAt(e, i, events, assignment), e[i].sort, recorded)
              /\ m[i] = Expr!Atom(recorded, e[i].sort, Expr!ValueAt(e, i, events, assignment))
<1>2. PICK n \in Nat : n = Len(e)
  BY EvaluableLength, Zenon
<1> DEFINE V(i) == Expr!ValueAt(e, i, events, assignment)
           Same(i) == Encoded(V(i), e[i].sort, recorded) /\ m[i] = Expr!Atom(recorded, e[i].sort, V(i))
           Bad == {i \in Nat : i \in 1 .. Len(e) /\ ~ Same(i)}
<1> SUFFICES ASSUME Bad # {} PROVE FALSE
  OBVIOUS
<1>1. PICK i \in Bad : \A j \in Bad : i <= j
  <2>1. Bad \in SUBSET Nat
    OBVIOUS
  <2> HIDE DEF Bad
  <2> QED
    BY <2>1, LeastNatural
<1>3. i \in 1 .. n
  BY <1>1, <1>2
<1> DEFINE node == Expr!Held(e[i], events)
           v == Operands(e, i, events, assignment)
           w == [k \in DOMAIN node.args |-> m[node.args[k]]]
<1>4. V(i) = Expr!NodeValue(node, v, assignment)
  <2>1. Placed(e, events, n)
    BY <1>2, EvaluablePlaced
  <2> QED
    BY <1>3, <2>1, ValueEquation
<1>5. m[i] = Expr!SmtValue(e, node, w, recorded, assignment)
  <2>1. i \in 1 .. Len(e)
    BY <1>2, <1>3
  <2> QED
    BY <2>1, Zenon DEF Denotation
<1>6. \A j \in 1 .. i - 1 : Same(j)
  <2> HIDE DEF Same
  <2> QED
    BY <1>1, <1>2, <1>3
<1>7. CASE node.op \in Expr!Leaves
  <2>1. V(i) = Expr!Leaf(node, assignment) /\ m[i] = Expr!SmtLeaf(node, recorded, assignment)
    BY <1>4, <1>5, <1>7 DEF Expr!NodeValue, Expr!SmtValue
  <2>2. Same(i)
    BY <1>2, <1>3, <1>7, <2>1, Zenon DEF PrintedLeaves
  <2> HIDE DEF Same
  <2> QED
    BY <1>1, <2>2
<1>8. CASE node.op \notin Expr!Leaves
  <2>1. /\ node = e[i] /\ node.op \in Expr!Operators /\ node.args \in Seq(1 .. i - 1)
        /\ Expr!Arity(node.op, Len(node.args))
    BY <1>2, <1>3, <1>8 DEF Evaluable
  <2> DEFINE sorts == Expr!Sorts(e, node)
  <2>2. PICK l \in Nat : l = Len(node.args) /\ DOMAIN node.args = 1 .. l
    BY <2>1
  <2>3. FunctionOn(v, 1 .. l) /\ FunctionOn(w, 1 .. l) /\ FunctionOn(sorts, 1 .. l)
    BY <2>2 DEF Operands, Expr!Sorts, FunctionOn
  <2>4. ASSUME NEW k \in 1 .. l
        PROVE  Encoded(v[k], sorts[k], recorded) /\ w[k] = Expr!Atom(recorded, sorts[k], v[k])
    <3>1. v[k] = V(node.args[k]) /\ w[k] = m[node.args[k]] /\ sorts[k] = e[node.args[k]].sort
      BY <2>2 DEF Operands, Expr!Sorts
    <3> HIDE DEF V, node, v, w, sorts
    <3>2. node.args[k] \in 1 .. i - 1
      BY <1>3, <2>1, <2>2
    <3> QED
      BY <1>6, <3>1, <3>2
  <2>5. Printed(v, w, sorts, l, recorded)
    <3> HIDE DEF v, w, sorts
    <3> QED
      BY <2>3, <2>4 DEF Printed
  <2>6. /\ Expr!TypedHere(node.op, sorts) /\ e[i].sort = Expr!SortOf(node.op, sorts, e[i].sort)
        /\ node.op \in Expr!Functions => e[i].sort = Expr!BoolSort
    BY <1>2, <1>3, <2>1, TypedNode DEF PrintedLeaves
  <2>7. /\ ~ Expr!IllSorted(node.op, sorts)
        /\ node.op \in {"div", "mod"} => V(node.args[2]) \in Nat \ {0}
        /\ node.op \in {"same_value", "same_block"} => Expr!Compatible(sorts)
        /\ node.op = "same_block" => l = 2
    BY <1>2, <1>3, <1>8, <2>2, Zenon DEF Portable
  <2>8. node.op \in {"div", "mod"} => v[2] = V(node.args[2])
    <3> SUFFICES ASSUME node.op \in {"div", "mod"} PROVE v[2] = V(node.args[2])
      OBVIOUS
    <3>1. l = 2
      BY <2>1, <2>2 DEF Expr!Arity, Expr!Leaves
    <3>2. 2 \in DOMAIN node.args
      BY <2>2, <3>1
    <3> QED
      BY <3>2 DEF Operands
  <2>9. V(i) = Expr!Node(node.op, v) /\ m[i] = Expr!SmtNode(node.op, sorts, w)
    BY <1>4, <1>5, <1>8, Zenon DEF Expr!NodeValue, Expr!SmtValue
  <2> DEFINE op == node.op  sort == e[i].sort
  <2>10. Same(i)
    <3>1. op \in Expr!Operators /\ Expr!Arity(op, l)
      BY <2>1, <2>2
    <3>2. Expr!TypedHere(op, sorts) /\ sort = Expr!SortOf(op, sorts, sort)
      BY <2>6
    <3>3. op \in Expr!Functions => sort = Expr!BoolSort
      BY <2>6
    <3>4. /\ ~ Expr!IllSorted(op, sorts)
          /\ op \in {"div", "mod"} => v[2] \in Nat \ {0}
          /\ op \in {"same_value", "same_block"} => Expr!Compatible(sorts)
          /\ op = "same_block" => l = 2
      BY <2>7, <2>8, Zenon
    <3>5. V(i) = Expr!Node(op, v) /\ m[i] = Expr!SmtNode(op, sorts, w)
      BY <2>9
    <3>6. /\ Encoded(Expr!Node(op, v), sort, recorded)
          /\ Expr!SmtNode(op, sorts, w) = Expr!Atom(recorded, sort, Expr!Node(op, v))
      <4> HIDE DEF V, v, w, sorts, op, sort
      <4> QED
        BY <2>5, <3>1, <3>2, <3>3, <3>4, NodePrinted
    <3> QED
      BY <3>5, <3>6, Zenon
  <2> HIDE DEF Same
  <2> QED
    BY <1>1, <2>10
<1> QED
  BY <1>7, <1>8

\* What the expressions of a problem hold.
Literals(pr) == UNION {Expr!LiteralNodes(e) : e \in RecordedIn(pr)}

LEMMA RecordedHolds ==
    ASSUME NEW pr
    PROVE  /\ RecordedIn(pr) = (Attributes(pr.events) \cup All(pr.constraints) \cup All(pr.effects))
                                    \cup GuardTerms(pr.guards)
           /\ \A sort : Expr!CodedValues(RecordedIn(pr), sort)
                            = {node.value : node \in {n \in Literals(pr) : n.sort = sort}}
<1>1. RecordedIn(pr) = (Attributes(pr.events) \cup All(pr.constraints) \cup All(pr.effects))
                           \cup GuardTerms(pr.guards)
  BY DEF RecordedIn, Expr!RecordedForCodes
<1>2. \A sort : Expr!CodedValues(RecordedIn(pr), sort)
                    = {node.value : node \in {n \in Literals(pr) : n.sort = sort}}
  BY Zenon DEF Expr!CodedValues, Expr!Observed, Literals
<1> QED
  BY <1>1, <1>2

\* The values that a problem mentions have numbers of their own.
LEMMA ProblemNumbered ==
    ASSUME NEW pr \in Problem
    PROVE  Numbered(RecordedIn(pr))
<1> SUFFICES ASSUME NEW sort, Expr!Coded(sort)
             PROVE  /\ IsFiniteSet(Expr!CodedValues(RecordedIn(pr), sort))
                    /\ \A x, y \in Expr!CodedValues(RecordedIn(pr), sort) :
                          Place[x] \in Int /\ (Place[x] = Place[y] => x = y)
  BY Zenon DEF Numbered
<1> DEFINE nodes == {n \in Literals(pr) : n.sort = sort}
           value == [n \in nodes |-> n.value]
<1>1. Expr!CodedValues(RecordedIn(pr), sort) = {n.value : n \in nodes}
  BY RecordedHolds
<1>2. /\ IsFiniteSet(Literals(pr))
      /\ \A m, n \in Literals(pr) : Expr!Coded(m.sort) /\ m.sort = n.sort =>
            /\ Place[m.value] \in Int
            /\ Place[m.value] = Place[n.value] => m.value = n.value
  BY CodeAssumption, RecordedHolds DEF Literals
<1>3. IsFiniteSet({n.value : n \in nodes})
  <2>1. IsFiniteSet(nodes)
    BY <1>2, FS_Subset
  <2> HIDE DEF nodes
  <2>2. value \in Surjection(nodes, {n.value : n \in nodes})
    BY DEF Surjection
  <2> QED
    BY <2>1, <2>2, FS_Surjection
<1>4. \A m, n \in nodes : Place[m.value] \in Int /\ (Place[m.value] = Place[n.value] => m.value = n.value)
  BY <1>2
<1> HIDE DEF nodes
<1> QED
  BY <1>1, <1>3, <1>4

\* The expressions among which a leaf of a constraint is found.
LEMMA LeafFound ==
    ASSUME NEW pr, NEW c \in All(pr.constraints), WellPosed(pr, c), NEW i \in DOMAIN c
    PROVE  \E e \in Attributes(pr.events) \cup All(pr.constraints) :
              Expr!Held(c[i], pr.events) \in {e[k] : k \in DOMAIN e}
<1> DEFINE node == Expr!Held(c[i], pr.events)
<1>1. CASE c[i].op = "field"
  <2>1. node = pr.events[c[i].event][c[i].field]
    BY <1>1 DEF Expr!Held
  <2>2. c[i].event \in DOMAIN pr.events /\ c[i].field \in DOMAIN pr.events[c[i].event]
    BY <1>1 DEF WellPosed
  <2>3. <<node>> \in Attributes(pr.events)
    BY <2>1, <2>2 DEF Attributes
  <2>4. node \in {<<node>>[k] : k \in DOMAIN <<node>>}
    OBVIOUS
  <2> QED
    BY <2>3, <2>4
<1>2. CASE c[i].op # "field"
  <2>1. node = c[i]
    BY <1>2 DEF Expr!Held
  <2>2. node \in {c[k] : k \in DOMAIN c}
    BY <2>1
  <2> QED
    BY <2>2
<1> QED
  BY <1>1, <1>2

\* Under a total assignment, the leaves of a constraint are printed as atoms of recorded values.
LEMMA ConstraintPrinted ==
    ASSUME NEW pr \in Problem, NEW x \in DOMAIN pr.constraints,
           NEW c, c = pr.constraints[x],
           NEW p \in TotalPathsOf(pr), NEW assignment, assignment = Assignment(pr, ValuesOf(pr, p)),
           Portable(c, pr.events, assignment)
    PROVE  PrintedLeaves(c, pr.events, RecordedIn(pr), assignment)
<1> DEFINE recorded == RecordedIn(pr)
           found == Attributes(pr.events) \cup All(pr.constraints) \cup All(pr.effects)
<1>1. WellPosed(pr, c) /\ DOMAIN c = 1 .. Len(c)
  <2>1. x \in 1 .. Len(pr.constraints)
    BY ExpressionAssumption
  <2> QED
    BY <2>1, ProblemShape DEF WellPosed, Expr!WellFormed
<1>2. DOMAIN p = 1 .. Len(pr.domains) /\ \A i \in 1 .. Len(pr.domains) : p[i] \in 1 .. Len(pr.domains[i])
  <2>1. \A i \in 1 .. Len(pr.domains) : 1 .. Len(pr.domains[i]) \subseteq Nat \ {0}
    BY ProblemAssumption
  <2>2. UNION {1 .. Len(pr.domains[i]) : i \in 1 .. Len(pr.domains)} \subseteq Nat \ {0}
    BY <2>1
  <2>3. \A i \in 1 .. Len(pr.domains) : Len(pr.domains[i]) \in Nat
    BY ProblemAssumption
  <2> QED
    BY <2>2, <2>3 DEF TotalPathsOf
<1>3. \A i \in DOMAIN pr.names :
        pr.names[i] \in DOMAIN assignment /\ assignment[pr.names[i]] = pr.domains[i][p[i]]
  <2> DEFINE values == ValuesOf(pr, p)
  <2>1. DOMAIN values = DOMAIN pr.names /\ \A i \in DOMAIN pr.names : values[i] = pr.domains[i][p[i]]
    BY <1>2, ProblemShape DEF ValuesOf
  <2>2. \A i, j \in DOMAIN values : pr.names[i] = pr.names[j] => i = j
    BY <2>1, ProblemShape
  <2>3. assignment = Assignment(pr, values)
    OBVIOUS
  <2> HIDE DEF values
  <2>4. /\ DOMAIN Assignment(pr, values) = {pr.names[i] : i \in DOMAIN values}
        /\ \A i \in DOMAIN values : Assignment(pr, values)[pr.names[i]] = values[i]
    BY <2>2, AssignmentAt, Zenon
  <2> QED
    BY <2>1, <2>3, <2>4
<1>4. ASSUME NEW sort, NEW value, Fits(sort, value) PROVE HasSort(value, sort) /\ value \notin Verdictless
  <2>1. sort.kind \in {"int", "bv"} => value \in Int
    BY <1>4 DEF Fits, Expr!Accepts
  <2> QED
    BY <1>4, <2>1 DEF Fits, Expr!Accepts, HasSort
<1>5. SoundLeaves(c, pr.events, assignment)
  <2>1. DOMAIN p \subseteq 1 .. Len(pr.domains) /\ \A i \in DOMAIN p : p[i] \in 1 .. Len(pr.domains[i])
    BY <1>2
  <2> QED
    BY <1>1, <2>1, ConstraintLeaves
<1>6. ASSUME NEW i \in 1 .. Len(c), NEW node, node = Expr!Held(c[i], pr.events), node.op \in Expr!Leaves,
             NEW sort, sort = c[i].sort
      PROVE  /\ Encoded(Expr!Leaf(node, assignment), sort, recorded)
             /\ Expr!SmtLeaf(node, recorded, assignment) = Expr!Atom(recorded, sort, Expr!Leaf(node, assignment))
  <2>1. c[i].op \in {"literal", "symbol", "field"}
    <3>1. c[i].op \in Expr!Operators \cup {"literal", "symbol", "field"}
      BY <1>1 DEF WellPosed, Expr!WellFormed
    <3>2. c[i].op \notin Expr!Operators
      <4> SUFFICES ASSUME c[i].op \in Expr!Operators PROVE FALSE
        OBVIOUS
      <4>1. node = c[i]
        BY <1>6 DEF Expr!Held, Expr!Operators, Expr!Logical, Expr!Equality, Expr!Ordering,
                    Expr!Arithmetic, Expr!Functions
      <4> QED
        BY <1>6, <4>1 DEF Expr!Leaves, Expr!Operators, Expr!Logical, Expr!Equality, Expr!Ordering,
                          Expr!Arithmetic, Expr!Functions
    <3> QED
      BY <3>1, <3>2
  <2>2. LeafFits(pr, node, sort)
    BY <1>1, <1>6, <2>1 DEF WellPosed
  <2>3. node.op \notin {"missing", "none"}
    BY <1>1, <1>6 DEF Portable
  <2>4. PICK e \in Attributes(pr.events) \cup All(pr.constraints) : node \in {e[k] : k \in DOMAIN e}
    <3>1. i \in DOMAIN c /\ WellPosed(pr, c) /\ c \in All(pr.constraints)
      BY <1>1 DEF All
    <3> QED
      BY <1>6, <3>1, LeafFound
  <2>5. e \in found /\ e \in recorded
    BY <2>4, RecordedHolds
  <2>6. CASE node.op = "literal"
    <3>1. node.sort = sort /\ Fits(sort, node.value)
      BY <2>2, <2>6 DEF LeafFits
    <3>2. Expr!Leaf(node, assignment) = node.value
      BY <2>6 DEF Expr!Leaf
    <3>3. Expr!SmtLeaf(node, recorded, assignment) = Expr!Atom(recorded, sort, node.value)
      BY <2>6, <3>1 DEF Expr!SmtLeaf
    <3>4. node \in Literals(pr)
      BY <2>4, <2>5, <2>6 DEF Literals, Expr!LiteralNodes
    <3>5. node.value \in Expr!CodedValues(recorded, sort)
      BY <3>1, <3>4, RecordedHolds
    <3> QED
      BY <1>4, <3>1, <3>2, <3>3, <3>5 DEF Encoded
  <2>7. CASE node.op = "symbol"
    <3>1. PICK m \in DOMAIN pr.names :
            pr.names[m] = node.name /\ \A place \in 1 .. Len(pr.domains[m]) : Fits(sort, pr.domains[m][place])
      BY <2>2, <2>7 DEF LeafFits
    <3>2. node.sort = sort
      BY <2>2, <2>7 DEF LeafFits
    <3> DEFINE value == pr.domains[m][p[m]]
    <3>3. p[m] \in 1 .. Len(pr.domains[m])
      BY <1>2, ProblemShape
    <3>4. assignment[node.name] = value /\ node.name \in DOMAIN assignment
      BY <1>3, <3>1
    <3>5. Expr!Leaf(node, assignment) = value
      BY <2>7, <3>4 DEF Expr!Leaf
    <3>6. Expr!SmtLeaf(node, recorded, assignment) = Expr!Atom(recorded, sort, value)
      BY <2>7, <3>2, <3>4 DEF Expr!SmtLeaf
    <3>7. ASSUME Expr!Coded(sort) PROVE value \in Expr!CodedValues(recorded, sort)
      <4>1. node \in Expr!SymbolNodes(e)
        BY <2>4, <2>7 DEF Expr!SymbolNodes
      <4>2. value \in Expr!Observed(found, sort)
        BY <2>5, <3>1, <3>2, <3>3, <3>7, <4>1, CodeAssumption
      <4>3. Expr!Observed(found, sort) \subseteq Expr!Observed(recorded, sort)
        BY RecordedHolds DEF Expr!Observed
      <4> QED
        BY <4>2, <4>3 DEF Expr!CodedValues
    <3>8. Fits(sort, value)
      BY <3>1, <3>3
    <3> HIDE DEF value
    <3> QED
      BY <1>4, <3>5, <3>6, <3>7, <3>8 DEF Encoded
  <2> QED
    BY <1>6, <2>3, <2>6, <2>7 DEF Expr!Leaves
<1> QED
  BY <1>5, <1>6, Zenon DEF PrintedLeaves, SoundLeaves

\* Both backends are given the same problem, for every set of well-posed problems whose
\* values have places of their own: under every total assignment, a constraint that is
\* portable has the same Boolean in Z3 and in the evaluator.
THEOREM EncodingSound == Spec => []EncodingAgrees
<1>1. IInv => EncodingAgrees
  <2> SUFFICES ASSUME IInv, NEW p \in TotalPathsOf(problem), NEW c \in All(problem.constraints),
                      NEW assignment, assignment = Assignment(problem, ValuesOf(problem, p)),
                      Portable(c, problem.events, assignment)
               PROVE  /\ Expr!Evaluate(c, problem.events, assignment) \in BOOLEAN
                      /\ Expr!Meaning(c, problem.events, RecordedIn(problem), assignment)
                              = Expr!Evaluate(c, problem.events, assignment)
    BY Zenon DEF EncodingAgrees, TotalPaths, Assigned
  <2> DEFINE recorded == RecordedIn(problem)
             value == Expr!Evaluate(c, problem.events, assignment)
  <2>1. problem \in Problem
    BY ProblemTypes DEF IInv
  <2>2. PICK x \in DOMAIN problem.constraints : c = problem.constraints[x]
    BY DEF All
  <2>3. x \in 1 .. Len(problem.constraints)
    BY <2>1, ExpressionAssumption
  <2>4. WellPosed(problem, c)
    BY <2>1, <2>2, <2>3, ProblemShape
  <2>5. /\ Evaluable(c, problem.events) /\ DOMAIN c = 1 .. Len(c) /\ Expr!Typed(c)
        /\ Len(c) \in Nat \ {0} /\ c[Len(c)].sort = Expr!BoolSort
    BY <2>4, WellPosedEvaluable DEF WellPosed, Expr!WellFormed
  <2>6. Numbered(recorded) /\ PrintedLeaves(c, problem.events, recorded, assignment)
    BY <2>1, <2>2, ProblemNumbered, ConstraintPrinted
  <2>7. PICK m : /\ Denotation(m, c, Len(c), problem.events, recorded, assignment)
                 /\ Expr!Meaning(c, problem.events, recorded, assignment) = m[Len(c)]
    BY <2>5, EvaluablePlaced, MeaningDenotes
  <2>8. Len(c) \in 1 .. Len(c)
    BY <2>5
  <2>9. Encoded(value, Expr!BoolSort, recorded) /\ m[Len(c)] = Expr!Atom(recorded, Expr!BoolSort, value)
    BY <2>5, <2>6, <2>7, <2>8, ValuePrinted DEF Expr!Evaluate
  <2>10. value \in BOOLEAN
    BY <2>9 DEF Encoded, HasSort, Expr!BoolSort
  <2> QED
    BY <2>7, <2>9, <2>10, BooleanEncoded
<1> QED
  BY <1>1, Invariance, PTL

-----------------------------------------------------------------------------
(* The Z3 backend.  Rejecting candidates is sound for completions whose   *)
(* slots are optional: a clause then excludes exactly the candidates that  *)
(* carry the events of the rejected one.  (With a required slot it is not: *)
(* see the run candidate_required.)                                        *)

\* Every slot of every problem is optional, as those of spec.slots are unless they
\* say otherwise.
AllOptional == \A p \in Query : p.required = {}

CandidateTypeInv == query \in Query /\ CandidateTypeOK

\* Type correctness: the loop stays within its limit, and its clauses name symbols
\* of the problem (`solve_z3`).
THEOREM CandidatesTypeCorrect == CandidateSpec => []CandidateTypeOK
<1>1. CandidateInit => CandidateTypeInv
  BY LimitAssumption DEF CandidateInit, CandidateTypeInv, CandidateTypeOK
<1>2. CandidateTypeInv /\ [CandidateNext]_candidateVars => CandidateTypeInv'
  <2> SUFFICES ASSUME CandidateTypeInv, [CandidateNext]_candidateVars PROVE CandidateTypeInv'
    OBVIOUS
  <2> USE LimitAssumption DEF CandidateTypeInv, CandidateTypeOK
  <2>1. CASE Unsat
    BY <2>1 DEF Unsat, Required
  <2>2. CASE GiveUp
    BY <2>2 DEF GiveUp, Required
  <2>3. CASE Accept
    BY <2>3 DEF Accept, Required, Minimal, Unblocked
  <2>4. CASE Reject
    <3>1. PICK a \in Minimal(Unblocked) :
             candidate' = a /\ blocks' = blocks \cup {BlockClause(a)}
      BY <2>4 DEF Reject
    <3>2. a \in query.models
      BY DEF Minimal, Unblocked
    <3>3. DOMAIN BlockClause(a) \subseteq Symbols(Required)
      BY DEF BlockClause, Restricted
    <3>4. iteration' \in 0 .. MaxRejections + 1
      BY <2>4 DEF Reject
    <3> QED
      BY <2>4, <3>1, <3>2, <3>3, <3>4 DEF Reject, Required
  <2>5. CASE TooMany
    BY <2>5 DEF TooMany, Required
  <2>6. CASE UNCHANGED candidateVars
    BY <2>6 DEF candidateVars, Required
  <2> QED
    BY <2>1, <2>2, <2>3, <2>4, <2>5, <2>6 DEF CandidateNext, Answered
<1>3. CandidateTypeInv => CandidateTypeOK
  BY DEF CandidateTypeInv
<1> QED
  BY <1>1, <1>2, <1>3, PTL DEF CandidateSpec

-----------------------------------------------------------------------------
\* Every clause stems from a rejected candidate.
ClausesAreRejections ==
    \A clause \in blocks :
        \E r \in query.models : ~ Feasible(r) /\ clause = BlockClause(r)

\* Without required slots a clause names exactly the symbols of the events that occur.
LEMMA ClauseIsFootprint ==
    ASSUME Required = {}, NEW r PROVE BlockClause(r) = Footprint(Required, r)
  BY DEF BlockClause, Footprint, Occurring, Restricted

\* A candidate that the clause of another excludes carries the same events.
LEMMA AgreeingFootprints ==
    ASSUME Required = {}, NEW r, NEW a,
           \A n \in DOMAIN BlockClause(r) : a[n] = BlockClause(r)[n]
    PROVE  Footprint(Required, a) = Footprint(Required, r)
<1> DEFINE F(b) == Symbols(Required) \ {Data(s) : s \in Slot \ Occurring(Required, b)}
<1>1. Footprint(Required, r) = [n \in F(r) |-> r[n]]
      /\ Footprint(Required, a) = [n \in F(a) |-> a[n]]
  BY DEF Footprint, Restricted
<1>2. \A n \in F(r) : a[n] = r[n]
  BY ClauseIsFootprint, <1>1
<1>3. ASSUME NEW s \in Slot PROVE Occurs(s) \in F(r)
  <2>1. Occurs(s) \in Symbols(Required)
    BY DEF Symbols
  <2>2. \A q : Occurs(s) # Data(q)
    BY DEF Occurs, Data
  <2> QED
    BY <2>1, <2>2
<1>4. \A s \in Slot : a[Occurs(s)] = r[Occurs(s)]
  BY <1>2, <1>3
<1>5. Occurring(Required, a) = Occurring(Required, r)
  BY <1>4 DEF Occurring
<1>6. F(a) = F(r)
  BY <1>5
<1> QED
  BY <1>1, <1>2, <1>6

\* Only candidates that violate the state semantics are excluded.
LEMMA BlockedAreInfeasible ==
    ASSUME Required = {}, ClausesAreRejections, NEW a, Blocked(a) PROVE ~ Feasible(a)
<1>1. PICK clause \in blocks : \A n \in DOMAIN clause : a[n] = clause[n]
  BY DEF Blocked
<1>2. PICK r \in query.models : ~ Feasible(r) /\ clause = BlockClause(r)
  BY DEF ClausesAreRejections
<1>3. Footprint(Required, a) = Footprint(Required, r)
  BY <1>1, <1>2, AgreeingFootprints
<1> QED
  BY <1>2, <1>3 DEF Feasible

RejectionInv ==
    /\ Required = {}
    /\ ClausesAreRejections
    /\ UnsatHasNoCompletion
    /\ WitnessIsSmallest

\* For every problem whose slots are optional, whatever Z3 picks: no completion is
\* lost by the clauses of `_block_clause`, and the witness is a smallest completion.
THEOREM RejectionSound ==
    ASSUME AllOptional PROVE CandidateSpec => []UnsatHasNoCompletion /\ []WitnessIsSmallest
<1>1. CandidateInit => RejectionInv
  BY AllOptional
  DEF CandidateInit, RejectionInv, AllOptional, Required, ClausesAreRejections, UnsatHasNoCompletion,
      WitnessIsSmallest
<1>2. RejectionInv /\ [CandidateNext]_candidateVars => RejectionInv'
  <2> SUFFICES ASSUME RejectionInv, [CandidateNext]_candidateVars PROVE RejectionInv'
    OBVIOUS
  <2>a. query' = query
    BY DEF CandidateNext, candidateVars, Unsat, GiveUp, Accept, Reject, TooMany, Answered
  <2>b. Required' = Required
    BY <2>a DEF Required
  <2>c. Completions' = Completions
    BY <2>a, <2>b DEF Completions, Feasible
  <2>d. \A a \in Completions : a \in Unblocked
    BY BlockedAreInfeasible DEF RejectionInv, Completions, Unblocked
  <2>e. ASSUME blocks' = blocks PROVE ClausesAreRejections'
    <3>1. \A r : Feasible(r)' <=> Feasible(r)
      BY <2>a, <2>b DEF Feasible
    <3>2. \A r : BlockClause(r)' = BlockClause(r)
      BY <2>b DEF BlockClause
    <3> QED
      BY <2>a, <2>e, <3>1, <3>2 DEF RejectionInv, ClausesAreRejections
  <2>f. ASSUME outcome' \notin {"sat", "unsat"} PROVE (UnsatHasNoCompletion /\ WitnessIsSmallest)'
    BY <2>f DEF UnsatHasNoCompletion, WitnessIsSmallest
  <2>1. CASE Unsat
    <3>1. Completions = {}
      BY <2>1, <2>d DEF Unsat
    <3> QED
      BY <2>1, <2>b, <2>c, <2>e, <3>1 DEF Unsat, RejectionInv, UnsatHasNoCompletion, WitnessIsSmallest
  <2>2. CASE GiveUp
    BY <2>2, <2>b, <2>e, <2>f DEF GiveUp, RejectionInv
  <2>3. CASE Accept
    <3>1. PICK a \in Minimal(Unblocked) : Feasible(a) /\ candidate' = a
      BY <2>3 DEF Accept
    <3>2. a \in Completions
      BY <3>1 DEF Minimal, Unblocked, Completions
    <3>3. query.minimize => \A b \in Completions : Weight(a) <= Weight(b)
      BY <2>d, <3>1 DEF Minimal
    <3>4. blocks' = blocks /\ outcome' = "sat"
      BY <2>3 DEF Accept
    <3>5. WitnessIsSmallest'
      BY <2>a, <2>b, <2>c, <3>1, <3>2, <3>3 DEF WitnessIsSmallest, Weight
    <3> QED
      BY <2>b, <2>e, <3>4, <3>5 DEF RejectionInv, UnsatHasNoCompletion
  <2>4. CASE Reject
    <3>1. PICK a \in Minimal(Unblocked) :
             ~ Feasible(a) /\ blocks' = blocks \cup {BlockClause(a)}
      BY <2>4 DEF Reject
    <3>2. a \in query.models
      BY DEF Minimal, Unblocked
    <3>3. outcome' = "search"
      BY <2>4 DEF Reject
    <3>4. ClausesAreRejections'
      <4> SUFFICES ASSUME NEW clause \in blocks'
                   PROVE  \E r \in query.models : ~ Feasible(r) /\ clause = BlockClause(r)
        BY <2>a, <2>b DEF ClausesAreRejections, Feasible, BlockClause
      <4>1. CASE clause \in blocks
        BY <4>1 DEF RejectionInv, ClausesAreRejections
      <4>2. CASE clause = BlockClause(a)
        BY <4>2, <3>1, <3>2
      <4> QED
        BY <3>1, <4>1, <4>2
    <3> QED
      BY <2>b, <2>f, <3>3, <3>4 DEF RejectionInv
  <2>5. CASE TooMany
    BY <2>5, <2>b, <2>e, <2>f DEF TooMany, RejectionInv
  <2>6. CASE UNCHANGED candidateVars
    <3>1. blocks' = blocks /\ outcome' = outcome /\ candidate' = candidate
      BY <2>6 DEF candidateVars
    <3>2. UnsatHasNoCompletion'
      BY <2>c, <3>1 DEF RejectionInv, UnsatHasNoCompletion
    <3>3. WitnessIsSmallest'
      BY <2>a, <2>b, <2>c, <3>1 DEF RejectionInv, WitnessIsSmallest, Weight
    <3> QED
      BY <2>b, <2>e, <3>1, <3>2, <3>3 DEF RejectionInv
  <2> QED
    BY <2>1, <2>2, <2>3, <2>4, <2>5, <2>6 DEF CandidateNext, Answered
<1>3. RejectionInv => UnsatHasNoCompletion /\ WitnessIsSmallest
  BY DEF RejectionInv
<1> QED
  BY <1>1, <1>2, <1>3, PTL DEF CandidateSpec

\* For every problem whose slots are optional: the witness of `solve_z3` has as few
\* optional events as any completion, although rejected candidates were excluded first.
THEOREM SmallestWitness ==
    ASSUME AllOptional PROVE CandidateSpec => []WitnessIsSmallest
BY RejectionSound
=============================================================================
