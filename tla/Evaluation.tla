----------------------------- MODULE Evaluation -----------------------------
(***************************************************************************)
(* Partial evaluation of the typed expressions: `evaluate`,                *)
(* src/src/umcm/solver/evaluator.py.                                       *)
(*                                                                         *)
(* An expression is the sequence of its nodes, operands before the nodes   *)
(* they belong to and the outermost node last.  A node is a record with an *)
(* operator and the places of its operands; a symbol reads the assignment, *)
(* a function on the symbols bound so far, and an event field stands for   *)
(* the literal or the symbol its event holds.  A field that its event does *)
(* not have is unknown ("missing"), but the cycle of an event that was     *)
(* given none is Python's None ("none"), a value like any other until      *)
(* something is computed from it.  SolverErrors and TypeErrors are the     *)
(* value Raised, which no operator catches.  Masks are naturals.           *)
(***************************************************************************)
EXTENDS Integers, Sequences

CONSTANTS Unknown,    \* the singleton UNKNOWN
          Raised,     \* the evaluation ended in an error
          None        \* the cycle of an event that has none

Values(v) == {v[i] : i \in DOMAIN v}

Conjunction(v) ==
    IF FALSE \in Values(v) THEN FALSE ELSE IF Unknown \in Values(v) THEN Unknown ELSE TRUE

Disjunction(v) ==
    IF TRUE \in Values(v) THEN TRUE ELSE IF Unknown \in Values(v) THEN Unknown ELSE FALSE

\* Mutant: an antecedent that is not known to hold is vacuous.
VacuousImplication(v) == IF v[1] # TRUE \/ v[2] = TRUE THEN TRUE ELSE IF v[2] = FALSE THEN FALSE ELSE Unknown

Implication(v) ==
    IF v[1] = FALSE \/ v[2] = TRUE THEN TRUE
    ELSE IF v[1] = TRUE /\ v[2] = FALSE THEN FALSE ELSE Unknown

\* Two known operands that are equal decide, however many others are unknown.
Distinct(v) ==
    IF \E i, j \in DOMAIN v : i # j /\ v[i] = v[j] /\ v[i] # Unknown THEN FALSE
    ELSE IF Unknown \in Values(v) THEN Unknown ELSE TRUE

\* Python's // and %, which round towards minus infinity.
FloorDivide(a, b) == IF b > 0 THEN a \div b ELSE (-a) \div (-b)
Modulo(a, b) == a - b * FloorDivide(a, b)

AllEqual(v) == \A i \in DOMAIN v : v[i] = v[1]

\* Without a size, or one that is not an integer, addresses are names.
SameBlock(v) ==
    IF Len(v) = 2 \/ None \in Values(v) THEN v[1] = v[2]
    ELSE IF v[3] <= 0 THEN Raised
    ELSE FloorDivide(v[1], v[3]) = FloorDivide(v[2], v[3])

\* The bits of a mask: bit n lies beyond n itself.
Bits(mask) == {n \in 0 .. mask : (mask \div 2 ^ n) % 2 = 1}

\* Operators and functions that need every operand.
Strict(op, v) ==
    CASE op = "not" -> ~ v[1]
      [] op = "neg" -> - v[1]
      [] op = "xor" -> v[1] # v[2]
      [] op = "eq"  -> v[1] = v[2]
      [] op = "ne"  -> v[1] # v[2]
      [] op = "lt"  -> v[1] < v[2]
      [] op = "le"  -> v[1] <= v[2]
      [] op = "gt"  -> v[1] > v[2]
      [] op = "ge"  -> v[1] >= v[2]
      [] op = "add" -> v[1] + v[2]
      [] op = "sub" -> v[1] - v[2]
      [] op = "mul" -> v[1] * v[2]
      [] op = "div" -> IF v[2] = 0 THEN Raised ELSE FloorDivide(v[1], v[2])
      [] op = "mod" -> IF v[2] = 0 THEN Raised ELSE Modulo(v[1], v[2])
      [] op = "same_value"   -> AllEqual(v)
      [] op = "same_block"   -> SameBlock(v)
      [] op = "mask_overlap" -> Bits(v[1]) \cap Bits(v[2]) # {}
      [] op = "mask_covers"  -> Bits(v[2]) \subseteq Bits(v[1])

\* What computes with numbers, which None is not.
Computing ==
    {"neg", "lt", "le", "gt", "ge", "add", "sub", "mul", "div", "mod", "mask_overlap", "mask_covers"}

Apply(op, v) ==
    IF Raised \in Values(v) THEN Raised
    ELSE CASE op = "and"      -> Conjunction(v)
           [] op = "or"       -> Disjunction(v)
           [] op = "implies"  -> Implication(v)
           [] op = "distinct" -> Distinct(v)
           [] OTHER -> IF Unknown \in Values(v) THEN Unknown
                       ELSE IF op \in Computing /\ None \in Values(v) THEN Raised
                       ELSE Strict(op, v)

\* The branches of an undecided condition decide when they agree.
Undecided(then, else) ==
    IF Raised \in {then, else} THEN Raised
    ELSE IF then = else THEN then ELSE Unknown

Choice(v) ==
    CASE v[1] = TRUE   -> v[2]
      [] v[1] = FALSE  -> v[3]
      [] v[1] = Raised -> Raised
      [] OTHER         -> Undecided(v[2], v[3])

\* EvaluationContext.event_attribute: what a field holds stands in its place, and what the
\* event does not hold is "missing" or, for its cycle, "none".
Held(node, events) == IF node.op = "field" THEN events[node.event][node.field] ELSE node

Leaves == {"literal", "symbol", "missing", "none"}

Leaf(node, assignment) ==
    CASE node.op = "literal" -> node.value
      [] node.op = "symbol"  -> IF node.name \in DOMAIN assignment THEN assignment[node.name] ELSE Unknown
      [] node.op = "missing" -> Unknown
      [] node.op = "none"    -> None

Node(op, v) == IF op = "ite" THEN Choice(v) ELSE Apply(op, v)

NodeValue(node, operands, assignment) ==
    IF node.op \in Leaves THEN Leaf(node, assignment) ELSE Node(node.op, operands)

\* The value of the i-th node.
ValueAt(e, i, events, assignment) ==
    LET value[j \in 1 .. i] ==
            LET node == Held(e[j], events)
            IN  NodeValue(node, [k \in DOMAIN node.args |-> value[node.args[k]]], assignment)
    IN  value[i]

Evaluate(e, events, assignment) == ValueAt(e, Len(e), events, assignment)
=============================================================================
