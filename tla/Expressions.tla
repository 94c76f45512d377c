----------------------------- MODULE Expressions -----------------------------
(***************************************************************************)
(* The typed expressions of a model: which are well typed and of which     *)
(* sort, src/src/umcm/ir/expression.py and ir/sort.py, the replacement of  *)
(* roles by events, the values that the fields of the events give, and     *)
(* what an expression says once it is printed for Z3: `_Codec`,            *)
(* src/src/umcm/solver/z3ctypes.py.                                        *)
(*                                                                         *)
(* A node has the property `sort` that its constructor gives it.  An event *)
(* field is a leaf as well: it has no operands.                            *)
(***************************************************************************)
EXTENDS Evaluation, FiniteSets

CONSTANTS Refused,      \* Z3 refuses the term: there is no verdict
          Place         \* the place of a domain value in the order of type name and text

BoolSort == [kind |-> "bool", width |-> 0]

Functions == {"same_value", "same_block", "mask_overlap", "mask_covers"}
Arithmetic == {"add", "sub", "mul", "div", "mod"}
Ordering == {"lt", "le", "gt", "ge"}
Logical == {"and", "or", "implies", "xor", "not"}
Equality == {"eq", "ne", "distinct"}

\* Sort.accepts_literal: a domain sort takes any scalar.
Accepts(sort, value) ==
    CASE sort.kind = "bool" -> value \in BOOLEAN
      [] sort.kind = "int"  -> value \in Int
      [] sort.kind = "bv"   -> value \in Nat /\ value < 2 ^ sort.width
      [] OTHER              -> TRUE

\* The sort of a node with operands of these sorts; a call is declared with its own.
SortOf(op, sorts, declared) ==
    CASE op \in Leaves \cup {"field"} \cup Functions -> declared
      [] op = "ite"                                  -> sorts[2]
      [] op \in Arithmetic \cup {"neg"}              -> sorts[1]
      [] OTHER                                       -> BoolSort

Numeric(sort) == sort.kind \in {"int", "bv"}
AllBool(sorts) == \A k \in DOMAIN sorts : sorts[k] = BoolSort
Compatible(sorts) == \A k \in DOMAIN sorts : sorts[k] = sorts[1]

\* What the constructors demand; the arguments of a call are not looked at.
TypedHere(op, sorts) ==
    CASE op \in Logical                          -> AllBool(sorts)
      [] op \in Equality                         -> Compatible(sorts)
      [] op \in Ordering \cup Arithmetic \cup {"neg"} -> Compatible(sorts) /\ Numeric(sorts[1])
      [] op = "ite"                              -> sorts[1] = BoolSort /\ sorts[2] = sorts[3]
      [] OTHER                                   -> TRUE

Arity(op, n) ==
    CASE op \in Leaves \cup {"field"}       -> n = 0
      [] op \in {"not", "neg"}             -> n = 1
      [] op \in {"and", "or", "distinct"}  -> n >= 1
      [] op = "ite"                        -> n = 3
      [] op = "same_value"                 -> TRUE
      [] op = "same_block"                 -> n \in {2, 3}
      [] OTHER                             -> n = 2

Operators == Logical \cup Equality \cup Ordering \cup Arithmetic \cup Functions \cup {"neg", "ite"}

\* The nodes have as many operands as their operators take, and stand after them.
WellFormed(e) ==
    /\ Len(e) \in Nat \ {0} /\ DOMAIN e = 1 .. Len(e)
    /\ \A i \in DOMAIN e :
        /\ e[i].op \in Operators \cup {"literal", "symbol", "field"}
        /\ e[i].args \in Seq(1 .. i - 1)
        /\ Arity(e[i].op, Len(e[i].args))

Sorts(e, node) == [k \in DOMAIN node.args |-> e[node.args[k]].sort]

Typed(e) ==
    \A i \in DOMAIN e :
        /\ e[i].op = "literal" => Accepts(e[i].sort, e[i].value)
        /\ e[i].sort = SortOf(e[i].op, Sorts(e, e[i]), e[i].sort)
        /\ TypedHere(e[i].op, Sorts(e, e[i]))

SymbolNodes(e) == {node \in {e[i] : i \in DOMAIN e} : node.op = "symbol"}
LiteralNodes(e) == {node \in {e[i] : i \in DOMAIN e} : node.op = "literal"}

\* Of a set of expressions.
Symbols(exprs) == {[name |-> node.name, sort |-> node.sort] : node \in UNION {SymbolNodes(e) : e \in exprs}}
Observed(exprs, sort) ==
    {node.value : node \in {n \in UNION {LiteralNodes(e) : e \in exprs} : n.sort = sort}}

\* Mutant: one name after the other, over what was already replaced.
RenamedInTurn(mapping, id) ==
    LET once == IF id \in DOMAIN mapping THEN mapping[id] ELSE id
    IN  IF once \in DOMAIN mapping THEN mapping[once] ELSE once

Renamed(mapping, id) == IF id \in DOMAIN mapping THEN mapping[id] ELSE id

EventField(event, field, sort) ==
    [op |-> "field", event |-> event, field |-> field, sort |-> sort, args |-> << >>]

\* substitute_event_ids
Substituted(e, mapping) ==
    [i \in DOMAIN e |->
        IF e[i].op = "field" THEN EventField(Renamed(mapping, e[i].event), e[i].field, e[i].sort) ELSE e[i]]

-----------------------------------------------------------------------------
(* Printed for Z3, values of domain sorts are numbered and operators are   *)
(* those of SMT-LIB, where division leaves a remainder that is not         *)
(* negative and a term that is not well sorted is refused.                 *)

Coded(sort) == sort.kind \notin {"bool", "int", "bv"}

\* Mutant: values that only a concrete field of an event holds have no number.
RecordedOfConstraints(slots, constraints) == constraints

\* Values are looked for in the fields of the events and in the expressions; those of the
\* domains are among them.
RecordedForCodes(slots, constraints) == slots \cup constraints

CodedValues(recorded, sort) == Observed(recorded, sort)

\* The number of a value among those of its sort; unrecorded values have none.
Code(recorded, sort, value) ==
    Cardinality({v \in CodedValues(recorded, sort) : Place[v] < Place[value]})

Atom(recorded, sort, value) ==
    IF ~ Coded(sort) THEN value
    ELSE IF value \in CodedValues(recorded, sort) THEN Code(recorded, sort, value)
    ELSE Raised

SmtDivide(a, b) == IF b > 0 THEN a \div b ELSE - (a \div (- b))

MaskWidth == 8          \* of the zero that mask_overlap compares with

IsMask(sort) == sort.kind = "bv"

\* Terms that have no sort in SMT-LIB: the operators are those of integers.
IllSorted(op, sorts) ==
    \/ op \in Ordering \cup Arithmetic \cup {"neg"} /\ IsMask(sorts[1])
    \/ op \in {"mask_overlap", "mask_covers"} /\ ~ (IsMask(sorts[1]) /\ Compatible(sorts))
    \/ op = "mask_overlap" /\ sorts[1].width # MaskWidth

\* Division by zero is any integer, of which one is enough here.
SmtApply(op, v) ==
    CASE op \in {"and", "or", "implies", "distinct"} -> Apply(op, v)
      [] op = "ite" -> IF v[1] THEN v[2] ELSE v[3]
      [] op = "div" -> IF v[2] = 0 THEN 0 ELSE SmtDivide(v[1], v[2])
      [] op = "mod" -> IF v[2] = 0 THEN v[1] ELSE v[1] - v[2] * SmtDivide(v[1], v[2])
      [] op = "same_block" -> v[1] = v[2]
      [] OTHER -> Strict(op, v)

SmtNode(op, sorts, v) ==
    IF Raised \in Values(v) THEN Raised
    ELSE IF IllSorted(op, sorts) \/ Refused \in Values(v) THEN Refused
    ELSE SmtApply(op, v)

SmtLeaf(node, recorded, assignment) ==
    CASE node.op = "literal" -> Atom(recorded, node.sort, node.value)
      [] node.op = "symbol"  -> Atom(recorded, node.sort, assignment[node.name])
      [] node.op \in {"missing", "none"} -> Raised

SmtValue(e, node, operands, recorded, assignment) ==
    IF node.op \in Leaves THEN SmtLeaf(node, recorded, assignment)
    ELSE SmtNode(node.op, Sorts(e, node), operands)

\* The value of the printed term under the numbers that a model gives to the symbols.
Meaning(e, events, recorded, assignment) ==
    LET meaning[j \in 1 .. Len(e)] ==
            LET node == Held(e[j], events)
            IN  SmtValue(e, node, [k \in DOMAIN node.args |-> meaning[node.args[k]]], recorded, assignment)
    IN  meaning[Len(e)]
=============================================================================
