---------------------------- MODULE MCCompletion ----------------------------
(***************************************************************************)
(* For the finite backend, one completion slot among recorded events:      *)
(* whether the slot occurs, its cycle, its location and a mask are         *)
(* searched, under constraints of the trace that prune, stay unresolved or *)
(* raise, and a state-guarded rule.  One recorded event has neither a      *)
(* cycle nor a mask.  Rules with an input i and an output o bind these to  *)
(* events, two of which bear the names of the roles, with every operator   *)
(* in them, well typed or not.                                             *)
(*                                                                         *)
(* For the Z3 backend, two slots with two values each and a trace symbol   *)
(* with one value.                                                         *)
(***************************************************************************)
EXTENDS Completion

CONSTANTS unknown, raised, refused, absent, s1, s2

S(kind, width) == [kind |-> kind, width |-> width]
Bool == S("bool", 0)
Cycle == S("int", 0)
Location == S("location", 0)
Mask == S("bv", 8)

\* The nodes of the operands, one after the other, and a node that has their last ones
\* as operands.
Composed(op, es, declared) ==
    LET end[k \in 0 .. Len(es)] == IF k = 0 THEN 0 ELSE end[k - 1] + Len(es[k])
        shifted(k) == [j \in 1 .. Len(es[k]) |->
                        [es[k][j] EXCEPT !.args = [n \in DOMAIN @ |-> @[n] + end[k - 1]]]]
        nodes[k \in 0 .. Len(es)] == IF k = 0 THEN << >> ELSE nodes[k - 1] \o shifted(k)
        sorts == [k \in DOMAIN es |-> es[k][Len(es[k])].sort]
    IN  Append(nodes[Len(es)],
               [op |-> op, args |-> [k \in DOMAIN es |-> end[k]], sort |-> Expr!SortOf(op, sorts, declared)])

E(op, operands) == Composed(op, operands, Bool)
Call(function, operands) == Composed(function, operands, Bool)

\* What an event holds, and the expression of that one node.
literal(v, sort) == [op |-> "literal", value |-> v, sort |-> sort, args |-> << >>]
symbol(n, sort) == [op |-> "symbol", name |-> n, sort |-> sort, args |-> << >>]
missing == [op |-> "missing", args |-> << >>]
none == [op |-> "none", args |-> << >>]

Lit(v, sort) == <<literal(v, sort)>>
Field(role, f, sort) == <<Expr!EventField(role, f, sort)>>

\* Locations 8 and 9 are written "8" and "9", the others come before them as texts.
MCPlace == [v \in 8 .. 12 |-> IF v >= 10 THEN v - 10 ELSE v]

Event(occurrence, cycle, location, mask) ==
    [occurs |-> occurrence, cycle |-> cycle, loc |-> location, mask |-> mask]

Concrete(cycle, location, mask) ==
    Event(literal(TRUE, Bool), literal(cycle, Cycle), literal(location, Location), literal(mask, Mask))

-----------------------------------------------------------------------------
(* Constraints of the trace. *)

SlotEvent(m) == Event(symbol(1, Bool), symbol(2, Cycle), symbol(3, Location), m)

occurs == <<symbol(1, Bool)>>
at     == <<symbol(2, Cycle)>>
loc    == <<symbol(3, Location)>>
mask   == <<symbol(4, Mask)>>

Events == [slot  |-> SlotEvent(symbol(4, Mask)),
           first |-> [cycle |-> literal(0, Cycle), loc |-> literal(10, Location)],
           other |-> [cycle |-> none, loc |-> literal(11, Location), mask |-> missing]]

Pool == UNION {
    {occurs, E("not", <<occurs>>),
     E("or", <<occurs, E("eq", <<Field("other", "cycle", Cycle), Lit(1, Cycle)>>)>>),
     E("or", <<occurs, Call("mask_overlap", <<Field("other", "mask", Mask), Lit(2, Mask)>>)>>),
     E("ne", <<E("ite", <<occurs, Field("other", "cycle", Cycle), at>>), Lit(1, Cycle)>>),
     E("implies", <<occurs, E("lt", <<Lit(0, Cycle), at>>)>>),
     E("ne", <<loc, Lit(10, Location)>>),
     E("eq", <<E("div", <<Lit(2, Cycle), at>>), Lit(1, Cycle)>>),
     E("eq", <<loc, Lit(10, Location)>>),
     Call("mask_covers", <<mask, Lit(3, Mask)>>),
     E("distinct", <<at, E("add", <<at, Lit(0, Cycle)>>), Lit(1, Cycle)>>),
     E("ite", <<occurs, E("ne", <<at, Lit(1, Cycle)>>), E("eq", <<mask, Lit(0, Mask)>>)>>),
     E("or", <<E("not", <<occurs>>), Call("mask_overlap", <<mask, Lit(2, Mask)>>)>>)}}

Rule(location) == [antecedent |-> occurs, consequent |-> E("eq", <<loc, Lit(location, Location)>>)]

Bounded(events, constraints, rules, guards, limit) ==
    [events |-> events, constraints |-> constraints, rules |-> rules, effects |-> << >>,
     guards |-> guards, horizon |-> 2, limit |-> limit]

SearchedOf(bounds) == {Searched(b) : b \in {x \in bounds : Searchable(x)}}

Problems(guards, limits) ==
    SearchedOf({Bounded(Events, <<c, d>>, << >>, g, l) : c \in Pool, d \in Pool, g \in guards, l \in limits})

\* The slot's mask is constrained, next to any other two.
Larger ==
    LET third == Call("mask_covers", <<mask, Lit(3, Mask)>>)
    IN  SearchedOf({Bounded(Events, <<c, d, third>>, << >>, << >>, 1000) : c \in Pool, d \in Pool})

-----------------------------------------------------------------------------
(* Rules. *)

RuleEvents ==
    {[i |-> Concrete(0, 8, 3), o |-> SlotEvent(literal(12, Mask)), s |-> Concrete(1, 10, 6)],
     [i |-> SlotEvent(literal(1, Mask)), o |-> Concrete(1, 9, 3),
      s |-> Event(literal(TRUE, Bool), none, missing, literal(5, Mask))]}

Bindings == {[i |-> "o", o |-> "i"], [i |-> "o", o |-> "s"], [i |-> "s", o |-> "i"]}

OccursOf(r) == Field(r, "occurs", Bool)
CycleOf(r) == Field(r, "cycle", Cycle)
LocOf(r) == Field(r, "loc", Location)
MaskOf(r) == Field(r, "mask", Mask)

One == Lit(1, Cycle)

Atoms ==
    {OccursOf("o"), E("eq", <<LocOf("i"), Lit(10, Location)>>), E("ne", <<LocOf("i"), LocOf("o")>>),
     E("lt", <<CycleOf("i"), CycleOf("o")>>), E("eq", <<CycleOf("o"), E("add", <<CycleOf("i"), One>>)>>),
     E("eq", <<E("div", <<E("neg", <<CycleOf("o")>>), Lit(2, Cycle)>>), Lit(-1, Cycle)>>),
     E("ge", <<E("mod", <<Lit(7, Cycle), CycleOf("o")>>), One>>),
     Call("mask_overlap", <<MaskOf("i"), MaskOf("o")>>), Call("mask_covers", <<MaskOf("o"), MaskOf("i")>>),
     Call("same_block", <<LocOf("i"), LocOf("o")>>), E("distinct", <<LocOf("i"), LocOf("o"), Lit(9, Location)>>),
     E("eq", <<E("ite", <<OccursOf("o"), CycleOf("o"), E("sub", <<CycleOf("i"), One>>)>>), One>>)}

IllTyped ==
    {E("lt", <<LocOf("i"), LocOf("o")>>), E("eq", <<LocOf("i"), CycleOf("i")>>), E("and", <<OccursOf("i"), CycleOf("o")>>),
     E("neg", <<OccursOf("o")>>), E("eq", <<MaskOf("o"), Lit(300, Mask)>>),
     E("not", <<E("ite", <<OccursOf("o"), OccursOf("i"), CycleOf("i")>>)>>)}

Beyond ==
    {Call("same_block", <<CycleOf("i"), CycleOf("o"), Lit(2, Cycle)>>),
     E("eq", <<E("div", <<CycleOf("o"), E("neg", <<Lit(2, Cycle)>>)>>), Lit(-1, Cycle)>>),
     E("le", <<MaskOf("i"), MaskOf("o")>>), E("distinct", <<E("mul", <<CycleOf("o"), CycleOf("o")>>), One>>)}

\* What decides an implication at once, soon or late.
Conditions == {OccursOf("o"), E("ne", <<LocOf("i"), LocOf("o")>>), E("lt", <<CycleOf("i"), CycleOf("o")>>)}

Written ==
    Atoms \cup IllTyped \cup Beyond
    \cup {E("implies", <<a, b>>) : a \in Conditions, b \in Atoms \cup IllTyped}
    \cup {E("or", <<E("not", <<a>>), b>>) : a \in Beyond, b \in Conditions}

RuleProblems ==
    SearchedOf({Bounded(events, << >>, <<[written |-> w, binding |-> b]>>, << >>, 1000) :
                    events \in RuleEvents, w \in Written, b \in Bindings})

MCProblem == UNION {Larger, Problems({<< >>}, {5, 1000}), Problems({<<Rule(11)>>}, {1000}), RuleProblems}

-----------------------------------------------------------------------------
(* What Z3 is asked. *)

Assignments(required) ==
    {a \in [Symbols(required) -> BOOLEAN] : a[TraceSymbol]}

\* The assertions: one slot at least, one at most, or a tie to the trace.
Models(required) ==
    {{a \in Assignments(required) : Occurring(required, a) # {}},
     {a \in Assignments(required) : Occurring(required, a) # Slot},
     {a \in Assignments(required) : \A s \in Occurring(required, a) : a[Data(s)] = a[TraceSymbol]}}

\* The footprints that check_state_semantics accepts: none, or those of one or two candidates.
AcceptedPrints(required) ==
    LET prints == {Footprint(required, a) : a \in Assignments(required)}
    IN  {{}} \cup {{p, q} : p, q \in prints}

Queries(required, accepted) ==
    {[required |-> required, models |-> m, accepted |-> f, minimize |-> min, hard |-> hard] :
        m \in Models(required), f \in accepted, min \in BOOLEAN, hard \in {FALSE}}

Hard ==
    {[required |-> {}, models |-> m, accepted |-> {}, minimize |-> TRUE, hard |-> TRUE] :
        m \in Models({})}

MCQuery == UNION {Queries({}, AcceptedPrints({})), Hard}

MCRequired == Queries({s1}, AcceptedPrints({s1}))
=============================================================================
