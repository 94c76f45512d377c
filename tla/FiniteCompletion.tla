-------------------------- MODULE FiniteCompletion --------------------------
(***************************************************************************)
(* The finite search over the variables and values of a bounded problem,   *)
(* src/src/umcm/solver/finite.py, with the evaluator deciding its          *)
(* constraints: those of the trace, and those of rules, whose roles are    *)
(* replaced by events.  The state semantics are taken for problems without *)
(* state updates, where the state-guarded rules whose predicates hold of   *)
(* the initial state must be obeyed.                                       *)
(*                                                                         *)
(* A sort is a record [kind, width]; opaque sorts have a kind of their     *)
(* own, and their values are tried in the order of their places, that of   *)
(* type names and texts.  A concrete value of an event or of an initial    *)
(* state is a literal.                                                     *)
(***************************************************************************)
EXTENDS FiniteSearch, FiniteSets

-----------------------------------------------------------------------------
(* The variables, and the values tried for each. *)

\* The members of a set in the order of their keys.
SortedBy(key, S) ==
    [i \in 1 .. Cardinality(S) |-> CHOOSE x \in S : Cardinality({y \in S : key[y] < key[x]}) = i - 1]

Sorted(S) == SortedBy([n \in S |-> n], S)

Smaller(a, b) == IF a <= b THEN a ELSE b

DomainFor(sort, observed, horizon) ==
    CASE sort.kind = "bool" -> <<FALSE, TRUE>>
      [] sort.kind = "int"  -> Sorted(0 .. horizon \cup observed)
      [] sort.kind = "bv"   -> Sorted(observed \cup 0 .. Smaller(2 ^ sort.width - 1, horizon))
      [] OTHER              -> SortedBy(Place, observed)

\* Occurrence and identity decisions first, cycles last.
Rank(sort) ==
    CASE sort.kind = "bool" -> 0
      [] sort.kind = "bv"   -> 2
      [] sort.kind = "int"  -> 3
      [] OTHER              -> 1

\* A symbol has one sort, and every domain has a value.
Buildable(exprs) ==
    /\ \A s, t \in Expr!Symbols(exprs) : s.name = t.name => s.sort = t.sort
    /\ \A s \in Expr!Symbols(exprs) :
          s.sort.kind \notin {"bool", "int", "bv"} => Expr!Observed(exprs, s.sort) # {}

\* The variables by priority, each with the values tried for it.
Variables(exprs, horizon) ==
    LET names == {s.name : s \in Expr!Symbols(exprs)}
        sort == [n \in names |-> (CHOOSE s \in Expr!Symbols(exprs) : s.name = n).sort]
        domain == [n \in names |-> DomainFor(sort[n], Expr!Observed(exprs, sort[n]), horizon)]
        Size(n) == Len(domain[n])
        Earlier(m, n) ==
            \/ Rank(sort[m]) < Rank(sort[n])
            \/ Rank(sort[m]) = Rank(sort[n]) /\ Size(m) < Size(n)
            \/ Rank(sort[m]) = Rank(sort[n]) /\ Size(m) = Size(n) /\ m < n
        Nth(i) == CHOOSE n \in names : Cardinality({m \in names : Earlier(m, n)}) = i - 1
    IN  [i \in 1 .. Cardinality(names) |->
            LET n == Nth(i) IN [name |-> n, sort |-> sort[n], domain |-> domain[n]]]

-----------------------------------------------------------------------------
(* The bounded problem. *)

\* The attributes of all events.
Attributes(events) ==
    {<<a>> : a \in UNION {{events[id][f] : f \in DOMAIN events[id]} : id \in DOMAIN events}}

\* A rule is an expression over roles, and the events these are bound to.
Bound(rule) == Expr!Substituted(rule.written, rule.binding)

ConstraintsOf(bounded) == bounded.constraints \o [i \in DOMAIN bounded.rules |-> Bound(bounded.rules[i])]

All(exprs) == {exprs[i] : i \in DOMAIN exprs}

GuardTerms(guards) == UNION {{g.antecedent, g.consequent} : g \in All(guards)}

\* The expressions that are searched for symbols and values: those of state-guarded rules
\* are not.
Recorded(bounded) == Attributes(bounded.events) \cup All(ConstraintsOf(bounded)) \cup All(bounded.effects)

\* An ill-typed expression cannot be written down; a problem without domains raises.
Searchable(bounded) ==
    /\ \A i \in DOMAIN bounded.rules : Expr!Typed(bounded.rules[i].written)
    /\ \A i \in DOMAIN bounded.constraints : Expr!Typed(bounded.constraints[i])
    /\ Buildable(Recorded(bounded))

\* What solve_finite searches for a bounded problem.
Searched(bounded) ==
    LET variables == Variables(Recorded(bounded), bounded.horizon)
        places == 1 .. Len(variables)
    IN  [names       |-> [i \in places |-> variables[i].name],
         domains     |-> [i \in places |-> variables[i].domain],
         events      |-> bounded.events,
         rules       |-> bounded.rules,
         constraints |-> ConstraintsOf(bounded),
         guards      |-> bounded.guards,
         effects     |-> bounded.effects,
         limit       |-> bounded.limit]

\* _check_guarded_transitions for rules whose predicates hold.
GuardsObeyed(pr, values) ==
    \A i \in DOMAIN pr.guards :
        \/ Evaluated(pr, pr.guards[i].antecedent, values) = FALSE
        \/ /\ Evaluated(pr, pr.guards[i].antecedent, values) = TRUE
           /\ Evaluated(pr, pr.guards[i].consequent, values) = TRUE

-----------------------------------------------------------------------------
(* Correctness. *)

\* The roles of a rule are bound to events, which have the fields that it speaks of.
ASSUME RuleAssumption ==
    \A pr \in Problem : \A i \in DOMAIN pr.rules :
        LET rule == pr.rules[i]
        IN  /\ Expr!WellFormed(rule.written)
            /\ \A j \in DOMAIN rule.written : LET node == rule.written[j] IN
                  node.op = "field" =>
                    /\ node.event \in DOMAIN rule.binding
                    /\ pr.events[rule.binding[node.event]][node.field].op \in Expr!Leaves

\* Replacing roles by events is simultaneous: whatever is assigned already, the bound
\* expression says of the events what the written one says of the roles, also where a role
\* bears the name of an event.
BindingKeepsMeaning ==
    phase = "enter" => \A i \in DOMAIN problem.rules :
        LET rule == problem.rules[i]
            events == [r \in DOMAIN rule.binding |-> problem.events[rule.binding[r]]]
        IN  Evaluated(problem, Bound(rule), Assigned(path))
                = Expr!Evaluate(rule.written, events, Assignment(problem, Assigned(path)))

\* What the two backends agree on: fields and cycles that are there, divisors that are positive,
\* addresses without a block size, and terms that are well sorted in SMT-LIB.
Portable(e, events, assignment) ==
    \A i \in DOMAIN e :
        LET node == Expr!Held(e[i], events)
        IN  /\ node.op \notin {"missing", "none"}
            /\ node.op \notin Expr!Leaves => ~ Expr!IllSorted(node.op, Expr!Sorts(e, node))
            /\ node.op \in {"div", "mod"} =>
                Expr!ValueAt(e, node.args[2], events, assignment) \in Nat \ {0}
            /\ node.op \in {"same_value", "same_block"} => Expr!Compatible(Expr!Sorts(e, node))
            /\ node.op = "same_block" => Len(node.args) = 2

\* The expressions whose values are numbered for Z3.
RecordedIn(pr) ==
    Expr!RecordedForCodes(Attributes(pr.events),
                          All(pr.constraints) \cup All(pr.effects) \cup GuardTerms(pr.guards))

\* There are finitely many expressions, their values have different places, and those
\* tried for a variable that is coded are values that were found in some of them.
ASSUME CodeAssumption ==
    \A pr \in Problem :
        LET found == Attributes(pr.events) \cup All(pr.constraints) \cup All(pr.effects)
            literals == UNION {Expr!LiteralNodes(e) : e \in found \cup GuardTerms(pr.guards)}
        IN  /\ IsFiniteSet(literals)
            /\ \A m, n \in literals : Expr!Coded(m.sort) /\ m.sort = n.sort =>
                  /\ Place[m.value] \in Int
                  /\ Place[m.value] = Place[n.value] => m.value = n.value
            /\ \A e \in found : \A s \in Expr!SymbolNodes(e) : Expr!Coded(s.sort) =>
                  \A i \in DOMAIN pr.names : pr.names[i] = s.name =>
                      \A place \in 1 .. Len(pr.domains[i]) :
                          pr.domains[i][place] \in Expr!Observed(found, s.sort)

\* Both backends are given the same problem: under every assignment the printed constraint
\* and the evaluator have the same Boolean for it, values that only an event holds included.
EncodingAgrees ==
    explored = 0 =>
        LET recorded == RecordedIn(problem)
        IN  \A p \in TotalPaths : LET assignment == Assignment(problem, Assigned(p)) IN
                \A c \in All(problem.constraints) : Portable(c, problem.events, assignment) =>
                    /\ Expr!Evaluate(c, problem.events, assignment) \in BOOLEAN
                    /\ Expr!Meaning(c, problem.events, recorded, assignment)
                            = Expr!Evaluate(c, problem.events, assignment)
=============================================================================
