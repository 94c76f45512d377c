--------------------------- MODULE RelationAxioms ---------------------------
(***************************************************************************)
(* The loadable part of a graph model: relations derived from others       *)
(* (`_derive_relation`, graph/builder.py, and graph/relation.py) and the   *)
(* axioms over them (`check_axiom`, graph/checker.py).                     *)
(*                                                                         *)
(* A table maps relation names to edge sets.  A derived relation is a      *)
(* record [name, op, relations] (relations a sequence of names), an axiom  *)
(* a record [kind, relations] (relations a set of names).                  *)
(***************************************************************************)
EXTENDS Rvwmo

Inverted(edges) == {<<e[2], e[1]>> : e \in edges}

Compose(left, right) ==
    {<<p[1][1], p[2][2]>> : p \in {q \in left \X right : q[1][2] = q[2][1]}}

\* The nodes that every successor-closed set contains once it contains the
\* successors of the source: what the worklist of transitive_closure collects.
ReachableFrom(source, edges) ==
    LET Nodes == {e[2] : e \in edges}
        Closed(S) == \A e \in edges : e[1] = source \/ e[1] \in S => e[2] \in S
    IN  {n \in Nodes : \A S \in SUBSET Nodes : Closed(S) => n \in S}

Closure(edges) ==
    UNION {{<<s, t>> : t \in ReachableFrom(s, edges)} : s \in {e[1] : e \in edges}}

Derived(spec, table) ==
    LET operand(i) == table[spec.relations[i]] IN
    CASE spec.op = "union"              -> UNION {operand(i) : i \in DOMAIN spec.relations}
      [] spec.op = "intersection"       -> operand(1) \cap operand(2)
      [] spec.op = "difference"         -> operand(1) \ operand(2)
      [] spec.op = "inverse"            -> Inverted(operand(1))
      [] spec.op = "compose"            -> Compose(operand(1), operand(2))
      [] spec.op = "transitive_closure" -> Closure(operand(1))

\* Each derived relation may use those before it and may not overwrite one.
Derivable(specs, names) ==
    \A i \in DOMAIN specs :
        LET before == names \cup {specs[j].name : j \in 1 .. i - 1} IN
        /\ {specs[i].relations[k] : k \in DOMAIN specs[i].relations} \subseteq before
        /\ specs[i].name \notin before

\* A table with relations of other names besides its own.
Extended(table, others) ==
    [name \in DOMAIN table \cup DOMAIN others |-> IF name \in DOMAIN table THEN table[name] ELSE others[name]]

WithDerived(table, specs) ==
    LET after[i \in 0 .. Len(specs)] ==
            IF i = 0 THEN table
            ELSE LET t == after[i - 1] IN Extended(t, [name \in {specs[i].name} |-> Derived(specs[i], t)])
    IN  after[Len(specs)]

AxiomHolds(axiom, table, Nodes) ==
    LET combined == UNION {table[name] : name \in axiom.relations} IN
    CASE axiom.kind = "acyclic"     -> ~ Cyclic(Nodes, combined)
      [] axiom.kind = "irreflexive" -> \A e \in combined : e[1] # e[2]
      [] axiom.kind = "empty"       -> combined = {}

\* The relations every candidate has: the only ppo rule of the loadable models
\* orders two reads of a location with different sources and no store between.
LoadLoadPpo(ops, rel) ==
    {e \in Po(ops) : LET s == e[1]  t == e[2] IN
        /\ IsRead(ops[s]) /\ IsRead(ops[t])
        /\ ops[s].address = ops[t].address
        /\ Source(rel, s) # Source(rel, t)
        /\ ~ \E m \in Ids(ops) : /\ ops[m].kind = "write" /\ ops[m].address = ops[s].address
                                 /\ Between(ops[s], ops[m], ops[t])}

BaseTable(ops, rel, rules) ==
    [po  |-> Po(ops),
     rf  |-> rel.rf,
     rfe |-> Rfe(ops, rel),
     co  |-> rel.co,
     fr  |-> Compose(Inverted(rel.rf), rel.co),
     ppo |-> IF "load_load_different_write" \in rules THEN LoadLoadPpo(ops, rel) ELSE {}]

\* What complete_rvwmo_relations adds to them or replaces (ppo is the union of
\* its thirteen rules, which a model can also name one by one).
RvwmoTable(ops, rel, gmo) ==
    LET internal(edges) == {e \in edges : ops[e[1]].hart = ops[e[2]].hart} IN
    [po  |-> Po(ops),
     rf  |-> rel.rf,      rfi |-> internal(rel.rf),       rfe |-> Rfe(ops, rel),
     fr  |-> Fr(ops, rel), fri |-> internal(Fr(ops, rel)), fre |-> Fr(ops, rel) \ internal(Fr(ops, rel)),
     co  |-> rel.co,
     ppo |-> Ppo(ops, rel),
     gmo |-> gmo]
=============================================================================
