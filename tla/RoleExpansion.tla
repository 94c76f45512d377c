--------------------------- MODULE RoleExpansion ---------------------------
(***************************************************************************)
(* Parameters of module templates, src/src/umcm/composition/               *)
(* parameterization.py.                                                    *)
(*                                                                         *)
(* Events export the values found under paths; constants and switches are  *)
(* such values, and a renamed copy is its copy_index.  A rendered name is  *)
(* a sequence: the number of its template and the values put into it.      *)
(***************************************************************************)
EXTENDS Integers, Sequences, FiniteSets, SequencesExt

NoCycle == -1        \* the cycle of the event is an expression, or unknown

\* Mappings: a key that is set, and one mapping over another.
Put(f, key, value) == [x \in DOMAIN f \cup {key} |-> IF x = key THEN value ELSE f[x]]
Updated(f, g) == [x \in DOMAIN f \cup DOMAIN g |-> IF x \in DOMAIN g THEN g[x] ELSE f[x]]

Lexical(s, t) ==
    \/ Len(s) < Len(t) /\ \A i \in DOMAIN s : s[i] = t[i]
    \/ \E i \in DOMAIN s \cap DOMAIN t : s[i] < t[i] /\ \A j \in 1 .. i - 1 : s[j] = t[j]

\* A strict order of all members makes a sequence of a set.
Sorted(S, Less(_, _)) ==
    [n \in 1 .. Cardinality(S) |-> CHOOSE x \in S : Cardinality({y \in S : Less(y, x)}) = n - 1]

\* Unknown cycles come last.
Before(d, e) ==
    IF d.cycle = e.cycle THEN Lexical(d.id, e.id)
    ELSE d.cycle # NoCycle /\ (e.cycle = NoCycle \/ d.cycle < e.cycle)

-----------------------------------------------------------------------------
(* Roles, resolved in the order of their declaration: what a context gives *)
(* for one event (context.one) or for a list of them (context.many).       *)

ValidQueue(queue) == queue.capacity > 0 /\ queue.start \in 0 .. queue.capacity - 1

ValidRole(role) ==
    /\ role.types # {}
    /\ role.min >= 0
    /\ role.copies > 0 /\ (role.copies # 1 => role.many)
    /\ DOMAIN role.exports \cap DOMAIN role.queues = {}
    /\ \A a \in DOMAIN role.queues : ValidQueue(role.queues[a])

\* A condition may use the value of an earlier role.
Resolvable(x, one) == "role" \in DOMAIN x => x.role \in DOMAIN one /\ x.attr \in DOMAIN one[x.role]
Expected(x, one) == IF "role" \in DOMAIN x THEN one[x.role][x.attr] ELSE x.value

Has(e, path) == path \in DOMAIN e.values

Matching(role, trace, one) ==
    {e \in trace : /\ e.type \in role.types
                   /\ role.occurring => e.occurs
                   /\ \A p \in DOMAIN role.where : Has(e, p) /\ e.values[p] = Expected(role.where[p], one)}

\* The first event of every value under the path distinct_by.
Distinct(role, s) ==
    IF role.distinct = {} THEN s
    ELSE LET firsts == {i \in DOMAIN s : \A j \in 1 .. i - 1 : \E p \in role.distinct :
                            s[j].values[p] # s[i].values[p]}
         IN  [i \in 1 .. Cardinality(firsts) |-> s[Sorted(firsts, <)[i]]]

Selected(role, trace, one) ==
    Distinct(role, Sorted(Matching(role, trace, one), Before))

\* A free-running index, counted apart in every group, that wraps at the capacity.
Ordinal(queue, s, i) ==
    Cardinality({j \in 1 .. i - 1 : \A p \in queue.group : s[j].values[p] = s[i].values[p]})

QueueIndex(queue, s, i) == (queue.start + Ordinal(queue, s, i)) % queue.capacity

Item(role, s, i) ==
    Updated(Updated([event_id |-> s[i].id, event_type |-> s[i].type],
                    [a \in DOMAIN role.exports |-> s[i].values[role.exports[a]]]),
            [a \in DOMAIN role.queues |-> QueueIndex(role.queues[a], s, i)])

\* The copies of an event follow one another.
Items(role, s) ==
    [n \in 1 .. Len(s) * role.copies |->
        Put(Item(role, s, (n - 1) \div role.copies + 1), "copy_index", (n - 1) % role.copies)]

Paths(role) == Range(role.exports) \cup UNION {role.queues[a].group : a \in DOMAIN role.queues}

RoleResolves(role, trace, one) ==
    /\ \A p \in DOMAIN role.where : Resolvable(role.where[p], one)
    /\ \A e \in Matching(role, trace, one) : \A p \in role.distinct : Has(e, p)
    /\ LET s == Selected(role, trace, one)
       IN  /\ IF role.many THEN Len(s) >= role.min ELSE Len(s) = 1
           /\ \A i \in DOMAIN s : \A p \in Paths(role) : Has(s[i], p)

Resolve(role, trace, context) ==
    LET s == Selected(role, trace, context.one)
    IN  IF role.many THEN [context EXCEPT !.many = Put(@, role.name, Items(role, s))]
        ELSE [context EXCEPT !.one = Put(@, role.name, Item(role, s, 1))]

-----------------------------------------------------------------------------
(* Templates.  A fragment holds the five list sections of a module; names  *)
(* of slots, cells and rules are templates, and so are those that a        *)
(* constraint, known by the slots it names, refers to.  Ports, types and   *)
(* values of slots and the event types of rules have no placeholders here. *)

IsList(s) == s \in Seq(Range(s))

\* What a template file holds: lists of items, repetitions and axes.
IsFragment(f) ==
    /\ \A section \in {"ports", "slots", "states", "rules", "constraints"} : IsList(f[section])
    /\ \A x \in Range(f.slots) \cup Range(f.rules) : IsList(x.name.args)

IsTemplate(t) ==
    /\ IsFragment(t.base) /\ IsList(t.repeats) /\ IsList(t.products)
    /\ \A r \in Range(t.repeats) : IsFragment(r.include)
    /\ \A p \in Range(t.products) : IsFragment(p.include) /\ IsList(p.axes)

Placeholders(f) ==
    UNION {UNION {ToSet(s.name.args) : s \in ToSet(f.slots)},
           UNION {ToSet(s.args) : s \in ToSet(f.states)},
           UNION {ToSet(r.name.args) : r \in ToSet(f.rules)},
           UNION {UNION {ToSet(s.args) : s \in r.states} : r \in ToSet(f.rules)},
           UNION {UNION {ToSet(n.args) : n \in c} : c \in ToSet(f.constraints)}}

Rendering(f, env) == \A p \in Placeholders(f) : p[1] \in DOMAIN env /\ p[2] \in DOMAIN env[p[1]]

Name(n, env) == <<n.base>> \o [i \in DOMAIN n.args |-> env[n.args[i][1]][n.args[i][2]]]

RenderSlot(s, env) == [name |-> Name(s.name, env), type |-> s.type, cycle |-> s.cycle, values |-> s.values]

RenderRule(r, env) ==
    [name |-> Name(r.name, env), inputs |-> r.inputs, outputs |-> r.outputs,
     states |-> {Name(s, env) : s \in r.states}]

Render(f, env) ==
    [ports |-> f.ports,
     slots |-> [i \in DOMAIN f.slots |-> RenderSlot(f.slots[i], env)],
     states |-> [i \in DOMAIN f.states |-> Name(f.states[i], env)],
     rules |-> [i \in DOMAIN f.rules |-> RenderRule(f.rules[i], env)],
     constraints |-> [i \in DOMAIN f.constraints |-> {Name(n, env) : n \in f.constraints[i]}]]

\* An item is known with its position in the list, also when others are equal to it.
Indexed(item, k) == Put(item, "repeat_index", k - 1)

Repeated(r, context, k) == Put(context.one, r.as, Indexed(context.many[r.over][k], k))

\* One position for every axis, in the order of the combinations.
Positions(p, context) ==
    LET list(i) == context.many[p.axes[i].over]
    IN  {f \in [DOMAIN p.axes -> UNION {DOMAIN list(i) : i \in DOMAIN p.axes}] :
            \A i \in DOMAIN p.axes : f[i] \in DOMAIN list(i)}

ProductIndex(p, context, f) == Cardinality({g \in Positions(p, context) : Lexical(g, f)})

\* Mutant: the position is looked up by value, so that equal items share the first one.
FirstEqualItem(p, context, f, i) ==
    LET c == context.many[p.axes[i].over]
    IN  Indexed(c[f[i]], Min({j \in DOMAIN c : c[j] = c[f[i]]}))

AxisItem(p, context, f, i) == Indexed(context.many[p.axes[i].over][f[i]], f[i])

Combined(p, context, f) ==
    LET n == ProductIndex(p, context, f)
        item(alias) == AxisItem(p, context, f, CHOOSE i \in DOMAIN p.axes : p.axes[i].as = alias)
        items == [alias \in {p.axes[i].as : i \in DOMAIN p.axes} |-> Put(item(alias), "product_index", n)]
    IN  Put(Updated(context.one, items), "product", [repeat_index |-> n])

\* The instances of a template: the template itself, an instance for every item of a
\* repetition, and one for every combination of a product.
Instances(t, context) ==
    {<<"base">>}
        \cup (UNION {{<<"repeat", i, k>> : k \in DOMAIN context.many[t.repeats[i].over]} : i \in DOMAIN t.repeats})
        \cup (UNION {{<<"product", i, f>> : f \in Positions(t.products[i], context)} : i \in DOMAIN t.products})

Fragment(t, x) ==
    IF x[1] = "base" THEN t.base
    ELSE IF x[1] = "repeat" THEN t.repeats[x[2]].include ELSE t.products[x[2]].include

Environment(t, context, x) ==
    IF x[1] = "base" THEN context.one
    ELSE IF x[1] = "repeat" THEN Repeated(t.repeats[x[2]], context, x[3])
    ELSE Combined(t.products[x[2]], context, x[3])

\* Without a repeat section nothing is expanded, and the product section is an unknown key.
Expands(t, context) ==
    /\ t.products # << >> => t.repeats # << >>
    /\ \A r \in ToSet(t.repeats) : r.over \in DOMAIN context.many
    /\ \A p \in ToSet(t.products) :
        /\ p.axes # << >>
        /\ \A a \in ToSet(p.axes) : a.over \in DOMAIN context.many
        /\ IsInjective([i \in DOMAIN p.axes |-> p.axes[i].as])
    /\ \A x \in Instances(t, context) : Rendering(Fragment(t, x), Environment(t, context, x))

\* What a section of the template declares: the items of the section, once for every
\* instance.  Their order does not matter.
Declarations(t, context, section) ==
    UNION {{<<x, i>> : i \in DOMAIN Fragment(t, x)[section]} : x \in Instances(t, context)}

Expand(t, context) ==
    LET rendered == [x \in Instances(t, context) |-> Render(Fragment(t, x), Environment(t, context, x))]
        all(section) == [d \in Declarations(t, context, section) |-> rendered[d[1]][section][d[2]]]
    IN  [ports |-> all("ports"), slots |-> all("slots"), states |-> all("states"), rules |-> all("rules"),
         constraints |-> all("constraints")]
=============================================================================
