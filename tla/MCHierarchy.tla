----------------------------- MODULE MCHierarchy -----------------------------
(***************************************************************************)
(* A queue of loads with two entries and the memory it is connected to.    *)
(* The queue gets a slot and a cell for every load of the trace, and a     *)
(* rule for every pair of loads; the memory may select a replayed load,    *)
(* which the second composition takes for a load of the trace.  A project  *)
(* differs from the usual one in one or two parts.                         *)
(***************************************************************************)
EXTENDS Hierarchy

MCCatalog ==
    [load |-> [op |-> "op", line |-> "int"], miss |-> [op |-> "op"],
     request |-> [op |-> "op", line |-> "int"], accept |-> [op |-> "op"],
     grant |-> [op |-> "int"], done |-> [op |-> "op"]]

Empty == [x \in {} |-> 0]
Bare == [ports |-> << >>, slots |-> << >>, states |-> << >>, rules |-> << >>, constraints |-> << >>]

\* Numbers stand for the constant parts of names.
T(base, args) == [base |-> base, args |-> args]
Miss == 1   Cell == 2   Pair == 3   Accept == 4   Grant == 5   Done == 6   Replay == 7   Wire == 8

Load(i, op, cycle, occurs) ==
    [id |-> <<0, i>>, type |-> "load", cycle |-> cycle, occurs |-> occurs,
     values |-> [op |-> op, line |-> 1], owner |-> {}, public |-> FALSE]

Observed == [Load(9, 1, 1, TRUE) EXCEPT !.type = "miss", !.values = [op |-> 1]]

Traces ==
    {{Load(1, 1, 1, TRUE), Load(2, 2, 2, TRUE)}, {Load(1, 1, 1, TRUE), Load(2, 1, 1, TRUE)},
     {Load(1, 1, NoCycle, TRUE), Load(2, 2, 0, FALSE)}, {Load(1, 1, 1, TRUE), Observed},
     {Load(1, 1, 1, TRUE), Load(2, 2, 2, TRUE), Load(3, 3, 3, TRUE)}, {}}

Role(name, many) ==
    [name |-> name, types |-> {"load"}, where |-> Empty, occurring |-> TRUE, distinct |-> {},
     many |-> many, min |-> 1, exports |-> [op |-> "op"], copies |-> 1,
     queues |-> IF many THEN [entry |-> [group |-> {}, start |-> 1, capacity |-> 2]] ELSE Empty]

LoadRole == Role("loads", TRUE)
FirstLoad == [Role("first", FALSE) EXCEPT !.where = [op |-> [value |-> 1]]]
Same == [LoadRole EXCEPT !.where = [op |-> [role |-> "first", attr |-> "op"]]]

RoleLists ==
    {<<LoadRole>>, <<FirstLoad, Same>>, <<Same, FirstLoad>>, <<[LoadRole EXCEPT !.distinct = {"line"}]>>,
     <<[LoadRole EXCEPT !.copies = 2]>>, <<[LoadRole EXCEPT !.queues.entry.group = {"op"}]>>,
     <<[LoadRole EXCEPT !.occurring = FALSE, !.min = 2]>>, << >>}

Port(name, type, output, required) ==
    [name |-> name, type |-> type, output |-> output, required |-> required, enabled |-> TRUE]
Slot(name, type, cycle) == [name |-> name, type |-> type, cycle |-> cycle, values |-> [op |-> 1]]
Rule(name, inputs, outputs, states) ==
    [name |-> name, inputs |-> inputs, outputs |-> outputs, states |-> states]

PerLoad(attr) ==
    [over |-> "loads", as |-> "load",
     include |-> [Bare EXCEPT !.slots = <<Slot(T(Miss, << <<"load", attr>> >>), "miss", 1)>>,
                              !.states = <<T(Cell, << <<"load", "entry">> >>)>>,
                              !.constraints = <<{T(Miss, << <<"load", attr>> >>)}>>]]

PerPair(attr) ==
    [axes |-> <<[over |-> "loads", as |-> "older"], [over |-> "loads", as |-> "younger"]>>,
     include |-> [Bare EXCEPT !.rules =
        <<Rule(T(Pair, << <<"older", attr>>, <<"younger", attr>> >>), {"load", "miss"}, {"request"},
               {T(Cell, << <<"older", "entry">> >>)})>>]]

Queue(repeats, products) ==
    [name |-> "queue", declared |-> "queue", internal |-> {"miss"}, repeats |-> repeats, products |-> products,
     base |-> [Bare EXCEPT !.ports = <<Port("issue", "load", FALSE, FALSE), Port("send", "request", TRUE, FALSE),
                                       Port("fill", "grant", FALSE, FALSE)>>]]

UsualQueue == Queue(<<PerLoad("entry")>>, <<PerPair("repeat_index")>>)

Memory(type, internal, rules) ==
    [name |-> "memory", declared |-> "memory", internal |-> internal, repeats |-> << >>, products |-> << >>,
     base |-> [Bare EXCEPT !.ports = <<Port("take", type, FALSE, TRUE)>>,
                           !.slots = <<[Slot(T(Replay, << >>), "load", 0) EXCEPT !.values = [op |-> 2, line |-> 1]],
                                       Slot(T(Accept, << >>), type, 2)>>,
                           !.rules = rules]]

UsualMemory == Memory("request", {}, << >>)

\* The miss slots of another module, and slots that are private here and public there.
Granting ==
    [name |-> "memory", declared |-> "memory", internal |-> {}, products |-> << >>,
     repeats |-> <<[PerLoad("op") EXCEPT !.include = [Bare EXCEPT
                    !.slots = <<Slot(T(Grant, << <<"load", "op">> >>), "grant", 1)>>]]>>,
     base |-> [UsualMemory.base EXCEPT !.slots = SubSeq(@, 1, 1)]]

\* A memory that constrains the slots of the queue, and one that names no slot at all.
Constraining(name) ==
    [UsualMemory EXCEPT !.repeats =
        <<[PerLoad("entry") EXCEPT !.include = [Bare EXCEPT !.constraints = <<{name, T(Accept, << >>)}>>]]>>]
Sibling == Constraining(T(Miss, << <<"load", "entry">> >>))
Dangling == Constraining(T(Done, << >>))

ModuleLists ==
    {<<Queue(<<PerLoad(a)>>, <<PerPair(b)>>), UsualMemory>> :
        a \in {"entry", "op", "repeat_index"}, b \in {"repeat_index", "op", "product_index"}}
    \cup {<<UsualQueue, m>> : m \in
        {Memory("accept", {}, << >>), Granting, Sibling, Dangling, [UsualMemory EXCEPT !.declared = "cache"],
         Memory("request", {"miss"}, <<Rule(T(Done, << >>), {"miss"}, {"load"}, {})>>),
         Memory("request", {}, <<Rule(T(Wire, << >>), {"miss"}, {"request"}, {})>>),
         Memory("request", {"fault"}, << >>),
         Memory("accept", {}, <<Rule(T(Wire, << >>), {"accept"}, {}, {})>>),
         Memory("request", {}, <<Rule(T(Done, << >>), {"request"}, {}, {T(Cell, << >>)})>>)}}
    \cup {<<Queue(<< >>, <<PerPair("repeat_index")>>), UsualMemory>>, <<UsualMemory>>,
          <<UsualMemory, [UsualQueue EXCEPT !.base = [@ EXCEPT !.slots = UsualMemory.base.slots]]>>,
          <<[UsualMemory EXCEPT !.name = "queue", !.declared = "queue"]>>}

Connection(name, port, shared, map) ==
    [name |-> name, source |-> [module |-> "queue", port |-> port], target |-> [module |-> "memory", port |-> "take"],
     shared |-> shared, map |-> map]

ConnectionLists ==
    {<<Connection(Wire, p, s, Empty)>> : p \in {"send", "issue", "fault"}, s \in BOOLEAN}
    \cup {<<Connection(Wire, "send", FALSE, [op |-> f])>> : f \in {"op", "line"}}
    \cup {<<Connection(Wire, "send", FALSE, Empty), Connection(Wire + i, "send", TRUE, Empty)>> : i \in 0 .. 1}
    \cup {<<Connection(Wire, "send", TRUE, [op |-> "op"])>>, << >>}

\* Summaries.
Op(v) == [op |-> [var |-> v]]
SummaryRule(first, second, base) ==
    [name |-> base, roles |-> <<[type |-> first, fields |-> Op("o")], [type |-> second, fields |-> Op("o")]>>,
     ordered |-> TRUE, strict |-> FALSE, distinct |-> TRUE, hide |-> TRUE, min |-> 0, max |-> 2,
     output |-> [base |-> base, vars |-> <<"o">>, type |-> "done", cycleOf |-> {1, 2}, first |-> FALSE,
                 fields |-> Op("o")]]

Pairs == SummaryRule("load", "miss", Done)
Loops == SummaryRule("load", "load", Done)

SpecOf(rules, keep, types, ids) == [rules |-> rules, keep |-> keep, types |-> types, ids |-> ids]

Abstractions ==
    {SpecOf(<<r>>, k, ts, {}) : k \in BOOLEAN, ts \in {{}, {"load"}}, r \in
        {Pairs, [Pairs EXCEPT !.hide = FALSE], [Pairs EXCEPT !.min = 3], [Pairs EXCEPT !.strict = TRUE, !.min = 1],
         [Loops EXCEPT !.ordered = FALSE, !.max = 1], [Loops EXCEPT !.distinct = FALSE],
         [Pairs EXCEPT !.output = [@ EXCEPT !.base = 0, !.cycleOf = {}]],
         [Pairs EXCEPT !.output = [@ EXCEPT !.fields = [op |-> [role |-> 1, field |-> "line"]], !.first = TRUE]]}}
    \cup {SpecOf(<<Pairs, SummaryRule("load", "request", Done)>>, TRUE, {}, {<<0, 1>>})}

Usual ==
    [parameters |-> Empty, lists |-> Empty, events |-> {Load(1, 1, 1, TRUE), Load(2, 2, 2, TRUE)}, claims |-> {{<<0, 1>>}, {<<0, 1>>, <<0, 2>>}},
     roles |-> <<LoadRole>>, modules |-> <<UsualQueue, UsualMemory>>,
     connections |-> <<Connection(Wire, "send", TRUE, Empty)>>, constraints |-> {}, strict |-> TRUE,
     abstraction |-> SpecOf(<<Pairs>>, TRUE, {}, {})]

\* Constraints of the composition, on slots and on operations.
Constraints == {{}, {{<<Miss, 0>>}}, {{<<Accept>>, <<0, 1>>}}, {{<<Accept>>}, {<<Replay>>}}, {{<<0, 7>>}}}

\* Entries that are given as a parameter may be equal.
Entries == {<<[op |-> 1, entry |-> i], [op |-> 1, entry |-> j]>> : i, j \in 0 .. 1}

Variants ==
    {[Usual EXCEPT !.events = e, !.roles = r] : e \in Traces, r \in RoleLists}
    \cup {[Usual EXCEPT !.modules = m, !.connections = c] : m \in ModuleLists, c \in ConnectionLists}
    \cup {[Usual EXCEPT !.modules = m, !.events = e, !.roles = <<[LoadRole EXCEPT !.distinct = d]>>,
                        !.connections = <<Connection(Wire, "send", TRUE, Empty)>>] :
            m \in ModuleLists, e \in Traces, d \in {{}, {"line"}}}
    \cup {[Usual EXCEPT !.constraints = c, !.strict = s, !.events = e] :
            c \in Constraints, s \in BOOLEAN, e \in {Usual.events, {Load(1, 1, 1, TRUE)}}}
    \cup {[Usual EXCEPT !.abstraction = a, !.events = e] : a \in Abstractions, e \in Traces}
    \cup {[Usual EXCEPT !.parameters = [loads |-> [op |-> 1]], !.roles = r] : r \in {<< >>, <<LoadRole>>}}
    \cup {[Usual EXCEPT !.lists = [loads |-> l], !.roles = << >>] : l \in Entries}
    \cup {[Usual EXCEPT !.roles = r] : r \in {<<LoadRole, LoadRole>>, <<[LoadRole EXCEPT !.queues.entry.start = 2]>>}}

MCProjects == {[p EXCEPT !.claims = {c \in @ : c \subseteq Ids(p.events)}] : p \in Variants}
=============================================================================
