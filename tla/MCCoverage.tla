----------------------------- MODULE MCCoverage -----------------------------
(***************************************************************************)
(* One model with two inputs and two goals.  The command is observed, the  *)
(* refill and the response are slots.  A guarded rule may be bound to      *)
(* either slot, a second rule writes the cell in two ways, a third has no  *)
(* binding.  The second input has no activations of the guarded rule; its  *)
(* solver may give up.                                                     *)
(***************************************************************************)
EXTENDS Coverage

CONSTANT anyState

Events == {[id |-> "c", type |-> "Command"], [id |-> "f", type |-> "Refill"],
           [id |-> "d", type |-> "Response"]}
Activations == {[id |-> "a1", rule |-> "retry", guarded |-> TRUE],
                [id |-> "a2", rule |-> "retry", guarded |-> TRUE],
                [id |-> "a3", rule |-> "respond", guarded |-> FALSE]}
Updates == {[id |-> "u1", state |-> "busy"], [id |-> "u2", state |-> "busy"]}

Write(from, to) == [from |-> from, to |-> to]

World(occurs, matched, permitted, written, last) ==
    [occurs |-> occurs, matched |-> matched, permitted |-> permitted, written |-> written, last |-> last]

Nothing == << >>
One == [u \in {"u1"} |-> Write(0, 1)]
Two == [u \in {"u1", "u2"} |-> IF u = "u1" THEN Write(0, 1) ELSE Write(1, 1)]
Back == [u \in {"u2"} |-> Write(1, 0)]

Pool == {World({"c"}, {}, {"a1", "a2"}, Nothing, 0),
         World({"c", "d"}, {"a1", "a3"}, {"a1"}, One, 1),
         World({"c", "d"}, {"a1"}, {}, Back, 2),
         World({"c", "f", "d"}, {"a1", "a2", "a3"}, {"a1"}, Two, 1),
         World({"c", "f"}, {"a2", "a3"}, {"a1", "a2"}, One, 3)}

Few(S, n) == {T \in SUBSET S : Cardinality(T) <= n}

MCCase(name, activations, worlds, hard) ==
    [model |-> "m", name |-> name, events |-> Events, slots |-> {"f", "d"},
     activations |-> activations, updates |-> Updates,
     rules |-> {"retry", "respond", "flush"}, ports |-> [p \in {"out", "in"} |->
        IF p = "out" THEN "Response" ELSE "Request"],
     private |-> {"Refill", "Wakeup"}, worlds |-> worlds, hard |-> hard]

\* In the second input the guarded rule matches nothing.
Without(w) == [w EXCEPT !.matched = @ \ {"a1", "a2"}]

Probe(kind, names) == [kind |-> kind, names |-> names]
Transition(from, to) == [kind |-> "state_transition", names |-> {"busy"}, from |-> from, to |-> to]

Probes == {Probe("event", {"Refill", "Wakeup"}), Probe("transformation", {"retry"}),
           Probe("interface", {"in"}), Transition(0, 1), Transition(AnyState, 1), Transition(1, 0)}

MCGoal(n, inputs, probes) ==
    [id |-> <<"goal", n>>, model |-> "m", inputs |-> inputs, probes |-> probes]

Selector(kind, include) ==
    [model |-> "m", kind |-> kind, include |-> include, exclude |-> {"respond"}, inputs |-> {}]

MCSuite(cs, gs, selectors, backend, declared) ==
    [cases |-> cs, goals |-> gs, selectors |-> selectors, backend |-> backend,
     declared |-> [m \in {"m"} |-> declared]]

TwoCases(worlds, others, hard) ==
    <<MCCase("x", Activations, worlds, FALSE),
      MCCase("y", {a \in Activations : ~ a.guarded}, {Without(w) : w \in others}, hard)>>

Others == {{}, {World({"c", "d"}, {"a3"}, {}, One, 2), World({"c"}, {}, {}, Back, 0)}}

Explicit ==
    {MCSuite(TwoCases(ws, os, h), <<MCGoal(1, {}, <<p>>), MCGoal(2, is, <<q, Transition(AnyState, 1)>>)>>,
             << >>, b, {"Command"}) :
        ws \in Few(Pool, 2), os \in Others, h \in BOOLEAN, p \in Probes, q \in Probes,
        is \in {{}, {"y"}}, b \in {"z3", "finite"}}

Kinds == {<<"transformation", {"retry", "respond", "flush"}>>, <<"public_interface", {"out", "in"}>>,
          <<"private_event", {"Refill", "Wakeup"}>>}

Generated ==
    {MCSuite(TwoCases(ws, {}, FALSE), gs, <<Selector(k[1], k[2])>>, "z3", declared) :
        ws \in Few(Pool, 2), k \in Kinds, declared \in {{"Command"}, {"Response"}},
        gs \in {<< >>, <<MCGoal(1, {}, <<Transition(0, 1)>>)>>, <<MCGoal(1, {"z"}, <<Transition(0, 1)>>)>>,
                <<MCGoal(1, {}, <<Transition(0, 1)>>), MCGoal(1, {}, <<Transition(1, 0)>>)>>}}

AllSuites == UNION {Explicit, Generated}

\* Two names that agree in the characters that may be part of an id.
MCSafe(n) == IF n = "Wakeup" THEN "Refill" ELSE n
=============================================================================
