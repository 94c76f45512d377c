---------------------------- MODULE AttemptTraces ----------------------------
(***************************************************************************)
(* What one attempt to realize a skeleton hands to the two child models,   *)
(* src/src/umcm/search/engine.py: the order of the accesses, the initial   *)
(* state, the events the adapter injects, and the constraints it adds to   *)
(* what the solver has to complete.                                        *)
(*                                                                         *)
(* A skeleton is a record [ops, rf, co, verdict]: the execution graph of   *)
(* the representative candidate.  An event is a record with at least       *)
(* [id, type, cycle]; its identifier is a pair of a prefix and a key.      *)
(***************************************************************************)
EXTENDS BoundedPrograms, SequencesExt

Dynamic(g) == {o \in Ids(g.ops) : g.ops[o].kind # "init_write"}
DynamicReads(g) == Dynamic(g) \cap Reads(g.ops)
InitialOf(g, address) ==
    CHOOSE w \in Ids(g.ops) : g.ops[w].kind = "init_write" /\ g.ops[w].address = address

-----------------------------------------------------------------------------
(* _candidate_schedules: every order of the dynamic operations, those that *)
(* violate the fewest communication edges first, then lexicographically.   *)

\* Mutant: reads-from edges play no part.
PreferredWithoutRf(g) == {e \in g.co \cup Fr(g.ops, g) : {e[1], e[2]} \subseteq Dynamic(g)}

Preferred(g) == {e \in g.rf \cup g.co \cup Fr(g.ops, g) : {e[1], e[2]} \subseteq Dynamic(g)}

Position(order, o) == CHOOSE i \in DOMAIN order : order[i] = o

Violations(preferred, order) ==
    Cardinality({e \in preferred : Position(order, e[1]) >= Position(order, e[2])})

Earlier(a, b) == \E i \in DOMAIN a : a[i] < b[i] /\ \A j \in 1 .. i - 1 : a[j] = b[j]

CandidateSchedules(g, limit) ==
    LET preferred == Preferred(g)
        scored == {<<Violations(preferred, o), o>> : o \in SetToSeqs(Dynamic(g))}
        better(a, b) == a[1] < b[1] \/ (a[1] = b[1] /\ Earlier(a[2], b[2]))
        count == IF limit < Cardinality(scored) THEN limit ELSE Cardinality(scored)
        place(s) == 1 + Cardinality({t \in scored : better(t, s)})
        ranked == {<<place(s), s[2]>> : s \in scored}
    IN  [i \in 1 .. count |-> (CHOOSE r \in ranked : r[1] = i)[2]]

-----------------------------------------------------------------------------
(* Initial states: at most one hart holds the lines, at most one hart has  *)
(* no valid translation.                                                   *)

UsedHarts(g) == {g.ops[o].hart : o \in Dynamic(g)}

PreferredHarts(g) ==
    IF DynamicReads(g) = {} THEN UsedHarts(g) ELSE {g.ops[o].hart : o \in DynamicReads(g)}

Configurations(g) ==
    [warm : PreferredHarts(g) \cup {NoHart}, delayed : PreferredHarts(g) \cup {NoHart}]

Permission(configuration, hart) == IF hart = configuration.warm THEN "B" ELSE "N"

-----------------------------------------------------------------------------
(* _boom_input_trace and, for the coherence slice alone, _coherence_input_trace. *)

Lines(g) ==
    {[id |-> <<"line", w>>, type |-> "line_init", cycle |-> 0, op |-> w,
      address |-> g.ops[w].address, value |-> g.ops[w].value] : w \in Ids(g.ops) \ Dynamic(g)}

InitWrites(g) ==
    {[id |-> <<"arch_init", w>>, type |-> "init", cycle |-> 0, op |-> w,
      address |-> g.ops[w].address, value |-> g.ops[w].value] : w \in Ids(g.ops) \ Dynamic(g)}

\* The instructions are numbered by hart, then by program index.
InstructionNumber(g, o) ==
    Cardinality({p \in Dynamic(g) : \/ g.ops[p].hart < g.ops[o].hart
                                    \/ g.ops[p].hart = g.ops[o].hart /\ g.ops[p].index <= g.ops[o].index})

Instructions(g) ==
    {[id |-> <<"instruction", o>>, type |-> "memory_instruction", cycle |-> InstructionNumber(g, o), op |-> o,
      hart |-> g.ops[o].hart, index |-> g.ops[o].index, address |-> g.ops[o].address,
      kind |-> g.ops[o].kind, value |-> g.ops[o].value] : o \in Dynamic(g)}

Pages(g, configuration) ==
    {[id |-> <<"page", <<g.ops[o].hart, g.ops[o].address>> >>, type |-> "page_map", cycle |-> 0,
      hart |-> g.ops[o].hart, address |-> g.ops[o].address,
      valid |-> g.ops[o].hart # configuration.delayed] : o \in Dynamic(g)}

NoAccess == 0        \* "NONE"

\* A load carries the initial value of its line where a store carries its own.
Accesses(g, stage, order) ==
    {[id |-> <<"access", order[i]>>, type |-> "access",
      cycle |-> stage.cycle_start + (i - 1) * stage.cycle_stride, op |-> order[i],
      hart |-> g.ops[order[i]].hart, address |-> g.ops[order[i]].address, kind |-> g.ops[order[i]].kind,
      write_value |-> IF order[i] \in DynamicReads(g) THEN g.ops[InitialOf(g, g.ops[order[i]].address)].value
                      ELSE g.ops[order[i]].value,
      after |-> IF i = 1 THEN NoAccess ELSE order[i - 1]] : i \in DOMAIN order}

InputTrace(g, stage, order, configuration) ==
    Lines(g) \cup Accesses(g, stage, order)
    \cup (IF stage.kind = "coherence" THEN {}
          ELSE InitWrites(g) \cup Instructions(g) \cup Pages(g, configuration))

CoherenceChildInput(input) == {e \in input : e.type \in {"line_init", "access"}}

-----------------------------------------------------------------------------
(* What the coherence child has to answer.                                 *)

\* _derive_obligations, but for program and preserved order, which restate the program.
Obligations(g) ==
    {[kind |-> "initial_value", op |-> w, value |-> g.ops[w].value] : w \in Ids(g.ops) \ Dynamic(g)}
    \cup {[kind |-> "read_from", op |-> e[2], source |-> e[1], value |-> g.ops[e[2]].value] : e \in g.rf}
    \cup {[kind |-> "write_value", op |-> o, value |-> g.ops[o].value] : o \in Dynamic(g) \ DynamicReads(g)}
    \cup {[kind |-> "coherence_order", from |-> e[1], to |-> e[2]] : e \in g.co}
    \cup {[kind |-> "from_read", from |-> e[1], to |-> e[2]] : e \in Fr(g.ops, g)}

Results(events) == {e \in events : e.type \in {"load_result", "store_result"}}

\* Mutant: no read is asked for its value or source.
CoherenceObligationsForStores(g, events) ==
    \A o \in Dynamic(g) \ DynamicReads(g) : \E e \in Results(events) :
        e.op = o /\ e.address = g.ops[o].address /\ e.value = g.ops[o].value /\ e.source = o

\* A result per operation with its value, a read's from the write the skeleton names.
CoherenceObligations(g, events) ==
    \A o \in Dynamic(g) : \E e \in Results(events) :
        /\ e.op = o /\ e.address = g.ops[o].address /\ e.value = g.ops[o].value
        /\ IF o \in DynamicReads(g) THEN e.type = "load_result" /\ <<e.source, o>> \in g.rf
           ELSE e.type = "store_result" /\ e.source = o

Traffic == {"acquire", "probe", "grant"}

Refilled(events, op) == \E e \in Results(events) : e.op = op /\ e.path = "refill"

\* Mutant: a result of any path justifies the traffic.
ProtocolOfAnyPath(events) ==
    /\ \A e \in events : e.type \in Traffic => \E r \in Results(events) : r.op = e.txn
    /\ \A e \in events : e.type = "probe" => e.requester # e.target

\* Optional TileLink slots: no traffic but that of a refill, no probe of the requester.
ProtocolWellFormed(events) ==
    /\ \A e \in events : e.type \in Traffic => Refilled(events, e.txn)
    /\ \A e \in events : e.type = "probe" => e.requester # e.target

-----------------------------------------------------------------------------
(* From one child to the other, and back together.                         *)

RetimeOffset == 20

Retime(events) ==
    {[e EXCEPT !.cycle = IF e.cycle > 0 THEN e.cycle + RetimeOffset ELSE e.cycle] : e \in events}

BridgeTypes == {"access", "load_result", "store_result"} \cup Traffic

CoreInput(input, coherence) ==
    LET source == {e \in input : e.type \in {"init", "memory_instruction", "page_map"}} IN
    source \cup {e \in coherence : e.type \in BridgeTypes /\ e.id \notin {s.id : s \in source}}

\* Mutant: an operation may retire with any value.
RetirementOfPlace(g, o, events) ==
    \E e \in events :
        /\ e.id = <<"arch", o>>
        /\ e.hart = g.ops[o].hart /\ e.index = g.ops[o].index /\ e.address = g.ops[o].address

\* The architectural event is that of the instruction, with the value of the skeleton:
\* a load's is in its commit.
Retirement(g, o, events) ==
    \E e \in events :
        /\ e.id = <<"arch", o>>
        /\ e.hart = g.ops[o].hart /\ e.index = g.ops[o].index /\ e.address = g.ops[o].address
        /\ IF o \in DynamicReads(g)
           THEN \E c \in events : c.id = <<"commit", o>> /\ c.value = g.ops[o].value
           ELSE e.value = g.ops[o].value

\* No recovery, one TLB miss per hart and page, MSHR activity only for a refilled load,
\* load-load evidence only of an older and a younger instruction.
CoreWellFormed(events) ==
    /\ \A e \in events : e.type # "recovery"
    /\ \A e, f \in events : e.type = "tlb_miss" /\ f.type = "tlb_miss" /\ e # f =>
        e.hart # f.hart \/ e.address # f.address
    /\ \A e \in events : e.type = "mshr" =>
        \E r \in events : r.type = "load_result" /\ r.op = e.op /\ r.path = "refill"
    /\ \A e \in events : e.type = "ldld" =>
        \E s, t \in {i \in events : i.type = "memory_instruction"} :
            /\ e.older = s.op /\ e.younger = t.op
            /\ s.hart = t.hart /\ s.address = t.address /\ s.index < t.index

\* _merge_completed_traces: an event both children know is the same in both.
Mergeable(left, right) == \A e \in left, f \in right : e.id = f.id => e = f

\* _check_completed_architecture: what the program retires, without any evidence.
RetiredTrace(events) ==
    LET arch(e) == SearchEvent(e.id, e.type, [address |-> e.address, value |-> e.value,
                       hart |-> IF e.type = "init" THEN NoHart ELSE e.hart], e.op,
                       IF e.type = "init" THEN 0 ELSE e.index)
    IN  [events |-> {arch(e) : e \in {f \in events : f.type \in {"init", "load", "store", "commit"}}},
         hints |-> [name \in {"addr", "data", "ctrl", "fence", "pair", "pipeline"} |-> {}],
         rfHints |-> {}, coHints |-> {}]
=============================================================================
