----------------------- MODULE MCHierarchicalSearch -----------------------
(***************************************************************************)
(* Up to three programs of every kind, up to two stages, budgets that cut  *)
(* the enumeration off, end exactly with it and exceed it.  The attempts   *)
(* of single programs are varied most, those of sequences of programs less.*)
(***************************************************************************)
EXTENDS HierarchicalSearch

A(coherence, core, retired) == [coherence |-> coherence, core |-> core, retired |-> retired]

Target == "forbidden"
Realized   == A("feasible", "feasible", Target)
Mismatch   == A("feasible", "feasible", "allowed")
CoreFails  == A("feasible", "infeasible", Target)
CoreOpen   == A("feasible", "unknown", Target)
CoreError  == A("feasible", "error", Target)
Unjudged   == A("feasible", "feasible", "refused")
Infeasible == A("infeasible", "feasible", Target)
Open       == A("unknown", "feasible", Target)
Lacking    == A("uninstantiable", "feasible", Target)
Error      == A("error", "feasible", Target)

All == {Realized, Mismatch, CoreFails, CoreOpen, CoreError, Unjudged, Infeasible, Open, Lacking, Error}
Few == {Realized, Mismatch, CoreOpen, Infeasible}

\* The schedules of a stage: one or two, with one or two configurations.
Schedulings == {<<<<a>>>> : a \in All} \cup {<<<<a, b>>>> : a \in All, b \in Few}
                 \cup {<<<<a>>, <<b>>>> : a \in All, b \in Few}

P(valid, verdict, plausible, attempts) ==
    [valid |-> valid, verdict |-> verdict, plausible |-> plausible, attempts |-> attempts]

S(kind, required, limit) ==
    [kind |-> kind, required |-> required, declared |-> TRUE, max_schedules |-> limit]
Private == [S("coherence", TRUE, 1) EXCEPT !.declared = FALSE]

Searching(generation, limit, programs, stages) ==
    [generation |-> generation, target |-> Target, max_assignments |-> limit,
     programs |-> programs, stages |-> stages]

\* One candidate in one stage; a second stage is a gap, or a coherence stage.
Single ==
    {Searching(g, 2, <<P(TRUE, Target, TRUE, <<w>>)>>, <<S(k, TRUE, l)>>) :
        g \in {"explicit", "bounded"}, w \in Schedulings, k \in {"coherence", "boom"}, l \in {1, 2}}

Pairs == {<<S("boom", r, 2), S("coherence", q, 1)>> : r \in BOOLEAN, q \in BOOLEAN} \cup
         {<<S("gap", r, 1), S("boom", q, 1)>> : r \in BOOLEAN, q \in BOOLEAN} \cup
         {<<S("boom", TRUE, 1), Private>>}

Double ==
    {Searching(g, 2, <<P(TRUE, Target, TRUE, <<<<<<a>>, <<b>>>>, <<<<c>>, <<b>>>>>>)>>, stages) :
        g \in {"explicit", "bounded"}, a \in Few, b \in Few, c \in Few,
        stages \in {p \in Pairs : \E i \in {1, 2} : p[i].required}}

\* Programs of every kind; the filtered one could be realized.
Kinds == {P(FALSE, "refused", TRUE, <<<<<<Realized>>>>>>),
          P(TRUE, "refused", TRUE, <<<<<<Realized>>>>>>),
          P(TRUE, "allowed", TRUE, <<<<<<Realized>>>>>>),
          P(TRUE, Target, FALSE, <<<<<<Realized>>>>>>)}
         \cup {P(TRUE, Target, TRUE, <<<<<<a>>>>>>) : a \in Few}
         \cup {P(TRUE, Target, TRUE, <<<<<<Infeasible>>, <<Realized>>>>>>)}

Enumerations ==
    {Searching(g, l, <<p, q, r>>, <<S(k, TRUE, n)>>) :
        g \in {"explicit", "bounded"}, l \in {1, 2, 3, 4}, p \in Kinds, q \in Kinds, r \in Kinds,
        k \in {"boom", "gap"}, n \in {1, 2}}

\* Two candidates, each realized in another stage.
Split(first, second) ==
    <<P(TRUE, Target, TRUE, <<<<<<first[1]>>>>, <<<<first[2]>>>>>>),
      P(TRUE, Target, TRUE, <<<<<<second[1]>>>>, <<<<second[2]>>>>>>)>>

Splits ==
    {Searching("bounded", 3, Split(f, s), <<S("boom", TRUE, 1), S("coherence", TRUE, 1)>>) :
        f \in Few \X Few, s \in Few \X Few}

MCSearch == Single \cup Double \cup Enumerations \cup Splits
=============================================================================
