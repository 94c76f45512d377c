------------------------------ MODULE MCRvwmo ------------------------------
(***************************************************************************)
(* Two harts with two operations each (1, 2 and 3, 4) and up to two        *)
(* initial writes (5 for address 0, 6 for address 1).  Every write stores  *)
(* its own identifier, so a read's value names its source.                 *)
(***************************************************************************)
EXTENDS RvwmoCheck, TLC

MCNoHart == 0

Hart(i) == IF i \in {1, 2} THEN 1 ELSE IF i \in {3, 4} THEN 2 ELSE MCNoHart

\* The operation i of kind k on address a; sync is "acqrel" for an annotated one.
Op(i, k, a, v, sync) ==
    [kind |-> IF k \in {"lr"} THEN "read" ELSE IF k = "sc" THEN "write" ELSE k,
     address |-> a, bytes |-> {0}, value |-> IF k \in {"read", "lr", "amo"} THEN v ELSE i,
     write_value |-> i, hart |-> Hart(i), index |-> i,
     atomic |-> IF k \in {"amo", "lr", "sc"} THEN k ELSE "ordinary",
     acquire |-> sync = "acqrel" /\ k \in {"read", "lr"},
     release |-> sync = "acqrel" /\ k \in {"write", "sc"},
     rcsc |-> FALSE, regular |-> TRUE]

Reading(k) == k \in {"read", "lr", "amo"}
Writing(k) == k \in {"write", "sc", "amo"}

\* Every graph of a program: kinds and addresses of 1..4, every source of every
\* read, every coherence order, with the initial writes some read takes (or all).
GraphsOf(kind, addr, sync, hints, allInits) ==
    LET init(a) == 5 + a
        W(a) == {i \in 1 .. 4 : Writing(kind[i]) /\ addr[i] = a}
        R == {i \in 1 .. 4 : Reading(kind[i])}
        Sources == {f \in [R -> 1 .. 6] : \A r \in R :
                        f[r] # r /\ f[r] \in W(addr[r]) \cup {init(addr[r])}}
        Orders(a) == {f \in [W(a) -> 1 .. 4] : f = [i \in W(a) |-> Cardinality({j \in W(a) : f[j] <= f[i]})]
                        /\ \A i, j \in W(a) : f[i] = f[j] => i = j}
        Inits(f) == {init(a) : a \in {b \in {0, 1} :
                        \/ allInits /\ \E i \in 1 .. 4 : addr[i] = b
                        \/ \E r \in R : f[r] = init(b)}}
        OpsOf(f) == [i \in 1 .. 4 |-> Op(i, kind[i], addr[i], IF i \in R THEN f[i] ELSE 0, sync[Hart(i)])]
                    @@ [i \in Inits(f) |-> Op(i, "init_write", i - 5, i, "none")]
        Co(f, x, y) ==
            {e \in W(0) \X W(0) : x[e[1]] < x[e[2]]} \cup {e \in W(1) \X W(1) : y[e[1]] < y[e[2]]} \cup
            {e \in Inits(f) \X (1 .. 4) : e[2] \in W(e[1] - 5)}
    IN  {[ops |-> OpsOf(f), rel |-> hints @@ [rf |-> {<<f[r], r>> : r \in R}, co |-> Co(f, x, y)]] :
            f \in Sources, x \in Orders(0), y \in Orders(1)}

Pair(h) == IF h = 1 THEN <<1, 2>> ELSE <<3, 4>>

\* What the front-end supplies: a fence or a syntactic dependency per hart, LR/SC pairs.
Hints(sync, kind) ==
    LET on(s) == {Pair(h) : h \in {g \in 1 .. 2 : sync[g] = s}}
    IN  [fence |-> on("fence"), addr |-> on("addr"), data |-> on("data"), ctrl |-> on("ctrl"),
         pipeline |-> {},
         pair |-> {p \in {<<1, 2>>, <<3, 4>>} : kind[p[1]] = "lr" /\ kind[p[2]] = "sc"}]

\* The graphs of a program with the hints of its annotations.
ProgramGraphs(kind, addr, sync, allInits) == GraphsOf(kind, addr, sync, Hints(sync, kind), allInits)


\* Ways a graph file can be wrong: each but the last is found by validation, the
\* last, a pair edge that is not LR->SC, by the LR/SC axiom.
Broken(g) ==
    {[g EXCEPT !.rel.co = {}],                                  \* not total
     [g EXCEPT !.rel.co = @ \cup {<<e[2], e[1]>> : e \in @}],    \* both directions
     [g EXCEPT !.rel.rf = {}],                                  \* a read without a source
     [g EXCEPT !.ops[2].value = 9],                             \* rf with unequal values
     [g EXCEPT !.ops[2].bytes = {0, 1}],                        \* partial overlap
     [g EXCEPT !.ops[2].index = 1],                             \* shared program_index
     [g EXCEPT !.ops[2].regular = FALSE],                       \* an I/O access
     [g EXCEPT !.rel.fence = {<<1, 3>>}],                       \* a hint across harts
     [g EXCEPT !.rel.pair = {<<1, 2>>}]}

\* One location: reads, writes, at most one AMO; an LR/SC pair against plain
\* accesses; an SC without its LR; and malformed graphs.
OneLocation ==
    LET plain == {"read", "write"}
        kinds == (plain \X plain \X plain \X plain)
            \cup (plain \X {"amo"} \X plain \X plain)
            \cup ({"lr"} \X {"sc"} \X plain \X {"write", "amo"})
            \cup {<<"lr", "sc", "lr", "sc">>, <<"write", "sc", "read", "write">>}
        same == <<0, 0, 0, 0>>
    IN  UNION ({ProgramGraphs(k, same, s, TRUE) :
                    k \in kinds, s \in {<<"none", "none">>, <<"fence", "fence">>}}
               \cup {Broken(g) : g \in ProgramGraphs(<<"write", "read", "write", "read">>, same,
                                                     <<"none", "none">>, TRUE)})


\* Two locations: the litmus shapes (message passing, store and load buffering, 2+2W,
\* S, R), each hart with a fence, an annotation or a dependency between its accesses.
Litmus ==
    LET plain == {"read", "write"}
    IN  UNION {ProgramGraphs(k, a, <<s, t>>, FALSE) :
            k \in plain \X plain \X plain \X plain, a \in {<<0, 1, 0, 1>>, <<0, 1, 1, 0>>},
            s \in {"none", "fence", "acqrel", "data"}, t \in {"none", "fence", "addr"}}

MCGraphs == UNION {OneLocation, Litmus}
=============================================================================
