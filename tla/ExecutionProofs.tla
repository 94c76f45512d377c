--------------------------- MODULE ExecutionProofs ---------------------------
(***************************************************************************)
(* Proofs about ExecutionCandidates, ModelPreservation and                 *)
(* RealizationAttempt: that the candidates of a trace are its executions   *)
(* (the sources read by read, the orders address by address, where a       *)
(* coherent order comes from the ranks that counting predecessors gives),  *)
(* hence what its verdict and a refusal mean; that the signature of a      *)
(* judged execution decides its verdict; that the reductions of the        *)
(* bounded search lose no outcome; and what an attempt to realize a        *)
(* skeleton guarantees: what it retires is the skeleton, what its memory   *)
(* performs is an execution of the program, the first of its schedules     *)
(* needs no second one, and what it reports is so.                         *)
(***************************************************************************)
EXTENDS ModelPreservation, RealizationAttempt, FiniteSetTheorems, TLAPS

-----------------------------------------------------------------------------
(* The operations of a supported trace. *)

Located ==
    /\ Ids(ops) \subseteq Nat
    /\ IsFiniteSet(Ids(ops))
    /\ \A i \in Ids(ops) : ops[i].kind \in {"init_write", "read", "write"} /\ ops[i].atomic # "amo"
    /\ \A i, j \in Ids(ops) : SameLocation(ops[i], ops[j]) <=> ops[i].address = ops[j].address

LEMMA OperationsAreLocated ==
    ASSUME Supported(trace), ops = Operations(trace.events)
    PROVE  Located
<1> DEFINE A == Architectural(trace.events)
<1>1. IsFiniteSet(A)
  BY FS_Subset DEF Supported, Architectural
<1>2. Ids(ops) = {e.op : e \in A}
  BY DEF Ids, Operations
<1>3. IsFiniteSet(Ids(ops)) /\ Ids(ops) \subseteq Nat
  <2> DEFINE name == [e \in A |-> e.op]
  <2>1. name \in Surjection(A, Ids(ops))
    BY <1>2 DEF Surjection
  <2>2. Ids(ops) \subseteq Nat
    BY <1>2 DEF Supported
  <2> HIDE DEF name, A
  <2> QED
    BY <1>1, <2>1, <2>2, FS_Surjection
<1>4. ASSUME NEW i \in Ids(ops)
      PROVE  \E e \in A : /\ ops[i].address = e.address /\ ops[i].bytes = e.bytes
                          /\ ops[i].kind \in {"init_write", "read", "write"} /\ ops[i].atomic # "amo"
  <2> DEFINE e == CHOOSE f \in A : f.op = i
  <2>1. e \in A
    BY <1>2, <1>4
  <2>2. ops[i] = Operation(trace.events, e)
    BY <1>2, <1>4 DEF Operations
  <2>3. e.type # "amo"
    BY <2>1 DEF Supported
  <2> HIDE DEF e, A
  <2>4. /\ ops[i].address = e.address /\ ops[i].bytes = e.bytes
        /\ ops[i].kind \in {"init_write", "read", "write"} /\ ops[i].atomic # "amo"
    BY <2>2, <2>3 DEF Operation
  <2> QED
    BY <2>1, <2>4
<1>5. ASSUME NEW i \in Ids(ops), NEW j \in Ids(ops)
      PROVE  SameLocation(ops[i], ops[j]) <=> ops[i].address = ops[j].address
  <2>1. PICK e \in A : ops[i].address = e.address /\ ops[i].bytes = e.bytes
    BY <1>4
  <2>2. PICK f \in A : ops[j].address = f.address /\ ops[j].bytes = f.bytes
    BY <1>4
  <2>3. Footprint(ops[i]) = Footprint(e) /\ Footprint(ops[j]) = Footprint(f)
    BY <2>1, <2>2 DEF Footprint
  <2> QED
    BY <2>1, <2>2, <2>3 DEF Supported, SameLocation
<1> QED
  BY <1>3, <1>4, <1>5 DEF Located

-----------------------------------------------------------------------------
(* The sources of the reads. *)

RfCandidates ==
    {{<<f[r], r>> : r \in Reads(ops)} :
        f \in {h \in [Reads(ops) -> Writes(ops)] : \A r \in Reads(ops) : h[r] \in RfChoices(r)}}

RfExecutions ==
    {rf \in {{<<f[r], r>> : r \in Reads(ops)} :
                f \in {g \in [Reads(ops) -> Writes(ops)] :
                        \A h \in trace.rfHints : h.read \in Reads(ops) => g[h.read] = h.write}} :
        ValidRf(ops, [rf |-> rf])}

\* What a set of edges with one source for every read has to satisfy.
LEMMA SourcesAgree ==
    ASSUME Located, NEW f \in [Reads(ops) -> Writes(ops)]
    PROVE  ValidRf(ops, [rf |-> {<<f[r], r>> : r \in Reads(ops)}])
           <=> \A r \in Reads(ops) : f[r] \in Agreeing(r)
<1> DEFINE rf == {<<f[r], r>> : r \in Reads(ops)}
<1>1. rf \subseteq Writes(ops) \X Reads(ops)
  OBVIOUS
<1>2. \A r \in Reads(ops) : \E w \in Writes(ops) : \A v \in Writes(ops) : <<v, r>> \in rf <=> v = w
  <2> SUFFICES ASSUME NEW r \in Reads(ops)
               PROVE  \A v \in Writes(ops) : <<v, r>> \in rf <=> v = f[r]
    OBVIOUS
  <2> QED
    OBVIOUS
<1>3. ASSUME NEW r \in Reads(ops)
      PROVE  f[r] \in Agreeing(r)
             <=> /\ f[r] # r
                 /\ SameLocation(ops[f[r]], ops[r])
                 /\ StoredValue(ops[f[r]]) = ops[r].value
  <2>1. f[r] \in Writes(ops) /\ f[r] \in Ids(ops) /\ r \in Ids(ops)
    BY DEF Writes, Reads
  <2> QED
    BY <2>1 DEF Located, Agreeing
<1>4. (\A e \in rf : /\ e[1] # e[2]
                     /\ SameLocation(ops[e[1]], ops[e[2]])
                     /\ StoredValue(ops[e[1]]) = ops[e[2]].value)
      <=> \A r \in Reads(ops) : f[r] \in Agreeing(r)
  <2>1. \A e \in rf : \E r \in Reads(ops) : e = <<f[r], r>>
    OBVIOUS
  <2>2. \A r \in Reads(ops) : <<f[r], r>> \in rf /\ <<f[r], r>>[1] = f[r] /\ <<f[r], r>>[2] = r
    OBVIOUS
  <2> HIDE DEF rf
  <2>3. ASSUME \A e \in rf : /\ e[1] # e[2]
                             /\ SameLocation(ops[e[1]], ops[e[2]])
                             /\ StoredValue(ops[e[1]]) = ops[e[2]].value,
               NEW r \in Reads(ops)
        PROVE  f[r] \in Agreeing(r)
    <3>1. /\ <<f[r], r>>[1] # <<f[r], r>>[2]
          /\ SameLocation(ops[<<f[r], r>>[1]], ops[<<f[r], r>>[2]])
          /\ StoredValue(ops[<<f[r], r>>[1]]) = ops[<<f[r], r>>[2]].value
      BY <2>2, <2>3
    <3> QED
      BY <2>2, <3>1, <1>3
  <2>4. ASSUME \A r \in Reads(ops) : f[r] \in Agreeing(r), NEW e \in rf
        PROVE  /\ e[1] # e[2]
               /\ SameLocation(ops[e[1]], ops[e[2]])
               /\ StoredValue(ops[e[1]]) = ops[e[2]].value
    BY <2>1, <2>4, <1>3
  <2> QED
    BY <2>3, <2>4
<1> HIDE DEF rf
<1>5. [rf |-> rf].rf = rf
  OBVIOUS
<1>6. ValidRf(ops, [rf |-> rf]) <=> \A r \in Reads(ops) : f[r] \in Agreeing(r)
  BY <1>1, <1>2, <1>4, <1>5 DEF ValidRf
<1> QED
  BY <1>6 DEF rf

\* The choices of a read are the agreeing writes that its evidence allows.
LEMMA ChoicesFollowHints ==
    ASSUME ~ RfInconsistent, NEW f \in [Reads(ops) -> Writes(ops)]
    PROVE  (\A r \in Reads(ops) : f[r] \in RfChoices(r))
           <=> /\ \A r \in Reads(ops) : f[r] \in Agreeing(r)
               /\ \A h \in trace.rfHints : h.read \in Reads(ops) => f[h.read] = h.write
<1>1. ASSUME NEW r \in Reads(ops), f[r] \in RfChoices(r)
      PROVE  f[r] \in Agreeing(r) /\ \A h \in trace.rfHints : h.read = r => f[r] = h.write
  BY <1>1 DEF RfInconsistent, RfChoices, HintsFor
<1>2. ASSUME NEW r \in Reads(ops), f[r] \in Agreeing(r),
             \A h \in trace.rfHints : h.read = r => f[r] = h.write
      PROVE  f[r] \in RfChoices(r)
  BY <1>2 DEF RfChoices, HintsFor
<1> QED
  BY <1>1, <1>2

LEMMA SourcesAreComplete ==
    ASSUME Located, ~ RfInconsistent
    PROVE  RfCandidates = RfExecutions
<1> DEFINE Edges(f) == {<<f[r], r>> : r \in Reads(ops)}
           F == [Reads(ops) -> Writes(ops)]
           Chosen(f) == \A r \in Reads(ops) : f[r] \in RfChoices(r)
           Hinted(f) == \A h \in trace.rfHints : h.read \in Reads(ops) => f[h.read] = h.write
<1>1. \A f \in F : Chosen(f) <=> Hinted(f) /\ ValidRf(ops, [rf |-> Edges(f)])
  <2> TAKE f \in F
  <2>1. ValidRf(ops, [rf |-> Edges(f)]) <=> \A r \in Reads(ops) : f[r] \in Agreeing(r)
    BY SourcesAgree
  <2> QED
    BY <2>1, ChoicesFollowHints
<1>2. RfCandidates = {Edges(f) : f \in {h \in F : Chosen(h)}}
  BY DEF RfCandidates
<1>3. RfExecutions = {rf \in {Edges(f) : f \in {h \in F : Hinted(h)}} : ValidRf(ops, [rf |-> rf])}
  BY DEF RfExecutions
<1> HIDE DEF Edges, F, Chosen, Hinted
<1> QED
  BY <1>1, <1>2, <1>3

-----------------------------------------------------------------------------
\* A non-empty set of naturals has a least element: the intervals up to its elements
\* are finite sets, and strict inclusion of finite sets is well-founded.
LEMMA LeastNatural ==
    ASSUME NEW S \in SUBSET Nat, S # {}
    PROVE  \E n \in S : \A m \in S : n <= m
<1> DEFINE T == {0 .. n : n \in S}
<1>1. T # {} /\ T \subseteq FiniteSubsetsOf(Nat)
  <2>1. \A n \in S : IsFiniteSet(0 .. n) /\ 0 .. n \in SUBSET Nat
    BY FS_Interval
  <2> QED
    BY <2>1, Zenon DEF FiniteSubsetsOf
<1>2. PICK t \in T : \A u \in T : ~ (<<u, t>> \in StrictSubsetOrdering(Nat))
  <2> HIDE DEF T
  <2> QED
    BY <1>1, WFMin, FS_StrictSubsetOrderingWellFounded
<1>3. PICK n \in S : t = 0 .. n
  OBVIOUS
<1>4. ASSUME NEW m \in S, m < n PROVE <<0 .. m, 0 .. n>> \in StrictSubsetOrdering(Nat)
  <2>1. 0 .. m \subseteq 0 .. n /\ 0 .. n \subseteq Nat /\ n \in 0 .. n /\ n \notin 0 .. m
    BY <1>4
  <2> QED
    BY <2>1 DEF StrictSubsetOrdering
<1>5. \A m \in S : ~ (m < n)
  BY <1>2, <1>3, <1>4, Zenon
<1> QED
  BY <1>5

-----------------------------------------------------------------------------
(* A strict total order of finitely many naturals comes from a ranking. *)

StrictTotal(S, R) ==
    /\ \A i, j \in S : <<i, j>> \in R => <<j, i>> \notin R
    /\ \A i, j \in S : i # j => <<i, j>> \in R \/ <<j, i>> \in R
    /\ \A i, j, k \in S : <<i, j>> \in R /\ <<j, k>> \in R => <<i, k>> \in R

\* The number of predecessors orders a set as the relation does.
LEMMA Counting ==
    ASSUME NEW S, IsFiniteSet(S), NEW R, StrictTotal(S, R)
    PROVE  \E rank \in [S -> 0 .. Cardinality(S) - 1] :
              /\ \A i \in S : rank[i] = Cardinality({j \in S : <<j, i>> \in R})
              /\ \A i, j \in S : <<i, j>> \in R <=> rank[i] < rank[j]
<1> DEFINE Below(i) == {j \in S : <<j, i>> \in R}
           rank == [i \in S |-> Cardinality(Below(i))]
<1>1. ASSUME NEW i \in S
      PROVE  IsFiniteSet(Below(i)) /\ Cardinality(Below(i)) \in 0 .. Cardinality(S) - 1
  <2>1. Below(i) \in SUBSET S /\ i \notin Below(i)
    BY DEF StrictTotal
  <2> HIDE DEF Below
  <2>2. Below(i) # S
    BY <2>1
  <2>3. Cardinality(S) \in Nat /\ IsFiniteSet(Below(i)) /\ Cardinality(Below(i)) \in Nat
    BY <2>1, FS_Subset, FS_CardinalityType
  <2>4. Cardinality(Below(i)) <= Cardinality(S) /\ Cardinality(Below(i)) # Cardinality(S)
    BY <2>1, <2>2, FS_Subset
  <2> QED
    BY <2>3, <2>4
<1>2. ASSUME NEW i \in S, NEW j \in S, <<i, j>> \in R
      PROVE  Cardinality(Below(i)) < Cardinality(Below(j))
  <2>1. Below(i) \in SUBSET Below(j) /\ i \in Below(j) /\ i \notin Below(i)
    BY <1>2 DEF StrictTotal
  <2>2. IsFiniteSet(Below(i)) /\ IsFiniteSet(Below(j))
    BY <1>1
  <2> HIDE DEF Below
  <2>3. Cardinality(Below(i)) <= Cardinality(Below(j)) /\ Cardinality(Below(i)) # Cardinality(Below(j))
    BY <2>1, <2>2, FS_Subset
  <2>4. Cardinality(Below(i)) \in Nat /\ Cardinality(Below(j)) \in Nat
    BY <2>2, FS_CardinalityType
  <2> QED
    BY <2>3, <2>4
<1> HIDE DEF Below
<1>3. rank \in [S -> 0 .. Cardinality(S) - 1]
  BY <1>1
<1>4. ASSUME NEW i \in S, NEW j \in S
      PROVE  <<i, j>> \in R <=> rank[i] < rank[j]
  <2>1. rank[i] \in Nat /\ rank[j] \in Nat
    BY <1>1
  <2>2. CASE <<i, j>> \in R
    BY <1>2, <2>2
  <2>3. CASE i = j
    BY <2>1, <2>3 DEF StrictTotal
  <2>4. CASE <<j, i>> \in R
    BY <1>2, <2>1, <2>4 DEF StrictTotal
  <2> QED
    BY <2>2, <2>3, <2>4 DEF StrictTotal
<1>5. \A i \in S : rank[i] = Cardinality({j \in S : <<j, i>> \in R})
  BY DEF Below
<1> HIDE DEF rank
<1> QED
  BY <1>3, <1>4, <1>5

\* Naturals ordered by a relation are ranked by naturals of the same set.
LEMMA Ranking ==
    ASSUME NEW S \in SUBSET Nat, IsFiniteSet(S), NEW R, StrictTotal(S, R)
    PROVE  \E f \in [S -> S] : \A i, j \in S : <<i, j>> \in R <=> f[i] < f[j]
<1> DEFINE Less == {e \in S \X S : e[1] < e[2]}
           places == 0 .. Cardinality(S) - 1
<1>1. StrictTotal(S, Less)
  BY DEF StrictTotal
<1>2. PICK rank \in [S -> places] : \A i, j \in S : <<i, j>> \in R <=> rank[i] < rank[j]
  BY Counting
<1>3. \E p \in [S -> places] : \A i, j \in S : <<i, j>> \in Less <=> p[i] < p[j]
  <2> HIDE DEF Less
  <2> QED
    BY <1>1, Counting
<1>4. PICK place \in [S -> places] : \A i, j \in S : i < j <=> place[i] < place[j]
  BY <1>3
<1>5. Cardinality(S) \in Nat
  BY FS_CardinalityType, Zenon
<1>6. IsFiniteSet(places) /\ Cardinality(places) = Cardinality(S)
  <2> DEFINE n == Cardinality(S)
  <2>1. 0 \in Int /\ n - 1 \in Int
    BY <1>5
  <2>2. /\ IsFiniteSet(0 .. n - 1)
        /\ Cardinality(0 .. n - 1) = IF 0 > n - 1 THEN 0 ELSE (n - 1) - 0 + 1
    BY <2>1, FS_Interval, Zenon
  <2>3. (IF 0 > n - 1 THEN 0 ELSE (n - 1) - 0 + 1) = n
    BY <1>5
  <2> QED
    BY <2>2, <2>3
<1>7. place \in Injection(S, places)
  <2>1. \A i, j \in S : place[i] = place[j] => i = j
    <3> SUFFICES ASSUME NEW i \in S, NEW j \in S, place[i] = place[j] PROVE i = j
      OBVIOUS
    <3>1. place[i] \in Int /\ place[j] \in Int /\ i \in Int /\ j \in Int
      BY <1>5
    <3>2. ~ (i < j) /\ ~ (j < i)
      BY <1>4, <3>1
    <3> QED
      BY <3>1, <3>2
  <2>2. place \in [S -> places]
    OBVIOUS
  <2> HIDE DEF places
  <2> QED
    BY <2>1, <2>2, Zenon DEF Injection, IsInjective
<1>8. place \in Surjection(S, places)
  BY <1>6, <1>7, FS_Injection, Zenon
<1> HIDE DEF places
<1> DEFINE f == [i \in S |-> CHOOSE k \in S : place[k] = rank[i]]
<1>9. ASSUME NEW i \in S
      PROVE  f[i] \in S /\ place[f[i]] = rank[i]
  BY <1>8 DEF Surjection
<1> HIDE DEF f
<1>10. ASSUME NEW i \in S, NEW j \in S
       PROVE  <<i, j>> \in R <=> f[i] < f[j]
  <2>1. /\ f[i] \in S /\ place[f[i]] = rank[i]
        /\ f[j] \in S /\ place[f[j]] = rank[j]
    BY <1>9, Zenon
  <2>2. f[i] < f[j] <=> rank[i] < rank[j]
    BY <1>4, <2>1
  <2> QED
    BY <1>2, <2>2
<1>11. f \in [S -> S]
  BY <1>9 DEF f
<1> QED
  BY <1>10, <1>11

-----------------------------------------------------------------------------
(* The orders of the writes. *)

CoCandidates ==
    {UNION {g[a] : a \in Addresses} :
        g \in {h \in [Addresses -> UNION {CoChoices(a) : a \in Addresses}] :
                    \A a \in Addresses : h[a] \in CoChoices(a)}}

Colocated == {e \in Writes(ops) \X Writes(ops) : e[1] # e[2] /\ ops[e[1]].address = ops[e[2]].address}

CoEvidence == {<<h.before, h.after>> : h \in trace.coHints}

CoExecutions ==
    {c \in SUBSET Colocated : CoEvidence \subseteq c /\ ValidCo(ops, [co |-> c])}

HintsPlaced ==
    \A h \in trace.coHints : {h.before, h.after} \subseteq Initial(h.address) \cup Ordinary(h.address)

\* Validity of a coherence order, with locations told apart by their addresses.
Coherent(c) ==
    /\ c \subseteq Writes(ops) \X Writes(ops)
    /\ \A e \in c : e[1] # e[2] /\ ops[e[1]].address = ops[e[2]].address
    /\ \A v, w \in Writes(ops) : v # w /\ ops[v].address = ops[w].address =>
        (<<v, w>> \in c <=> <<w, v>> \notin c)
    /\ ~ Cyclic(Ids(ops), c)
    /\ \A v, w \in Writes(ops) :
        ops[v].kind = "init_write" /\ v # w /\ ops[v].address = ops[w].address => <<v, w>> \in c

LEMMA ValidIsCoherent ==
    ASSUME Located, NEW c
    PROVE  ValidCo(ops, [co |-> c]) <=> Coherent(c)
<1>1. \A v, w \in Writes(ops) : SameLocation(ops[v], ops[w]) <=> ops[v].address = ops[w].address
  BY DEF Located, Writes
<1>2. ASSUME c \subseteq Writes(ops) \X Writes(ops)
      PROVE  (\A e \in c : e[1] # e[2] /\ SameLocation(ops[e[1]], ops[e[2]]))
             <=> \A e \in c : e[1] # e[2] /\ ops[e[1]].address = ops[e[2]].address
  <2>1. \A e \in c : e[1] \in Writes(ops) /\ e[2] \in Writes(ops)
    BY <1>2
  <2> QED
    BY <1>1, <2>1
<1>3. [co |-> c].co = c
  OBVIOUS
<1> QED
  BY <1>1, <1>2, <1>3 DEF ValidCo, Coherent

LEMMA WritesOfAddress ==
    ASSUME Located
    PROVE  /\ \A a : /\ WritesAt(a) = Initial(a) \cup Ordinary(a)
                     /\ WritesAt(a) \in SUBSET Nat /\ WritesAt(a) \subseteq Writes(ops)
                     /\ IsFiniteSet(WritesAt(a))
           /\ \A w \in Writes(ops) : ops[w].address \in Addresses /\ w \in WritesAt(ops[w].address)
           /\ Writes(ops) \subseteq Ids(ops)
<1>1. ASSUME NEW a
      PROVE  /\ WritesAt(a) = Initial(a) \cup Ordinary(a)
             /\ WritesAt(a) \in SUBSET Nat /\ WritesAt(a) \subseteq Writes(ops)
             /\ IsFiniteSet(WritesAt(a))
  <2>1. WritesAt(a) \in SUBSET Ids(ops) /\ WritesAt(a) \subseteq Writes(ops)
    BY DEF WritesAt, Writes
  <2>2. IsFiniteSet(WritesAt(a)) /\ WritesAt(a) \in SUBSET Nat
    BY <2>1, FS_Subset DEF Located
  <2>3. WritesAt(a) = Initial(a) \cup Ordinary(a)
    BY DEF Located, WritesAt, Initial, Ordinary, Writes, IsWrite
  <2> QED
    BY <2>1, <2>2, <2>3
<1>2. \A w \in Writes(ops) : ops[w].address \in Addresses /\ w \in WritesAt(ops[w].address)
  BY DEF Addresses, WritesAt
<1>3. Writes(ops) \subseteq Ids(ops)
  BY DEF Writes
<1> QED
  BY <1>1, <1>2, <1>3

\* What a coherent order says of one address is one of its choices.
LEMMA CoherentIsChosen ==
    ASSUME Located, HintsPlaced, NEW c, Coherent(c), CoEvidence \subseteq c, NEW a
    PROVE  c \cap (WritesAt(a) \X WritesAt(a)) \in CoChoices(a)
<1> DEFINE W == WritesAt(a)
           R == c \cap (W \X W)
           edges == (Initial(a) \X Ordinary(a)) \cup
                    {<<h.before, h.after>> : h \in {g \in trace.coHints : g.address = a}}
<1>1. W = Initial(a) \cup Ordinary(a) /\ W \in SUBSET Nat /\ IsFiniteSet(W)
  BY WritesOfAddress
<1>2. \A w \in W : w \in Writes(ops) /\ ops[w].address = a /\ w \in Ids(ops)
  BY DEF WritesAt, Writes
<1> HIDE DEF W
<1>3. StrictTotal(W, R)
  <2>1. ASSUME NEW i \in W, NEW j \in W, <<i, j>> \in R PROVE <<j, i>> \notin R
    <3>1. i # j
      BY <2>1 DEF Coherent
    <3> QED
      BY <2>1, <3>1, <1>2 DEF Coherent
  <2>2. ASSUME NEW i \in W, NEW j \in W, i # j PROVE <<i, j>> \in R \/ <<j, i>> \in R
    BY <2>2, <1>2 DEF Coherent
  <2>3. ASSUME NEW i \in W, NEW j \in W, NEW k \in W, <<i, j>> \in R, <<j, k>> \in R
        PROVE  <<i, k>> \in R
    <3>1. i # k
      BY <2>1, <2>3
    <3>2. ASSUME <<k, i>> \in R PROVE FALSE
      <4>1. PredecessorClosed({i, j, k}, c)
        BY <2>3, <3>2 DEF PredecessorClosed
      <4>2. {i, j, k} \in SUBSET Ids(ops) /\ {i, j, k} # {}
        BY <1>2
      <4> QED
        BY <4>1, <4>2 DEF Coherent, Cyclic
    <3> QED
      BY <2>2, <3>1, <3>2
  <2> HIDE DEF R
  <2> QED
    BY <2>1, <2>2, <2>3 DEF StrictTotal
<1>4. PICK f \in [W -> W] : \A i, j \in W : <<i, j>> \in R <=> f[i] < f[j]
  BY <1>1, <1>3, Ranking
<1>5. \A i, j \in W : f[i] = f[j] => i = j
  <2> SUFFICES ASSUME NEW i \in W, NEW j \in W, f[i] = f[j], i # j PROVE FALSE
    OBVIOUS
  <2>1. <<i, j>> \in R \/ <<j, i>> \in R
    BY <1>3 DEF StrictTotal
  <2>2. f[i] \in Nat /\ f[j] \in Nat
    BY <1>1
  <2> QED
    BY <1>4, <2>1, <2>2
<1>6. \A e \in edges : f[e[1]] < f[e[2]]
  <2>1. ASSUME NEW v \in Initial(a), NEW w \in Ordinary(a) PROVE f[v] < f[w]
    <3>1. v \in W /\ w \in W /\ v # w /\ ops[v].kind = "init_write"
      BY <1>1 DEF Initial, Ordinary
    <3>2. <<v, w>> \in R
      BY <1>2, <3>1 DEF Coherent
    <3> QED
      BY <1>4, <3>1, <3>2
  <2>2. ASSUME NEW h \in trace.coHints, h.address = a PROVE f[h.before] < f[h.after]
    <3>1. h.before \in W /\ h.after \in W
      BY <1>1, <2>2 DEF HintsPlaced
    <3>2. <<h.before, h.after>> \in R
      BY <3>1 DEF CoEvidence
    <3> QED
      BY <1>4, <3>1, <3>2
  <2>3. \A e \in edges : \/ \E v \in Initial(a), w \in Ordinary(a) : e = <<v, w>>
                         \/ \E h \in trace.coHints : h.address = a /\ e = <<h.before, h.after>>
    OBVIOUS
  <2> HIDE DEF edges
  <2> QED
    BY <2>1, <2>2, <2>3
<1>7. R = {e \in W \X W : f[e[1]] < f[e[2]]}
  <2>1. \A e \in W \X W : e \in R <=> f[e[1]] < f[e[2]]
    <3> TAKE e \in W \X W
    <3>1. e = <<e[1], e[2]>> /\ e[1] \in W /\ e[2] \in W
      OBVIOUS
    <3> HIDE DEF R
    <3> QED
      BY <1>4, <3>1
  <2> QED
    BY <2>1
<1>8. CoChoices(a) = TotalOrders(W, edges)
  BY <1>1 DEF CoChoices
<1> HIDE DEF R, edges
<1>9. R \in TotalOrders(W, edges)
  BY <1>5, <1>6, <1>7 DEF TotalOrders
<1> QED
  BY <1>8, <1>9 DEF R, W

LEMMA ExecutionsAreChosen ==
    ASSUME Located, HintsPlaced
    PROVE  CoExecutions \subseteq CoCandidates
<1> SUFFICES ASSUME NEW c \in CoExecutions PROVE c \in CoCandidates
  OBVIOUS
<1>1. Coherent(c) /\ CoEvidence \subseteq c
  BY ValidIsCoherent DEF CoExecutions
<1> DEFINE part(a) == c \cap (WritesAt(a) \X WritesAt(a))
           g == [a \in Addresses |-> part(a)]
<1>2. \A a \in Addresses : g[a] \in CoChoices(a)
  BY <1>1, CoherentIsChosen
<1>3. g \in [Addresses -> UNION {CoChoices(a) : a \in Addresses}]
  BY <1>2
<1>4. c = UNION {g[a] : a \in Addresses}
  <2>1. ASSUME NEW e \in c PROVE \E a \in Addresses : e \in part(a)
    <3>1. /\ e[1] \in Writes(ops) /\ e[2] \in Writes(ops) /\ e = <<e[1], e[2]>>
          /\ ops[e[1]].address = ops[e[2]].address
      BY <1>1 DEF Coherent
    <3>2. ops[e[1]].address \in Addresses /\ e \in part(ops[e[1]].address)
      BY <3>1, WritesOfAddress
    <3> QED
      BY <3>2
  <2>2. \A a \in Addresses : part(a) \subseteq c
    OBVIOUS
  <2>3. \A a \in Addresses : g[a] = part(a)
    OBVIOUS
  <2> HIDE DEF g, part
  <2> QED
    BY <2>1, <2>2, <2>3
<1> HIDE DEF g
<1> QED
  BY <1>2, <1>3, <1>4, Zenon DEF CoCandidates

\* Orders of single addresses, put together, contradict neither each other nor the evidence.
LEMMA ChosenIsCoherent ==
    ASSUME Located, ~ CoInconsistent
    PROVE  CoCandidates \subseteq CoExecutions
<1> SUFFICES ASSUME NEW c \in CoCandidates PROVE c \in CoExecutions
  OBVIOUS
<1>1. PICK g : /\ \A a \in Addresses : g[a] \in CoChoices(a)
               /\ c = UNION {g[a] : a \in Addresses}
  BY DEF CoCandidates
<1> DEFINE edges(a) == (Initial(a) \X Ordinary(a)) \cup
                       {<<h.before, h.after>> : h \in {k \in trace.coHints : k.address = a}}
           Ranks(a, f) == /\ f \in [WritesAt(a) -> WritesAt(a)]
                          /\ \A e \in edges(a) : f[e[1]] < f[e[2]]
                          /\ \A i, j \in WritesAt(a) : f[i] = f[j] => i = j
                          /\ g[a] = {e \in WritesAt(a) \X WritesAt(a) : f[e[1]] < f[e[2]]}
<1>2. ASSUME NEW a \in Addresses PROVE \E f : Ranks(a, f)
  <2>1. g[a] \in TotalOrders(WritesAt(a), edges(a))
    BY <1>1, WritesOfAddress DEF CoChoices
  <2> QED
    BY <2>1 DEF TotalOrders
<1>3. ASSUME NEW v \in Writes(ops), NEW w \in Writes(ops), ops[v].address = ops[w].address, NEW f,
             Ranks(ops[v].address, f)
      PROVE  <<v, w>> \in c <=> f[v] < f[w]
  <2> DEFINE a == ops[v].address
  <2>1. v \in WritesAt(a) /\ w \in WritesAt(a) /\ a \in Addresses
    BY <1>3, WritesOfAddress
  <2>2. <<v, w>> \in g[a] <=> f[v] < f[w]
    BY <1>3, <2>1
  <2>3. ASSUME NEW b \in Addresses, <<v, w>> \in g[b] PROVE b = a
    <3>1. v \in WritesAt(b)
      BY <1>2, <2>3
    <3> QED
      BY <3>1 DEF WritesAt
  <2> HIDE DEF a
  <2> QED
    BY <1>1, <2>1, <2>2, <2>3
<1>4. ASSUME NEW e \in c
      PROVE  /\ e[1] \in Writes(ops) /\ e[2] \in Writes(ops) /\ e = <<e[1], e[2]>>
             /\ ops[e[1]].address = ops[e[2]].address /\ e[1] # e[2]
  <2>1. PICK a \in Addresses : e \in g[a]
    BY <1>1
  <2>2. PICK f : Ranks(a, f)
    BY <1>2
  <2>3. e \in WritesAt(a) \X WritesAt(a) /\ f[e[1]] < f[e[2]]
    BY <2>1, <2>2
  <2>4. WritesAt(a) \in SUBSET Nat /\ f \in [WritesAt(a) -> WritesAt(a)]
    BY <2>2, WritesOfAddress
  <2> HIDE DEF Ranks
  <2>5. e[1] # e[2]
    <3>1. e[1] \in WritesAt(a) /\ f[e[1]] \in Nat
      BY <2>3, <2>4
    <3> QED
      BY <2>3, <3>1
  <2> QED
    BY <2>3, <2>5 DEF WritesAt
<1>5. \A v, w \in Writes(ops) : v # w /\ ops[v].address = ops[w].address =>
        (<<v, w>> \in c <=> <<w, v>> \notin c)
  <2> SUFFICES ASSUME NEW v \in Writes(ops), NEW w \in Writes(ops), v # w, ops[v].address = ops[w].address
               PROVE  <<v, w>> \in c <=> <<w, v>> \notin c
    OBVIOUS
  <2> DEFINE a == ops[v].address
  <2>1. v \in WritesAt(a) /\ w \in WritesAt(a) /\ a \in Addresses /\ WritesAt(a) \in SUBSET Nat
    BY WritesOfAddress
  <2>2. PICK f : Ranks(a, f)
    BY <2>1, <1>2
  <2>3. f[v] \in Nat /\ f[w] \in Nat /\ f[v] # f[w]
    BY <2>1, <2>2
  <2>4. (<<v, w>> \in c <=> f[v] < f[w]) /\ (<<w, v>> \in c <=> f[w] < f[v])
    <3> HIDE DEF Ranks
    <3> QED
      BY <1>3, <2>2
  <2> QED
    BY <2>3, <2>4
<1>6. ~ Cyclic(Ids(ops), c)
  <2> SUFFICES ASSUME NEW S \in SUBSET Ids(ops), S # {}, PredecessorClosed(S, c) PROVE FALSE
    BY DEF Cyclic
  <2>1. PICK n \in S : TRUE
    OBVIOUS
  <2>2. PICK m \in S : <<m, n>> \in c
    BY DEF PredecessorClosed
  <2> DEFINE a == ops[n].address
             V == {k \in S : k \in WritesAt(a)}
  <2>3. n \in Writes(ops) /\ a \in Addresses /\ WritesAt(a) \in SUBSET Nat /\ n \in V
    BY <1>4, <2>2, WritesOfAddress
  <2>4. PICK f : Ranks(a, f)
    BY <1>2, <2>3
  <2> DEFINE ranks == {f[k] : k \in V}
  <2>5. ranks \in SUBSET Nat /\ ranks # {}
    BY <2>3, <2>4
  <2>6. PICK k \in V : \A j \in V : f[k] <= f[j]
    <3>1. PICK r \in ranks : \A q \in ranks : r <= q
      BY <2>5, LeastNatural
    <3> QED
      BY <3>1
  <2>7. k \in Writes(ops) /\ ops[k].address = a /\ k \in S
    BY DEF WritesAt
  <2>8. PICK j \in S : <<j, k>> \in c
    BY <2>7 DEF PredecessorClosed
  <2>9. j \in Writes(ops) /\ ops[j].address = a
    BY <1>4, <2>7, <2>8
  <2>10. j \in V
    BY <2>9, WritesOfAddress
  <2>11. f[j] < f[k]
    BY <1>3, <2>4, <2>7, <2>8, <2>9
  <2>12. f[j] \in Nat /\ f[k] \in Nat
    BY <2>3, <2>4, <2>10
  <2> QED
    BY <2>6, <2>10, <2>11, <2>12
<1>7. \A v, w \in Writes(ops) :
        ops[v].kind = "init_write" /\ v # w /\ ops[v].address = ops[w].address => <<v, w>> \in c
  <2> SUFFICES ASSUME NEW v \in Writes(ops), NEW w \in Writes(ops), ops[v].kind = "init_write", v # w,
                      ops[v].address = ops[w].address
               PROVE  <<v, w>> \in c
    OBVIOUS
  <2> DEFINE a == ops[v].address
  <2>1. v \in Initial(a) /\ w \in WritesAt(a) /\ a \in Addresses /\ WritesAt(a) = Initial(a) \cup Ordinary(a)
    BY WritesOfAddress DEF Initial
  <2>2. w \notin Initial(a)
    <3> SUFFICES ASSUME w \in Initial(a) PROVE FALSE
      OBVIOUS
    <3>1. IsFiniteSet(Initial(a)) /\ {v, w} \in SUBSET Initial(a)
      BY <2>1, WritesOfAddress, FS_Subset DEF Initial
    <3>2. Cardinality({v, w}) = 2
      <4>1. IsFiniteSet({v}) /\ Cardinality({v}) = 1
        BY FS_Singleton
      <4>2. {v, w} = {v} \cup {w} /\ w \notin {v}
        OBVIOUS
      <4>3. Cardinality({v} \cup {w}) = Cardinality({v}) + 1
        BY <4>1, <4>2, FS_AddElement, Zenon
      <4> QED
        BY <4>1, <4>2, <4>3
    <3>3. Cardinality({v, w}) <= Cardinality(Initial(a)) /\ Cardinality(Initial(a)) \in Nat
      BY <3>1, FS_Subset, FS_CardinalityType
    <3>4. Cardinality(Initial(a)) > 1
      BY <3>2, <3>3, SMTT(30)
    <3> QED
      BY <2>1, <3>4 DEF CoInconsistent
  <2>3. PICK f : Ranks(a, f)
    BY <1>2, <2>1
  <2>4. <<v, w>> \in edges(a) /\ <<v, w>>[1] = v /\ <<v, w>>[2] = w
    BY <2>1, <2>2
  <2>5. f[v] < f[w]
    BY <2>3, <2>4
  <2> HIDE DEF Ranks, edges
  <2> QED
    BY <1>3, <2>3, <2>5
<1>8. CoEvidence \subseteq c
  <2> SUFFICES ASSUME NEW h \in trace.coHints PROVE <<h.before, h.after>> \in c
    BY DEF CoEvidence
  <2> DEFINE a == h.address
  <2>1. h.before \in WritesAt(a) /\ h.after \in WritesAt(a)
    BY DEF CoInconsistent
  <2>2. h.before \in Writes(ops) /\ h.after \in Writes(ops) /\ ops[h.before].address = a /\ ops[h.after].address = a
    BY <2>1 DEF WritesAt
  <2>3. a \in Addresses
    BY <2>2 DEF Addresses
  <2>4. PICK f : Ranks(a, f)
    BY <1>2, <2>3
  <2>5. /\ <<h.before, h.after>> \in edges(a)
        /\ <<h.before, h.after>>[1] = h.before /\ <<h.before, h.after>>[2] = h.after
    OBVIOUS
  <2>6. f[h.before] < f[h.after]
    BY <2>4, <2>5
  <2> HIDE DEF Ranks, edges
  <2> QED
    BY <1>3, <2>2, <2>4, <2>6
<1>9. c \in SUBSET Colocated
  BY <1>4 DEF Colocated
<1>10. Coherent(c)
  <2>1. c \subseteq Writes(ops) \X Writes(ops)
    BY <1>4
  <2> QED
    BY <1>4, <1>5, <1>6, <1>7, <2>1 DEF Coherent
<1> QED
  BY <1>8, <1>9, <1>10, ValidIsCoherent DEF CoExecutions

-----------------------------------------------------------------------------
(* The candidates are the executions. *)

LEMMA CandidatesArePairs ==
    Candidates = {[rf |-> p[1], co |-> p[2]] : p \in RfCandidates \X CoCandidates}
<1> DEFINE F == {h \in [Reads(ops) -> Writes(ops)] : \A r \in Reads(ops) : h[r] \in RfChoices(r)}
           G == {h \in [Addresses -> UNION {CoChoices(a) : a \in Addresses}] :
                    \A a \in Addresses : h[a] \in CoChoices(a)}
           Rf(f) == {<<f[r], r>> : r \in Reads(ops)}
           Co(g) == UNION {g[a] : a \in Addresses}
<1>1. Candidates = {[rf |-> Rf(f), co |-> Co(g)] : f \in F, g \in G}
  BY DEF Candidates
<1>2. RfCandidates = {Rf(f) : f \in F} /\ CoCandidates = {Co(g) : g \in G}
  BY DEF RfCandidates, CoCandidates
<1> HIDE DEF F, G, Rf, Co
<1>3. ASSUME NEW x \in Candidates
      PROVE  \E p \in RfCandidates \X CoCandidates : x = [rf |-> p[1], co |-> p[2]]
  <2>1. PICK f \in F, g \in G : x = [rf |-> Rf(f), co |-> Co(g)]
    BY <1>1
  <2>2. <<Rf(f), Co(g)>> \in RfCandidates \X CoCandidates
    BY <1>2
  <2> QED
    BY <2>1, <2>2
<1>4. ASSUME NEW p \in RfCandidates \X CoCandidates
      PROVE  [rf |-> p[1], co |-> p[2]] \in Candidates
  <2>1. PICK f \in F, g \in G : p[1] = Rf(f) /\ p[2] = Co(g)
    BY <1>2
  <2> QED
    BY <1>1, <2>1
<1> QED
  BY <1>3, <1>4

LEMMA ExecutionsArePairs ==
    Executions = {[rf |-> p[1], co |-> p[2]] : p \in RfExecutions \X CoExecutions}
<1>1. Executions = {[rf |-> rf, co |-> co] : rf \in RfExecutions, co \in CoExecutions}
  BY DEF Executions, RfExecutions, CoExecutions, Colocated, CoEvidence
<1>2. ASSUME NEW x \in Executions
      PROVE  \E p \in RfExecutions \X CoExecutions : x = [rf |-> p[1], co |-> p[2]]
  <2>1. PICK rf \in RfExecutions, co \in CoExecutions : x = [rf |-> rf, co |-> co]
    BY <1>1
  <2>2. <<rf, co>> \in RfExecutions \X CoExecutions
    OBVIOUS
  <2> QED
    BY <2>1, <2>2
<1>3. ASSUME NEW p \in RfExecutions \X CoExecutions
      PROVE  [rf |-> p[1], co |-> p[2]] \in Executions
  BY <1>1
<1> QED
  BY <1>2, <1>3

\* The hints of a consistent trace are about ordinary and initial writes.
LEMMA ConsistentIsPlaced ==
    ASSUME ~ CoInconsistent
    PROVE  HintsPlaced
BY DEF CoInconsistent, HintsPlaced

LEMMA CandidatesAreExecutions ==
    ASSUME Located, ~ RfInconsistent, ~ CoInconsistent
    PROVE  Candidates = Executions
<1>1. RfCandidates = RfExecutions
  BY SourcesAreComplete
<1>2. CoCandidates = CoExecutions
  BY ExecutionsAreChosen, ChosenIsCoherent, ConsistentIsPlaced
<1> QED
  BY <1>1, <1>2, CandidatesArePairs, ExecutionsArePairs

-----------------------------------------------------------------------------
(* What is said of a trace depends on the trace, the model and the operations alone. *)

RelationsOf(t, c) == Extended(t.hints, c)

WitnessOf(o, r) == CHOOSE g \in Witnesses(o, r) : TRUE

TableOf(t, m, o, c) ==
    Extended(t.hints, IF m.builtin = "rvwmo"
                      THEN RvwmoTable(o, RelationsOf(t, c), WitnessOf(o, RelationsOf(t, c)))
                      ELSE BaseTable(o, RelationsOf(t, c), m.rules))

PassesOf(t, m, o, c) ==
    /\ m.builtin = "rvwmo" =>
        Passed(Judgement(o, RelationsOf(t, c), WitnessOf(o, RelationsOf(t, c))))
    /\ \A axiom \in m.axioms : AxiomHolds(axiom, WithDerived(TableOf(t, m, o, c), m.derived), Ids(o))

UnjudgeableOf(t, m, o, c) ==
    \/ ~ DistinctIndexes(o)
    \/ m.builtin = "rvwmo" /\ ~ (ValidGraph(o, RelationsOf(t, c)) /\ ValidPairs(o, RelationsOf(t, c)))
    \/ ~ Derivable(m.derived, DOMAIN TableOf(t, m, o, c))
    \/ \E axiom \in m.axioms :
        ~ axiom.relations \subseteq DOMAIN WithDerived(TableOf(t, m, o, c), m.derived)

LEMMA MeaningOf ==
    /\ \A c : Table(c) = TableOf(trace, model, ops, c)
    /\ \A c : Passes(c) <=> PassesOf(trace, model, ops, c)
    /\ \A c : Unjudgeable(c) <=> UnjudgeableOf(trace, model, ops, c)
BY DEF Table, TableOf, Passes, PassesOf, Unjudgeable, UnjudgeableOf, Relations, RelationsOf, Witness, WitnessOf

LEMMA CandidatesAt == Candidates = At(trace, model, ops)!Candidates
BY DEF Candidates, At!Candidates, Reads, At!Reads, Writes, At!Writes, IsRead, At!IsRead, IsWrite, At!IsWrite,
       Ids, At!Ids, RfChoices, At!RfChoices, HintsFor, At!HintsFor, Agreeing, At!Agreeing,
       StoredValue, At!StoredValue, Addresses, At!Addresses, CoChoices, At!CoChoices,
       TotalOrders, At!TotalOrders, Initial, At!Initial, WritesAt, At!WritesAt, Ordinary, At!Ordinary

LEMMA ExecutionsAt == Executions = At(trace, model, ops)!Executions
BY DEF Executions, At!Executions, Reads, At!Reads, Writes, At!Writes, IsRead, At!IsRead, IsWrite, At!IsWrite,
       Ids, At!Ids, StoredValue, At!StoredValue, ValidRf, At!ValidRf, ValidCo, At!ValidCo,
       SameLocation, At!SameLocation, Footprint, At!Footprint,
       Cyclic, At!Cyclic, PredecessorClosed, At!PredecessorClosed

LEMMA MalformedAt == Malformed <=> At(trace, model, ops)!Malformed
<1>1. DistinctIndexes(ops) <=> At(trace, model, ops)!DistinctIndexes(ops)
  BY DEF DistinctIndexes, At!DistinctIndexes, Ids, At!Ids
<1>2. ValidPairs(ops, trace.hints) <=> At(trace, model, ops)!ValidPairs(ops, trace.hints)
  BY DEF ValidPairs, At!ValidPairs
<1>3. Po(ops) = At(trace, model, ops)!Po(ops)
  BY DEF Po, At!Po, Before, At!Before, Ids, At!Ids
<1>4. ScalarLocations(ops) <=> At(trace, model, ops)!ScalarLocations(ops)
  BY DEF ScalarLocations, At!ScalarLocations, Overlap, At!Overlap, SameLocation, At!SameLocation,
     Footprint, At!Footprint, Ids, At!Ids
<1>5. Ids(ops) = At(trace, model, ops)!Ids(ops)
  BY DEF Ids, At!Ids
<1>6. Reads(ops) = At(trace, model, ops)!Reads(ops)
  BY DEF Reads, At!Reads, IsRead, At!IsRead, Ids, At!Ids
<1>7. \A a : WritesAt(a) = At(trace, model, ops)!WritesAt(a)
  BY DEF WritesAt, At!WritesAt, Writes, At!Writes, IsWrite, At!IsWrite, Ids, At!Ids
<1> QED
  BY <1>1, <1>2, <1>3, <1>4, <1>5, <1>6, <1>7 DEF Malformed, At!Malformed

LEMMA OrderEdgesAt ==
    ASSUME NEW t, NEW m, NEW q, NEW o, NEW r
    PROVE  OrderEdges(o, r) = At(t, m, q)!OrderEdges(o, r)
BY DEF Writes, At!Writes, Reads, At!Reads, IsRead, At!IsRead, IsWrite, At!IsWrite, Ids, At!Ids,
       Footprint, At!Footprint, Overlap, At!Overlap,
       Before, At!Before, Between, At!Between, Po, At!Po, Source, At!Source,
       StoreAfterOverlap, At!StoreAfterOverlap, DifferentSources, At!DifferentSources,
       ReadsAtomicWrite, At!ReadsAtomicWrite, Synchronized, At!Synchronized, Dependent, At!Dependent,
       ForwardedDependency, At!ForwardedDependency, AddressBeforeStore, At!AddressBeforeStore,
       Ppo, At!Ppo, Rfe, At!Rfe, Fr, At!Fr, OrderEdges, At!OrderEdges

LEMMA DerivedAt ==
    ASSUME NEW t, NEW m, NEW q, NEW f, NEW s
    PROVE  WithDerived(f, s) = At(t, m, q)!WithDerived(f, s)
BY DEF Inverted, At!Inverted, Compose, At!Compose, ReachableFrom, At!ReachableFrom, Closure, At!Closure,
       Derived, At!Derived, Extended, At!Extended, WithDerived, At!WithDerived

LEMMA AxiomAt ==
    ASSUME NEW t, NEW m, NEW q, NEW a, NEW f, NEW n
    PROVE  AxiomHolds(a, f, n) = At(t, m, q)!AxiomHolds(a, f, n)
BY DEF AxiomHolds, At!AxiomHolds, Cyclic, At!Cyclic, PredecessorClosed, At!PredecessorClosed

LEMMA PpoAt ==
    ASSUME NEW t, NEW m, NEW q, NEW o, NEW r
    PROVE  Ppo(o, r) = At(t, m, q)!Ppo(o, r)
BY DEF Writes, At!Writes, Reads, At!Reads, IsRead, At!IsRead, IsWrite, At!IsWrite, Ids, At!Ids,
       Footprint, At!Footprint, Overlap, At!Overlap,
       Before, At!Before, Between, At!Between, Po, At!Po, Source, At!Source,
       StoreAfterOverlap, At!StoreAfterOverlap, DifferentSources, At!DifferentSources,
       ReadsAtomicWrite, At!ReadsAtomicWrite, Synchronized, At!Synchronized, Dependent, At!Dependent,
       ForwardedDependency, At!ForwardedDependency, AddressBeforeStore, At!AddressBeforeStore, Ppo, At!Ppo

LEMMA WitnessAt ==
    ASSUME NEW t, NEW m, NEW q, NEW r
    PROVE  WitnessOf(q, r) = At(t, m, q)!Witness(r)
<1>1. OrderEdges(q, r) = At(t, m, q)!OrderEdges(q, r)
  BY OrderEdgesAt
<1>2. \A n, e : Cyclic(n, e) <=> At(t, m, q)!Cyclic(n, e)
  BY DEF Cyclic, At!Cyclic, PredecessorClosed, At!PredecessorClosed
<1>3. \A n, e : TotalOrders(n, e) = At(t, m, q)!TotalOrders(n, e)
  BY DEF TotalOrders, At!TotalOrders
<1>4. Ids(q) = At(t, m, q)!Ids(q)
  BY DEF Ids, At!Ids
<1>5. Witnesses(q, r) = At(t, m, q)!Witnesses(q, r)
  BY <1>1, <1>2, <1>3, <1>4 DEF Witnesses, At!Witnesses
<1> QED
  BY <1>5 DEF WitnessOf, At!Witness

LEMMA RelationsAt ==
    ASSUME NEW t, NEW m, NEW q, NEW c
    PROVE  RelationsOf(t, c) = At(t, m, q)!Relations(c)
BY DEF RelationsOf, At!Relations, Extended, At!Extended

LEMMA TableAt ==
    ASSUME NEW t, NEW m, NEW q, NEW c
    PROVE  TableOf(t, m, q, c) = At(t, m, q)!Table(c)
<1>1. \A o, r, g : RvwmoTable(o, r, g) = At(t, m, q)!RvwmoTable(o, r, g)
  <2> TAKE o, r, g
  <2>1. Po(o) = At(t, m, q)!Po(o)
    BY DEF Po, At!Po, Before, At!Before, Ids, At!Ids
  <2>2. Rfe(o, r) = At(t, m, q)!Rfe(o, r)
    BY DEF Rfe, At!Rfe
  <2>3. Fr(o, r) = At(t, m, q)!Fr(o, r)
    BY DEF Fr, At!Fr, Reads, At!Reads, Writes, At!Writes, IsRead, At!IsRead, IsWrite, At!IsWrite, Ids, At!Ids
  <2> QED
    BY <2>1, <2>2, <2>3, PpoAt, Zenon DEF RvwmoTable, At!RvwmoTable
<1>2. \A o, r, s : BaseTable(o, r, s) = At(t, m, q)!BaseTable(o, r, s)
  BY DEF BaseTable, At!BaseTable, LoadLoadPpo, At!LoadLoadPpo, Po, At!Po, Before, At!Before, Rfe, At!Rfe,
     IsRead, At!IsRead, Ids, At!Ids, Source, At!Source, Between, At!Between,
     Compose, At!Compose, Inverted, At!Inverted
<1>3. \A f, g : Extended(f, g) = At(t, m, q)!Extended(f, g)
  BY DEF Extended, At!Extended
<1> QED
  BY <1>1, <1>2, <1>3, RelationsAt, WitnessAt DEF TableOf, At!Table

LEMMA PassedMeans ==
    ASSUME NEW o, NEW r, NEW g
    PROVE  Passed(Judgement(o, r, g))
           <=> /\ OrderAcyclic(o, r)
               /\ g = {} \/ LoadValueOffenses(o, r, g) = {}
               /\ AmoOffenses(o, r) = {}
               /\ LrScOffenses(o, r) = {}
BY DEF Passed, Judgement

LEMMA PassedAt ==
    ASSUME NEW t, NEW m, NEW q, NEW o, NEW r, NEW g
    PROVE  Passed(Judgement(o, r, g)) <=> At(t, m, q)!Passed(At(t, m, q)!Judgement(o, r, g))
<1>1. OrderAcyclic(o, r) <=> At(t, m, q)!OrderAcyclic(o, r)
  <2>1. OrderEdges(o, r) = At(t, m, q)!OrderEdges(o, r)
    BY OrderEdgesAt
  <2>2. \A n, e : Cyclic(n, e) <=> At(t, m, q)!Cyclic(n, e)
    BY DEF Cyclic, At!Cyclic, PredecessorClosed, At!PredecessorClosed
  <2>3. Ids(o) = At(t, m, q)!Ids(o)
    BY DEF Ids, At!Ids
  <2> QED
    BY <2>1, <2>2, <2>3 DEF OrderAcyclic, At!OrderAcyclic
<1>2. LoadValueOffenses(o, r, g) = At(t, m, q)!LoadValueOffenses(o, r, g)
  BY DEF LoadValueOffenses, At!LoadValueOffenses, ReadsLatest, At!ReadsLatest, Eligible, At!Eligible,
     Reads, At!Reads, Writes, At!Writes, IsRead, At!IsRead, IsWrite, At!IsWrite, Ids, At!Ids,
     SameLocation, At!SameLocation, Footprint, At!Footprint, Source, At!Source, Po, At!Po, Before, At!Before
<1>3. AmoOffenses(o, r) = At(t, m, q)!AmoOffenses(o, r)
  BY DEF AmoOffenses, At!AmoOffenses, Writes, At!Writes, IsRead, At!IsRead, IsWrite, At!IsWrite, Ids, At!Ids,
     SameLocation, At!SameLocation, Footprint, At!Footprint, Source, At!Source
<1>4. LrScOffenses(o, r) = At(t, m, q)!LrScOffenses(o, r)
  <2> DEFINE lone == {i \in DOMAIN o : o[i].atomic = "sc" /\ Cardinality({e \in r.pair : e[2] = i}) # 1}
             broken(p, w) == /\ o[w].hart # o[p[1]].hart /\ Overlap(o[w], o[p[1]])
                             /\ <<Source(r, p[1]), w>> \in r.co /\ <<w, p[2]>> \in r.co
             Q(p) == \/ <<Source(r, p[1]), p[2]>> \notin r.co
                     \/ \E w \in Writes(o) \ {Source(r, p[1]), p[2]} : broken(p, w)
             brokenAt(p, w) == /\ o[w].hart # o[p[1]].hart /\ At(t, m, q)!Overlap(o[w], o[p[1]])
                               /\ <<At(t, m, q)!Source(r, p[1]), w>> \in r.co /\ <<w, p[2]>> \in r.co
             QAt(p) == \/ <<At(t, m, q)!Source(r, p[1]), p[2]>> \notin r.co
                       \/ \E w \in At(t, m, q)!Writes(o) \ {At(t, m, q)!Source(r, p[1]), p[2]} :
                            brokenAt(p, w)
  <2>1. LrScOffenses(o, r) = lone \cup {e[2] : e \in {p \in r.pair : Q(p)}}
    BY DEF LrScOffenses, Ids
  <2> DEFINE loneAt == {i \in DOMAIN o : o[i].atomic = "sc"
                                         /\ At(t, m, q)!Cardinality({e \in r.pair : e[2] = i}) # 1}
  <2>2. At(t, m, q)!LrScOffenses(o, r) = loneAt \cup {e[2] : e \in {p \in r.pair : QAt(p)}}
    BY DEF At!LrScOffenses, At!Ids
  <2>3. \A x, y : Overlap(x, y) <=> At(t, m, q)!Overlap(x, y)
    BY DEF Overlap, At!Overlap, Footprint, At!Footprint
  <2>4. \A x : Source(r, x) = At(t, m, q)!Source(r, x)
    BY DEF Source, At!Source
  <2>5. Writes(o) = At(t, m, q)!Writes(o)
    BY DEF Writes, At!Writes, IsWrite, At!IsWrite, Ids, At!Ids
  <2>6. \A p : Q(p) <=> QAt(p)
    BY <2>3, <2>4, <2>5
  <2>7. \A S : Cardinality(S) = At(t, m, q)!Cardinality(S)
    BY DEF Cardinality, At!Cardinality
  <2>8. lone = loneAt
    BY <2>7
  <2> HIDE DEF Q, QAt, lone, loneAt
  <2>9. {p \in r.pair : Q(p)} = {p \in r.pair : QAt(p)}
    BY <2>6
  <2> QED
    BY <2>1, <2>2, <2>8, <2>9
<1>5. At(t, m, q)!Passed(At(t, m, q)!Judgement(o, r, g))
      <=> /\ At(t, m, q)!OrderAcyclic(o, r)
          /\ g = {} \/ At(t, m, q)!LoadValueOffenses(o, r, g) = {}
          /\ At(t, m, q)!AmoOffenses(o, r) = {}
          /\ At(t, m, q)!LrScOffenses(o, r) = {}
  BY DEF At!Passed, At!Judgement
<1> QED
  BY <1>1, <1>2, <1>3, <1>4, <1>5, PassedMeans

LEMMA PassesAt ==
    ASSUME NEW t, NEW m, NEW q, NEW c
    PROVE  PassesOf(t, m, q, c) <=> At(t, m, q)!Passes(c)
<1>1. Ids(q) = At(t, m, q)!Ids(q)
  BY DEF Ids, At!Ids
<1> QED
  BY <1>1, TableAt, RelationsAt, WitnessAt, PassedAt, DerivedAt, AxiomAt DEF PassesOf, At!Passes

SameMeaning ==
    /\ Candidates' = Candidates
    /\ Executions' = Executions
    /\ \A c : Passes(c)' <=> Passes(c)
    /\ \A c : Unjudgeable(c)' <=> Unjudgeable(c)
    /\ Malformed' <=> Malformed

MeaningIsGiven ==
    /\ Candidates = At(trace, model, ops)!Candidates
    /\ Executions = At(trace, model, ops)!Executions
    /\ Malformed <=> At(trace, model, ops)!Malformed
    /\ \A c : Passes(c) <=> PassesOf(trace, model, ops, c)
    /\ \A c : Unjudgeable(c) <=> UnjudgeableOf(trace, model, ops, c)

LEMMA MeaningIsOf == MeaningIsGiven
BY CandidatesAt, ExecutionsAt, MalformedAt, MeaningOf DEF MeaningIsGiven

LEMMA SameArguments ==
    ASSUME trace' = trace, model' = model, ops' = ops
    PROVE  SameMeaning
<1>1. MeaningIsGiven'
  BY MeaningIsOf, PTL
<1> QED
  BY <1>1, MeaningIsOf DEF SameMeaning, MeaningIsGiven

-----------------------------------------------------------------------------
(* The candidates judged so far and the pending ones are the executions. *)

Typed == phase \in {"project", "choose", "judge", "done", "error"}

Projected == phase \in {"choose", "judge", "done"} => ops = Operations(trace.events)

Fresh == /\ phase = "project" => ops = << >>
         /\ phase \in {"project", "choose"} => checked = {}

Enumerated ==
    phase \in {"judge", "done"} =>
        /\ Candidates = Executions
        /\ Executions = pending \cup {k.candidate : k \in checked}
        /\ \A k \in checked : (k.allowed <=> Passes(k.candidate)) /\ ~ Unjudgeable(k.candidate)

Concluded ==
    phase = "done" => /\ pending = {}
                      /\ status = IF \E k \in checked : k.allowed THEN "allowed" ELSE "forbidden"

SInv == Supported(trace) /\ Typed /\ Projected /\ Fresh /\ Enumerated /\ Concluded

LEMMA NextKeepsSInv ==
    ASSUME SInv, Next
    PROVE  SInv'
<1>1. trace' = trace /\ model' = model
  BY DEF Next, Project, Choose, Judge, Conclude, Fail
<1>2. Supported(trace)'
  BY <1>1 DEF SInv
<1>3. CASE Project
  BY <1>1, <1>2, <1>3 DEF SInv, Project, Fail, Typed, Projected, Fresh, Enumerated, Concluded
<1>4. CASE Choose /\ ~ Fail
  <2>1. /\ ~ RfInconsistent /\ ~ CoInconsistent
        /\ pending' = Candidates /\ phase = "choose" /\ phase' = "judge"
        /\ ops' = ops /\ checked' = checked /\ checked = {}
    BY <1>4 DEF Choose, SInv, Fresh
  <2>2. SameMeaning
    BY <1>1, <2>1, SameArguments
  <2>3. Located
    BY <2>1, OperationsAreLocated DEF SInv, Projected
  <2>4. Candidates = Executions
    BY <2>1, <2>3, CandidatesAreExecutions
  <2>5. Enumerated'
    BY <2>1, <2>2, <2>4 DEF Enumerated, SameMeaning
  <2>6. Projected' /\ Typed' /\ Fresh' /\ Concluded'
    BY <1>1, <2>1 DEF SInv, Projected, Typed, Fresh, Concluded
  <2> QED
    BY <1>2, <2>5, <2>6 DEF SInv
<1>5. CASE Fail
  BY <1>1, <1>2, <1>5 DEF SInv, Fail, Typed, Projected, Fresh, Enumerated, Concluded
<1>6. CASE Judge /\ ~ Fail
  <2> DEFINE c == CHOOSE d \in pending : TRUE
  <2>1. /\ phase = "judge" /\ phase' = phase /\ ops' = ops /\ pending # {} /\ ~ Unjudgeable(c)
        /\ pending' = pending \ {c}
        /\ checked' = checked \cup {[candidate |-> c, allowed |-> Passes(c)]}
    BY <1>6 DEF Judge
  <2>2. c \in pending
    BY <2>1
  <2> HIDE DEF c
  <2>3. SameMeaning
    BY <1>1, <2>1, SameArguments
  <2>4. {k.candidate : k \in checked'} = {k.candidate : k \in checked} \cup {c}
    <3> DEFINE new == [candidate |-> c, allowed |-> Passes(c)]
    <3>1. new.candidate = c /\ checked' = checked \cup {new}
      BY <2>1
    <3> HIDE DEF new
    <3> QED
      BY <3>1
  <2>5. Candidates' = Executions' /\ Executions' = pending' \cup {k.candidate : k \in checked'}
    BY <2>1, <2>2, <2>3, <2>4 DEF SInv, Enumerated, SameMeaning
  <2>6. ASSUME NEW k \in checked' PROVE (k.allowed <=> Passes(k.candidate)') /\ ~ Unjudgeable(k.candidate)'
    <3>1. CASE k \in checked
      BY <2>1, <2>3, <3>1 DEF SInv, Enumerated, SameMeaning
    <3>2. CASE k = [candidate |-> c, allowed |-> Passes(c)]
      <4>1. k.candidate = c /\ (k.allowed <=> Passes(c))
        BY <3>2
      <4> QED
        BY <2>1, <2>3, <4>1 DEF SameMeaning
    <3> QED
      BY <2>1, <3>1, <3>2
  <2>7. Enumerated'
    BY <2>5, <2>6 DEF Enumerated
  <2>8. Projected' /\ Typed' /\ Fresh' /\ Concluded'
    BY <1>1, <2>1 DEF SInv, Projected, Typed, Fresh, Concluded
  <2> QED
    BY <1>2, <2>7, <2>8 DEF SInv
<1>7. CASE Conclude
  <2>1. SameMeaning
    BY <1>1, <1>7, SameArguments DEF Conclude
  <2>2. Enumerated'
    BY <1>7, <2>1 DEF SInv, Conclude, Enumerated, SameMeaning
  <2>3. Projected' /\ Typed' /\ Fresh' /\ Concluded'
    BY <1>1, <1>7 DEF SInv, Conclude, Projected, Typed, Fresh, Concluded
  <2> QED
    BY <1>2, <2>2, <2>3 DEF SInv
<1> QED
  BY <1>3, <1>4, <1>5, <1>6, <1>7 DEF Next, Choose, Judge

LEMMA StutterKeepsSInv ==
    ASSUME SInv, UNCHANGED vars
    PROVE  SInv'
<1>1. SameMeaning
  BY SameArguments DEF vars
<1>2. Enumerated'
  BY <1>1 DEF SInv, Enumerated, SameMeaning, vars
<1> QED
  BY <1>2 DEF SInv, vars, Typed, Projected, Fresh, Concluded

\* In the end, the verdict is that of all the executions.
LEMMA VerdictOfExecutions ==
    ASSUME SInv
    PROVE  AllowedIffExplained
<1> SUFFICES ASSUME phase = "done" PROVE status = "allowed" <=> \E x \in Executions : Passes(x)
  BY DEF AllowedIffExplained
<1>1. Executions = {k.candidate : k \in checked}
  BY DEF SInv, Enumerated, Concluded
<1>2. \A k \in checked : k.allowed <=> Passes(k.candidate)
  BY DEF SInv, Enumerated
<1>3. (\E x \in Executions : Passes(x)) <=> \E k \in checked : k.allowed
  BY <1>1, <1>2
<1> QED
  BY <1>3 DEF SInv, Concluded

LEMMA SInvariance ==
    ASSUME \A c \in Checks : Supported(c.trace)
    PROVE  Spec => []SInv
<1>1. ASSUME Init PROVE SInv
  BY <1>1 DEF Init, SInv, Typed, Projected, Fresh, Enumerated, Concluded
<1>2. ASSUME SInv, [Next]_vars PROVE SInv'
  BY <1>2, NextKeepsSInv, StutterKeepsSInv
<1> QED
  BY <1>1, <1>2, PTL DEF Spec

\* A trace is allowed exactly if one of its executions passes: check_trace_memory_model
\* enumerates one source per read and one permutation of the plain writes per address
\* (build_candidate_space), which misses no execution and invents none, whatever the
\* evidence, the model and the number of operations.
THEOREM VerdictIsOfExecutions ==
    ASSUME \A c \in Checks : Supported(c.trace)
    PROVE  Spec => []AllowedIffExplained
BY SInvariance, VerdictOfExecutions, PTL

-----------------------------------------------------------------------------
(* The relations of a table. *)

LEMMA ExtendedDomain ==
    ASSUME NEW f, NEW g
    PROVE  DOMAIN Extended(f, g) = DOMAIN f \cup DOMAIN g
BY DEF Extended

LEMMA ExtendedKeeps ==
    ASSUME NEW f, NEW g, NEW name \in DOMAIN f
    PROVE  Extended(f, g)[name] = f[name]
BY DEF Extended

LEMMA ExtendedAdds ==
    ASSUME NEW f, NEW g, NEW name \in DOMAIN g \ DOMAIN f
    PROVE  Extended(f, g)[name] = g[name]
BY DEF Extended

\* The tables after the derivations so far, from none to n of them.
Tables(h, n, table, specs) ==
    h = [i \in 0 .. n |->
            IF i = 0 THEN table
            ELSE Extended(h[i - 1], [name \in {specs[i].name} |-> Derived(specs[i], h[i - 1])])]

LEMMA TablesExist ==
    ASSUME NEW table, NEW specs, NEW n \in Nat
    PROVE  \E h : Tables(h, n, table, specs)
<1> DEFINE Bad == {k \in Nat : \A h : ~ Tables(h, k, table, specs)}
<1> SUFFICES ASSUME Bad # {} PROVE FALSE
  OBVIOUS
<1>1. PICK k \in Bad : \A j \in Bad : k <= j
  BY LeastNatural
<1>2. k # 0
  <2> SUFFICES ASSUME k = 0 PROVE FALSE
    OBVIOUS
  <2> DEFINE h == [i \in 0 .. 0 |-> table]
  <2>1. Tables(h, 0, table, specs)
    BY DEF Tables
  <2> QED
    BY <1>1, <2>1
<1>3. k - 1 \in Nat /\ k - 1 \notin Bad
  BY <1>1, <1>2
<1>4. PICK h : Tables(h, k - 1, table, specs)
  BY <1>3
<1> DEFINE last == Extended(h[k - 1], [name \in {specs[k].name} |-> Derived(specs[k], h[k - 1])])
           g == [i \in 0 .. k |-> IF i = k THEN last ELSE h[i]]
<1>5. \A i \in 0 .. k - 1 : g[i] = h[i]
  BY <1>1
<1>6. \A i \in 0 .. k - 1 : h[i] = IF i = 0 THEN table
        ELSE Extended(h[i - 1], [name \in {specs[i].name} |-> Derived(specs[i], h[i - 1])])
  BY <1>4 DEF Tables
<1>7. ASSUME NEW i \in 0 .. k
      PROVE  g[i] = IF i = 0 THEN table
                    ELSE Extended(g[i - 1], [name \in {specs[i].name} |-> Derived(specs[i], g[i - 1])])
  <2>1. CASE i = k
    <3>1. g[i] = last /\ i # 0 /\ g[i - 1] = h[k - 1]
      BY <1>2, <1>3, <1>5, <2>1
    <3> QED
      BY <2>1, <3>1
  <2>2. CASE i # k
    <3>1. i \in 0 .. k - 1
      BY <2>2, <1>1
    <3>2. i # 0 => i - 1 \in 0 .. k - 1
      BY <3>1, <1>1
    <3> HIDE DEF g
    <3> QED
      BY <1>5, <1>6, <3>1, <3>2
  <2> QED
    BY <2>1, <2>2
<1>8. g = [i \in 0 .. k |-> g[i]]
  OBVIOUS
<1> HIDE DEF g
<1>9. Tables(g, k, table, specs)
  BY <1>7, <1>8, Zenon DEF Tables
<1> QED
  BY <1>1, <1>9

\* Deriving adds relations to a table and replaces none.
LEMMA DerivedTable ==
    ASSUME NEW table, NEW specs, Len(specs) \in Nat
    PROVE  /\ DOMAIN WithDerived(table, specs) = DOMAIN table \cup {specs[i].name : i \in 1 .. Len(specs)}
           /\ \A name \in DOMAIN table : WithDerived(table, specs)[name] = table[name]
<1> DEFINE n == Len(specs)
           after == CHOOSE h : Tables(h, n, table, specs)
           After(i) == /\ DOMAIN after[i] = DOMAIN table \cup {specs[j].name : j \in 1 .. i}
                       /\ \A name \in DOMAIN table : after[i][name] = table[name]
           Bad == {i \in Nat : i <= n /\ ~ After(i)}
<1>1. Tables(after, n, table, specs)
  BY TablesExist
<1>2. WithDerived(table, specs) = after[n]
  BY DEF WithDerived, Tables
<1> HIDE DEF after
<1>3. Bad = {}
  <2> SUFFICES ASSUME Bad # {} PROVE FALSE
    OBVIOUS
  <2>1. PICK k \in Bad : \A j \in Bad : k <= j
    <3> HIDE DEF After
    <3> QED
      BY LeastNatural
  <2>2. after[0] = table
    BY <1>1 DEF Tables
  <2>3. After(0)
    BY <2>2
  <2>4. k # 0 /\ k - 1 \in 0 .. n /\ k \in 0 .. n
    <3> HIDE DEF After
    <3> QED
      BY <2>1, <2>3
  <2>5. After(k - 1)
    <3> HIDE DEF After
    <3> QED
      BY <2>1, <2>4
  <2> DEFINE new == [name \in {specs[k].name} |-> Derived(specs[k], after[k - 1])]
  <2>6. after[k] = Extended(after[k - 1], new)
    BY <1>1, <2>4, Zenon DEF Tables
  <2>7. DOMAIN new = {specs[k].name}
    OBVIOUS
  <2> HIDE DEF new
  <2>8. /\ DOMAIN after[k] = DOMAIN after[k - 1] \cup {specs[k].name}
        /\ \A name \in DOMAIN after[k - 1] : after[k][name] = after[k - 1][name]
    <3> DEFINE f == after[k - 1]
    <3>1. after[k] = Extended(f, new)
      BY <2>6
    <3> HIDE DEF f
    <3>2. DOMAIN after[k] = DOMAIN f \cup DOMAIN new
      BY <3>1, ExtendedDomain
    <3>3. ASSUME NEW name \in DOMAIN f PROVE after[k][name] = f[name]
      BY <3>1, ExtendedKeeps
    <3> QED
      BY <2>7, <3>2, <3>3 DEF f
  <2>9. {specs[j].name : j \in 1 .. k} = {specs[j].name : j \in 1 .. k - 1} \cup {specs[k].name}
    <3>1. 1 .. k = (1 .. k - 1) \cup {k}
      BY <2>4
    <3> QED
      BY <3>1
  <2>10. After(k)
    BY <2>5, <2>8, <2>9
  <2> QED
    BY <2>1, <2>10
<1>4. After(n)
  <2> HIDE DEF After
  <2> QED
    BY <1>3
<1> QED
  BY <1>2, <1>4

-----------------------------------------------------------------------------
(* A refusal is justified. *)

LEMMA TableNames ==
    ASSUME NEW t, NEW m, NEW o, NEW c
    PROVE  DOMAIN TableOf(t, m, o, c) = DOMAIN t.hints \cup BaseNames(m)
<1> DEFINE r == RelationsOf(t, c)
           g == IF m.builtin = "rvwmo" THEN RvwmoTable(o, r, WitnessOf(o, r)) ELSE BaseTable(o, r, m.rules)
<1>1. TableOf(t, m, o, c) = Extended(t.hints, g)
  BY DEF TableOf
<1>2. DOMAIN g = BaseNames(m)
  <2> HIDE DEF r
  <2>1. DOMAIN RvwmoTable(o, r, WitnessOf(o, r)) =
            {"po", "rf", "rfi", "rfe", "fr", "fri", "fre", "co", "ppo", "gmo"}
    BY DEF RvwmoTable
  <2>2. DOMAIN BaseTable(o, r, m.rules) = {"po", "rf", "rfe", "co", "fr", "ppo"}
    BY DEF BaseTable
  <2> QED
    BY <2>1, <2>2 DEF BaseNames
<1> HIDE DEF g
<1> QED
  BY <1>1, <1>2, ExtendedDomain

LEMMA TableHints ==
    ASSUME NEW t, NEW m, NEW o, NEW c, NEW name \in DOMAIN t.hints
    PROVE  TableOf(t, m, o, c)[name] = t.hints[name]
BY ExtendedKeeps DEF TableOf

\* A candidate keeps the evidence and brings its own rf and co.
LEMMA CandidateRelations ==
    ASSUME NEW t, DOMAIN t.hints = HintNames, NEW R, NEW C, NEW c, c = [rf |-> R, co |-> C]
    PROVE  /\ RelationsOf(t, c).rf = R /\ RelationsOf(t, c).co = C
           /\ RelationsOf(t, c).addr = t.hints["addr"] /\ RelationsOf(t, c).data = t.hints["data"]
           /\ RelationsOf(t, c).ctrl = t.hints["ctrl"] /\ RelationsOf(t, c).fence = t.hints["fence"]
           /\ RelationsOf(t, c).pair = t.hints["pair"] /\ RelationsOf(t, c).pipeline = t.hints["pipeline"]
<1>1. DOMAIN c = {"rf", "co"} /\ c["rf"] = R /\ c["co"] = C
  OBVIOUS
<1>2. "rf" \notin DOMAIN t.hints /\ "co" \notin DOMAIN t.hints
  BY DEF HintNames
<1>3. RelationsOf(t, c)["rf"] = R /\ RelationsOf(t, c)["co"] = C
  BY <1>1, <1>2, ExtendedAdds DEF RelationsOf
<1>4. \A name \in HintNames : RelationsOf(t, c)[name] = t.hints[name]
  BY ExtendedKeeps DEF RelationsOf
<1> QED
  BY <1>3, <1>4 DEF HintNames

LEMMA ExecutionParts ==
    ASSUME Located, NEW x \in Executions
    PROVE  \E f \in [Reads(ops) -> Writes(ops)] : \E C :
              /\ x = [rf |-> {<<f[r], r>> : r \in Reads(ops)}, co |-> C]
              /\ \A r \in Reads(ops) : f[r] \in Agreeing(r)
              /\ \A h \in trace.rfHints : h.read \in Reads(ops) => f[h.read] = h.write
              /\ ValidRf(ops, [rf |-> {<<f[r], r>> : r \in Reads(ops)}]) /\ ValidCo(ops, [co |-> C])
              /\ Coherent(C) /\ CoEvidence \subseteq C /\ C \subseteq Colocated
<1>1. PICK p \in RfExecutions \X CoExecutions : x = [rf |-> p[1], co |-> p[2]]
  BY ExecutionsArePairs
<1>2. p[1] \in RfExecutions /\ p[2] \in CoExecutions
  OBVIOUS
<1>3. PICK f \in [Reads(ops) -> Writes(ops)] :
        /\ p[1] = {<<f[r], r>> : r \in Reads(ops)}
        /\ \A h \in trace.rfHints : h.read \in Reads(ops) => f[h.read] = h.write
        /\ ValidRf(ops, [rf |-> p[1]])
  BY <1>2 DEF RfExecutions
<1>4. \A r \in Reads(ops) : f[r] \in Agreeing(r)
  BY <1>3, SourcesAgree
<1>5. ValidCo(ops, [co |-> p[2]]) /\ Coherent(p[2]) /\ CoEvidence \subseteq p[2] /\ p[2] \subseteq Colocated
  BY <1>2, ValidIsCoherent DEF CoExecutions
<1> QED
  BY <1>1, <1>3, <1>4, <1>5

\* A well-formed trace with an execution has candidates.
LEMMA ExplainableIsConsistent ==
    ASSUME Located, ~ Malformed, Executions # {}
    PROVE  ~ RfInconsistent /\ ~ CoInconsistent /\ ~ HintsUnknown
<1>1. PICK x \in Executions : TRUE
  OBVIOUS
<1>2. PICK f \in [Reads(ops) -> Writes(ops)] : \E C :
        /\ \A r \in Reads(ops) : f[r] \in Agreeing(r)
        /\ \A h \in trace.rfHints : h.read \in Reads(ops) => f[h.read] = h.write
        /\ Coherent(C) /\ CoEvidence \subseteq C /\ C \subseteq Colocated
  BY <1>1, ExecutionParts
<1>9. PICK C : Coherent(C) /\ CoEvidence \subseteq C /\ C \subseteq Colocated
  BY <1>2
<1>3. ~ RfInconsistent
  <2>1. \A g, h \in trace.rfHints : g.read = h.read => g = h
    BY DEF Malformed
  <2>2. ASSUME NEW r \in Reads(ops)
        PROVE  /\ RfChoices(r) # {}
               /\ \A h \in HintsFor(r) : /\ h.write \in Agreeing(r)
                                         /\ h.address = ops[r].address /\ h.value = ops[r].value
    <3>1. \A h \in HintsFor(r) : h \in trace.rfHints /\ h.read = r
      BY DEF HintsFor
    <3>2. RfChoices(r) # {}
      BY <1>2 DEF RfChoices
    <3>3. \A h \in HintsFor(r) : h.write \in Agreeing(r)
      BY <1>2, <3>1
    <3>4. \A h \in HintsFor(r) : h.address = ops[r].address /\ h.value = ops[r].value
      BY <3>1 DEF Malformed
    <3> QED
      BY <3>2, <3>3, <3>4
  <2> QED
    BY <2>1, <2>2 DEF RfInconsistent
<1>4. ASSUME NEW h \in trace.coHints
      PROVE  /\ {h.before, h.after} \subseteq WritesAt(h.address)
             /\ h.before # h.after
             /\ {h.before, h.after} \subseteq Initial(h.address) \cup Ordinary(h.address)
  <2>1. {h.before, h.after} \subseteq WritesAt(h.address)
    BY DEF Malformed
  <2>2. <<h.before, h.after>> \in Colocated
    BY <1>2 DEF CoEvidence
  <2>3. h.before # h.after
    BY <2>2 DEF Colocated
  <2> QED
    BY <2>1, <2>3, WritesOfAddress
<1>5. ASSUME NEW a \in Addresses PROVE ~ (Cardinality(Initial(a)) > 1)
  <2>1. \A v, w \in Initial(a) : v = w
    <3> SUFFICES ASSUME NEW v \in Initial(a), NEW w \in Initial(a), v # w PROVE FALSE
      OBVIOUS
    <3>1. /\ v \in Writes(ops) /\ w \in Writes(ops) /\ ops[v].address = ops[w].address
          /\ ops[v].kind = "init_write" /\ ops[w].kind = "init_write"
      BY DEF Initial, WritesAt
    <3>2. <<v, w>> \in C /\ <<w, v>> \in C
      BY <1>2, <3>1 DEF Coherent
    <3> QED
      BY <1>2, <3>1, <3>2 DEF Coherent
  <2>2. CASE Initial(a) = {}
    BY <2>2, FS_EmptySet
  <2>3. CASE Initial(a) # {}
    <3>1. PICK v : Initial(a) = {v}
      BY <2>1, <2>3
    <3>2. Cardinality({v}) = 1
      BY FS_Singleton
    <3> QED
      BY <3>1, <3>2
  <2> QED
    BY <2>2, <2>3
<1>6. \A a \in Addresses : CoChoices(a) # {}
  BY <1>2, <1>4, CoherentIsChosen DEF HintsPlaced
<1>7. ~ CoInconsistent
  BY <1>4, <1>5, <1>6 DEF CoInconsistent
<1>8. ~ HintsUnknown
  BY DEF HintsUnknown, Malformed, Po
<1> QED
  BY <1>3, <1>7, <1>8

\* Its executions can be judged, by a model whose relations exist.
LEMMA ExplainableIsJudgeable ==
    ASSUME Located, ~ Malformed, DOMAIN trace.hints = HintNames, Loadable(model), NEW x \in Executions
    PROVE  ~ Unjudgeable(x)
<1> DEFINE rel == RelationsOf(trace, x)
           table == TableOf(trace, model, ops, x)
<1>0. PICK f \in [Reads(ops) -> Writes(ops)] : \E C :
        /\ x = [rf |-> {<<f[r], r>> : r \in Reads(ops)}, co |-> C]
        /\ ValidRf(ops, [rf |-> {<<f[r], r>> : r \in Reads(ops)}]) /\ ValidCo(ops, [co |-> C])
  BY ExecutionParts
<1> DEFINE R == {<<f[r], r>> : r \in Reads(ops)}
<1>1. PICK C : x = [rf |-> R, co |-> C] /\ ValidRf(ops, [rf |-> R]) /\ ValidCo(ops, [co |-> C])
  BY <1>0
<1>2. /\ rel.rf = R /\ rel.co = C
      /\ rel.addr = trace.hints["addr"] /\ rel.data = trace.hints["data"] /\ rel.ctrl = trace.hints["ctrl"]
      /\ rel.fence = trace.hints["fence"] /\ rel.pair = trace.hints["pair"]
      /\ rel.pipeline = trace.hints["pipeline"]
  BY <1>1, CandidateRelations
<1> HIDE DEF rel, R
<1>3. ValidRf(ops, rel) /\ ValidCo(ops, rel)
  <2>1. [rf |-> R].rf = rel.rf /\ [co |-> C].co = rel.co
    BY <1>2
  <2>2. ValidRf(ops, [rf |-> R]) /\ ValidCo(ops, [co |-> C])
    BY <1>1 DEF R
  <2> HIDE DEF R
  <2>3. ValidRf(ops, rel)
    BY <2>1, <2>2 DEF ValidRf
  <2>4. ValidCo(ops, rel)
    BY <2>1, <2>2 DEF ValidCo
  <2> QED
    BY <2>3, <2>4
<1>4. HintsInPo(ops, rel) /\ ValidPairs(ops, rel)
  <2>1. \A name \in HintNames : trace.hints[name] \subseteq Po(ops)
    BY DEF Malformed
  <2>2. HintsInPo(ops, rel)
    BY <1>2, <2>1 DEF HintsInPo, HintNames
  <2>3. ValidPairs(ops, trace.hints)
    BY DEF Malformed
  <2>4. ValidPairs(ops, rel)
    BY <1>2, <2>3 DEF ValidPairs
  <2> QED
    BY <2>2, <2>4
<1>5. /\ DistinctIndexes(ops) /\ ScalarLocations(ops)
      /\ \A i \in Ids(ops) : ops[i].regular /\ ops[i].bytes # {}
  BY DEF Malformed
<1>6. ValidGraph(ops, rel)
  BY <1>3, <1>4, <1>5 DEF ValidGraph
<1>7. DOMAIN table = HintNames \cup BaseNames(model)
  BY TableNames
<1> HIDE DEF table
<1>8. Derivable(model.derived, DOMAIN table)
  BY <1>7 DEF Loadable
<1>9. DOMAIN WithDerived(table, model.derived)
        = HintNames \cup BaseNames(model) \cup {model.derived[i].name : i \in 1 .. Len(model.derived)}
  <2>1. Len(model.derived) \in Nat
    BY DEF Loadable
  <2>2. DOMAIN WithDerived(table, model.derived)
          = DOMAIN table \cup {model.derived[i].name : i \in 1 .. Len(model.derived)}
    BY <2>1, DerivedTable
  <2> QED
    BY <1>7, <2>2
<1>10. \A axiom \in model.axioms : axiom.relations \subseteq DOMAIN WithDerived(table, model.derived)
  BY <1>9 DEF Loadable
<1>11. ~ UnjudgeableOf(trace, model, ops, x)
  BY <1>4, <1>5, <1>6, <1>8, <1>10 DEF UnjudgeableOf, rel, table
<1> QED
  BY <1>11, MeaningOf

LInv == Loadable(model)

RInv == SInv /\ LInv /\ RefusedMeansUnexplainable

LEMMA NextKeepsRInv ==
    ASSUME RInv, Next
    PROVE  RInv'
<1>1. trace' = trace /\ model' = model
  BY DEF Next, Project, Choose, Judge, Conclude, Fail
<1>2. SInv'
  BY NextKeepsSInv DEF RInv
<1>3. LInv'
  BY <1>1 DEF RInv, LInv
<1>4. RefusedMeansUnexplainable'
  <2>1. CASE phase' # "error"
    BY <2>1 DEF RefusedMeansUnexplainable
  <2>2. CASE phase' = "error"
    <3>1. Fail
      BY <2>2 DEF Next, Project, Choose, Judge, Conclude
    <3>2. SameMeaning /\ ops' = ops
      BY <1>1, <3>1, SameArguments DEF Fail
    <3>3. CASE Project
      BY <3>2, <3>3 DEF RInv, SInv, Fresh, Project, RefusedMeansUnexplainable
    <3>4. CASE Choose \/ Judge
      <4>1. Located
        BY <3>4, OperationsAreLocated DEF RInv, SInv, Projected, Choose, Judge
      <4>2. Malformed \/ Executions = {} \/ Cardinality(Candidates) > MaxCandidates
        <5> SUFFICES ASSUME ~ Malformed, Executions # {} PROVE Cardinality(Candidates) > MaxCandidates
          OBVIOUS
        <5>1. CASE Choose
          <6>1. ~ RfInconsistent /\ ~ CoInconsistent /\ ~ HintsUnknown
            BY <4>1, ExplainableIsConsistent
          <6> QED
            BY <2>2, <5>1, <6>1 DEF Choose
        <5>2. CASE Judge
          <6> DEFINE c == CHOOSE d \in pending : TRUE
          <6>1. Unjudgeable(c) /\ pending # {} /\ phase = "judge"
            BY <2>2, <5>2 DEF Judge
          <6>2. c \in pending
            BY <6>1
          <6> HIDE DEF c
          <6>3. c \in Executions
            BY <6>1, <6>2 DEF RInv, SInv, Enumerated
          <6>4. DOMAIN trace.hints = HintNames
            BY DEF RInv, SInv, Supported
          <6>5. ~ Unjudgeable(c)
            BY <4>1, <6>3, <6>4, ExplainableIsJudgeable DEF RInv, LInv
          <6> QED
            BY <6>1, <6>5
        <5> QED
          BY <3>4, <5>1, <5>2
      <4> QED
        BY <3>2, <4>2 DEF SameMeaning, RefusedMeansUnexplainable
    <3>5. CASE Conclude
      BY <2>2, <3>5 DEF Conclude
    <3> QED
      BY <3>3, <3>4, <3>5 DEF Next
  <2> QED
    BY <2>1, <2>2
<1> QED
  BY <1>2, <1>3, <1>4 DEF RInv

LEMMA StutterKeepsRInv ==
    ASSUME RInv, UNCHANGED vars
    PROVE  RInv'
<1>1. SameMeaning
  BY SameArguments DEF vars
<1>2. RefusedMeansUnexplainable'
  BY <1>1 DEF RInv, RefusedMeansUnexplainable, SameMeaning, vars
<1> QED
  BY <1>2, StutterKeepsSInv DEF RInv, LInv, vars

\* A GraphError never hides a verdict: when a trace is refused after its projection, for its
\* evidence (build_candidate_space), its relations (validate_graph, validate_rvwmo) or its
\* number of candidates, no execution of it exists, or the trace contradicts itself, or
\* max_candidates was exceeded.
THEOREM RefusalsAreJustified ==
    ASSUME \A c \in Checks : Supported(c.trace) /\ Loadable(c.model)
    PROVE  Spec => []RefusedMeansUnexplainable
<1>1. ASSUME Init PROVE RInv
  BY <1>1 DEF Init, RInv, LInv, SInv, Typed, Projected, Fresh, Enumerated, Concluded, RefusedMeansUnexplainable
<1>2. ASSUME RInv, [Next]_vars PROVE RInv'
  BY <1>2, NextKeepsRInv, StutterKeepsRInv
<1>3. RInv => RefusedMeansUnexplainable
  BY DEF RInv
<1> QED
  BY <1>1, <1>2, <1>3, PTL DEF Spec

-----------------------------------------------------------------------------
(* What the signature of a judged execution tells of it. *)

LocatedIn(o) ==
    \A i, j \in Ids(o) : SameLocation(o[i], o[j]) <=> o[i].address = o[j].address

\* Operations with the same visible part.
Alike(o, p) ==
    /\ Ids(o) = Ids(p)
    /\ \A i \in Ids(o) : /\ o[i].kind = p[i].kind /\ o[i].address = p[i].address /\ o[i].value = p[i].value
                         /\ o[i].hart = p[i].hart /\ o[i].index = p[i].index

LEMMA VisibleIsAlike ==
    ASSUME NEW o, NEW p, Visible(o) = Visible(p)
    PROVE  Alike(o, p)
<1> DEFINE V(q, i) == [kind |-> q[i].kind, address |-> q[i].address, value |-> q[i].value,
                       hart |-> q[i].hart, index |-> q[i].index]
<1>1. DOMAIN Visible(o) = DOMAIN o /\ DOMAIN Visible(p) = DOMAIN p
  BY DEF Visible
<1>2. DOMAIN o = DOMAIN p
  BY <1>1
<1>3. ASSUME NEW i \in DOMAIN o PROVE V(o, i) = V(p, i)
  <2>1. Visible(o)[i] = V(o, i) /\ Visible(p)[i] = V(p, i)
    BY <1>2 DEF Visible
  <2> QED
    BY <2>1
<1>4. ASSUME NEW i \in DOMAIN o
      PROVE  /\ o[i].kind = p[i].kind /\ o[i].address = p[i].address /\ o[i].value = p[i].value
             /\ o[i].hart = p[i].hart /\ o[i].index = p[i].index
  BY <1>3
<1> QED
  BY <1>2, <1>4 DEF Alike, Ids

\* The store conditionals without exactly one partner, whatever the candidate.
Lone(o, pair) == {i \in Ids(o) : o[i].atomic = "sc" /\ Cardinality({e \in pair : e[2] = i}) # 1}

\* The store conditionals that another hart's write comes between.
Broken(o, r) ==
    {e[2] : e \in {p \in r.pair : LET lr == p[1]  sc == p[2]  s == Source(r, p[1]) IN
        \/ <<s, sc>> \notin r.co
        \/ \E w \in Writes(o) \ {s, sc} :
            /\ o[w].hart # o[lr].hart /\ Overlap(o[w], o[lr])
            /\ <<s, w>> \in r.co /\ <<w, sc>> \in r.co}}

LEMMA LrScParts ==
    ASSUME NEW o, NEW r
    PROVE  LrScOffenses(o, r) = Lone(o, r.pair) \cup Broken(o, r)
BY Zenon DEF LrScOffenses, Lone, Broken

LEMMA AlikeRoles ==
    ASSUME NEW o, NEW p, Alike(o, p)
    PROVE  Reads(o) = Reads(p) /\ Writes(o) = Writes(p) /\ Po(o) = Po(p)
<1>1. Reads(o) = Reads(p) /\ Writes(o) = Writes(p)
  BY DEF Alike, Reads, Writes, IsRead, IsWrite
<1>2. ASSUME NEW i \in Ids(o), NEW j \in Ids(o) PROVE Before(o[i], o[j]) <=> Before(p[i], p[j])
  BY DEF Alike, Before
<1>3. Po(o) = Po(p)
  BY <1>2 DEF Alike, Po
<1> QED
  BY <1>1, <1>3

LEMMA AlikeLoadValue ==
    ASSUME NEW o, NEW p, Alike(o, p), LocatedIn(o), LocatedIn(p), NEW r, NEW g
    PROVE  LoadValueOffenses(o, r, g) = LoadValueOffenses(p, r, g)
<1>1. ASSUME NEW x \in Reads(o) PROVE Eligible(o, g, x) = Eligible(p, g, x)
  <2>1. ASSUME NEW w \in Writes(o) PROVE SameLocation(o[w], o[x]) <=> SameLocation(p[w], p[x])
    BY DEF Alike, LocatedIn, Reads, Writes
  <2> QED
    BY <2>1, AlikeRoles DEF Eligible
<1>2. ASSUME NEW x \in Reads(o) PROVE ReadsLatest(o, r, g, x) <=> ReadsLatest(p, r, g, x)
  BY <1>1 DEF ReadsLatest
<1> QED
  BY <1>2, AlikeRoles DEF LoadValueOffenses

LEMMA AlikeBroken ==
    ASSUME NEW o, NEW p, Alike(o, p), LocatedIn(o), LocatedIn(p), NEW r,
           ScalarLocations(o), ScalarLocations(p), r.pair \subseteq Po(o),
           \A i \in Ids(o) : o[i].bytes # {} /\ p[i].bytes # {}
    PROVE  Broken(o, r) = Broken(p, r)
<1>1. ASSUME NEW i \in Ids(o), NEW j \in Ids(o) PROVE Overlap(o[i], o[j]) <=> o[i].address = o[j].address
  <2>1. Footprint(o[i]) # {}
    BY DEF Footprint
  <2> QED
    BY <2>1 DEF LocatedIn, ScalarLocations, Overlap, SameLocation
<1>2. ASSUME NEW i \in Ids(p), NEW j \in Ids(p) PROVE Overlap(p[i], p[j]) <=> p[i].address = p[j].address
  <2>1. Footprint(p[i]) # {}
    BY DEF Footprint, Alike
  <2> QED
    BY <2>1 DEF LocatedIn, ScalarLocations, Overlap, SameLocation
<1>3. ASSUME NEW i \in Ids(o), NEW j \in Ids(o)
      PROVE  (Overlap(o[i], o[j]) <=> Overlap(p[i], p[j])) /\ o[i].hart = p[i].hart
  BY <1>1, <1>2 DEF Alike
<1> DEFINE Between2(q, e, w) == /\ q[w].hart # q[e[1]].hart /\ Overlap(q[w], q[e[1]])
                                /\ <<Source(r, e[1]), w>> \in r.co /\ <<w, e[2]>> \in r.co
           Bad(q, e) == \/ <<Source(r, e[1]), e[2]>> \notin r.co
                        \/ \E w \in Writes(q) \ {Source(r, e[1]), e[2]} : Between2(q, e, w)
<1>4. ASSUME NEW e \in r.pair PROVE Bad(o, e) <=> Bad(p, e)
  <2>1. e[1] \in Ids(o)
    BY DEF Po
  <2>2. \A w \in Writes(o) : w \in Ids(o) /\ (Between2(o, e, w) <=> Between2(p, e, w))
    BY <1>3, <2>1 DEF Writes
  <2> HIDE DEF Between2
  <2> QED
    BY <2>2, AlikeRoles
<1>5. Broken(o, r) = {e[2] : e \in {x \in r.pair : Bad(o, x)}}
  BY Zenon DEF Broken
<1>6. Broken(p, r) = {e[2] : e \in {x \in r.pair : Bad(p, x)}}
  BY Zenon DEF Broken
<1> HIDE DEF Bad
<1> QED
  BY <1>4, <1>5, <1>6

\* The signature holds all the relations the candidate was completed to.
LEMMA SignatureTable ==
    ASSUME NEW t, NEW u, NEW m, NEW o, NEW p, NEW c, NEW d,
           DOMAIN t.hints = HintNames, DOMAIN u.hints = HintNames, Len(m.derived) \in Nat,
           WithDerived(TableOf(t, m, o, c), m.derived) = WithDerived(TableOf(u, m, p, d), m.derived)
    PROVE  /\ \A name \in HintNames \cup BaseNames(m) : TableOf(t, m, o, c)[name] = TableOf(u, m, p, d)[name]
           /\ \A name \in HintNames : t.hints[name] = u.hints[name]
<1> DEFINE T == TableOf(t, m, o, c)
           U == TableOf(u, m, p, d)
<1>1. DOMAIN T = HintNames \cup BaseNames(m) /\ \A name \in HintNames : T[name] = t.hints[name]
  <2>1. DOMAIN T = DOMAIN t.hints \cup BaseNames(m)
    BY TableNames
  <2>2. ASSUME NEW name \in DOMAIN t.hints PROVE T[name] = t.hints[name]
    BY TableHints
  <2> QED
    BY <2>1, <2>2
<1>2. DOMAIN U = HintNames \cup BaseNames(m) /\ \A name \in HintNames : U[name] = u.hints[name]
  <2>1. DOMAIN U = DOMAIN u.hints \cup BaseNames(m)
    BY TableNames
  <2>2. ASSUME NEW name \in DOMAIN u.hints PROVE U[name] = u.hints[name]
    BY TableHints
  <2> QED
    BY <2>1, <2>2
<1> HIDE DEF T, U
<1>3. \A name \in DOMAIN T : WithDerived(T, m.derived)[name] = T[name]
  BY DerivedTable
<1>4. \A name \in DOMAIN U : WithDerived(U, m.derived)[name] = U[name]
  BY DerivedTable
<1>5. WithDerived(T, m.derived) = WithDerived(U, m.derived)
  BY DEF T, U
<1>6. \A name \in HintNames \cup BaseNames(m) : T[name] = U[name]
  BY <1>1, <1>2, <1>3, <1>4, <1>5
<1>7. \A name \in HintNames : t.hints[name] = u.hints[name]
  BY <1>1, <1>2, <1>6
<1> QED
  BY <1>6, <1>7 DEF T, U

\* The relations of a candidate in its table, and those the RVWMO completion adds.
LEMMA TableChoice ==
    ASSUME NEW t, NEW m, NEW o, NEW c, DOMAIN t.hints = HintNames
    PROVE  TableOf(t, m, o, c)["rf"] = RelationsOf(t, c).rf /\ TableOf(t, m, o, c)["co"] = RelationsOf(t, c).co
<1> DEFINE r == RelationsOf(t, c)
           g == IF m.builtin = "rvwmo" THEN RvwmoTable(o, r, WitnessOf(o, r)) ELSE BaseTable(o, r, m.rules)
<1>1. g["rf"] = r.rf /\ g["co"] = r.co /\ "rf" \in DOMAIN g /\ "co" \in DOMAIN g
  <2> HIDE DEF r
  <2> QED
    BY DEF RvwmoTable, BaseTable
<1>2. "rf" \notin DOMAIN t.hints /\ "co" \notin DOMAIN t.hints
  BY DEF HintNames
<1>3. TableOf(t, m, o, c) = Extended(t.hints, g)
  BY DEF TableOf
<1> HIDE DEF r, g
<1> QED
  BY <1>1, <1>2, <1>3, ExtendedAdds DEF r

LEMMA TableCompletion ==
    ASSUME NEW t, NEW m, NEW o, NEW c, DOMAIN t.hints = HintNames, m.builtin = "rvwmo"
    PROVE  /\ TableOf(t, m, o, c)["ppo"] = Ppo(o, RelationsOf(t, c))
           /\ TableOf(t, m, o, c)["rfe"] = Rfe(o, RelationsOf(t, c))
           /\ TableOf(t, m, o, c)["fr"] = Fr(o, RelationsOf(t, c))
           /\ TableOf(t, m, o, c)["gmo"] = WitnessOf(o, RelationsOf(t, c))
<1> DEFINE r == RelationsOf(t, c)
           g == RvwmoTable(o, r, WitnessOf(o, r))
<1>1. /\ g["ppo"] = Ppo(o, r) /\ g["rfe"] = Rfe(o, r) /\ g["fr"] = Fr(o, r) /\ g["gmo"] = WitnessOf(o, r)
      /\ {"ppo", "rfe", "fr", "gmo"} \subseteq DOMAIN g
  <2> HIDE DEF r
  <2> QED
    BY DEF RvwmoTable
<1>2. {"ppo", "rfe", "fr", "gmo"} \cap DOMAIN t.hints = {}
  BY DEF HintNames
<1>3. TableOf(t, m, o, c) = Extended(t.hints, g)
  BY DEF TableOf
<1> HIDE DEF r, g
<1>4. \A name \in {"ppo", "rfe", "fr", "gmo"} : Extended(t.hints, g)[name] = g[name]
  BY <1>1, <1>2, ExtendedAdds
<1> QED
  BY <1>1, <1>3, <1>4 DEF r

\* A store conditional without its partner forbids every candidate.
LEMMA LoneForbids ==
    ASSUME NEW t, NEW m, NEW o, NEW c, DOMAIN t.hints = HintNames, m.builtin = "rvwmo",
           NEW R, NEW C, c = [rf |-> R, co |-> C], Lone(o, t.hints["pair"]) # {}
    PROVE  ~ PassesOf(t, m, o, c)
<1>1. RelationsOf(t, c).pair = t.hints["pair"]
  BY CandidateRelations
<1>2. LrScOffenses(o, RelationsOf(t, c)) # {}
  BY <1>1, LrScParts
<1> QED
  BY <1>2, PassedMeans DEF PassesOf

\* Otherwise the signature decides: executions with the same one are the same and are judged alike.
LEMMA SignatureDecides ==
    ASSUME NEW t, NEW u, NEW m, NEW o, NEW p, NEW c, NEW d,
           DOMAIN t.hints = HintNames, DOMAIN u.hints = HintNames, Len(m.derived) \in Nat,
           NEW R, NEW C, c = [rf |-> R, co |-> C], NEW Q, NEW D, d = [rf |-> Q, co |-> D],
           LocatedIn(o), LocatedIn(p),
           \A i \in Ids(o) : o[i].atomic # "amo", \A i \in Ids(p) : p[i].atomic # "amo",
           ~ UnjudgeableOf(t, m, o, c), ~ UnjudgeableOf(u, m, p, d),
           Visible(o) = Visible(p),
           WithDerived(TableOf(t, m, o, c), m.derived) = WithDerived(TableOf(u, m, p, d), m.derived)
    PROVE  /\ c = d
           /\ (m.builtin = "rvwmo" => Lone(o, t.hints["pair"]) = {} /\ Lone(p, u.hints["pair"]) = {})
              => (PassesOf(t, m, o, c) <=> PassesOf(u, m, p, d))
<1> DEFINE r == RelationsOf(t, c)
           s == RelationsOf(u, d)
           T == TableOf(t, m, o, c)
           U == TableOf(u, m, p, d)
<1>1. \A name \in HintNames \cup BaseNames(m) : T[name] = U[name]
  BY SignatureTable
<1>2. \A name \in HintNames : t.hints[name] = u.hints[name]
  BY SignatureTable
<1>3. T["rf"] = r.rf /\ T["co"] = r.co
  BY TableChoice
<1>4. U["rf"] = s.rf /\ U["co"] = s.co
  BY TableChoice
<1>5. r.rf = R /\ r.co = C /\ s.rf = Q /\ s.co = D
  BY CandidateRelations
<1>6. {"rf", "co", "ppo", "rfe", "fr"} \subseteq BaseNames(m) /\ (m.builtin = "rvwmo" => "gmo" \in BaseNames(m))
  BY DEF BaseNames
<1>7. c = d
  <2> HIDE DEF T, U, r, s
  <2> QED
    BY <1>1, <1>3, <1>4, <1>5, <1>6
<1>8. r = s
  <2>1. DOMAIN c = {"rf", "co"}
    OBVIOUS
  <2>2. r = [name \in HintNames \cup {"rf", "co"} |-> IF name \in HintNames THEN t.hints[name] ELSE c[name]]
    BY <2>1 DEF RelationsOf, Extended
  <2>3. s = [name \in HintNames \cup {"rf", "co"} |-> IF name \in HintNames THEN u.hints[name] ELSE c[name]]
    BY <2>1, <1>7 DEF RelationsOf, Extended
  <2> HIDE DEF r, s
  <2> QED
    BY <1>2, <2>2, <2>3
<1>9. Alike(o, p)
  BY VisibleIsAlike
<1>10. ASSUME m.builtin = "rvwmo", Lone(o, t.hints["pair"]) = {}, Lone(p, u.hints["pair"]) = {}
       PROVE  Passed(Judgement(o, r, WitnessOf(o, r))) <=> Passed(Judgement(p, s, WitnessOf(p, s)))
  <2>13. T["ppo"] = Ppo(o, r) /\ T["rfe"] = Rfe(o, r) /\ T["fr"] = Fr(o, r) /\ T["gmo"] = WitnessOf(o, r)
    BY <1>10, TableCompletion
  <2>14. U["ppo"] = Ppo(p, s) /\ U["rfe"] = Rfe(p, s) /\ U["fr"] = Fr(p, s) /\ U["gmo"] = WitnessOf(p, s)
    BY <1>10, TableCompletion
  <2>1. /\ ValidGraph(o, r) /\ ValidGraph(p, s)
    BY <1>10 DEF UnjudgeableOf
  <2>2. r.pair = t.hints["pair"] /\ s.pair = u.hints["pair"]
    BY CandidateRelations
  <2> DEFINE g == WitnessOf(o, r)
  <2>3. WitnessOf(p, s) = g
    <3> HIDE DEF T, U, r, s
    <3> QED
      BY <1>1, <1>6, <1>10, <2>13, <2>14
  <2>4. OrderEdges(o, r) = OrderEdges(p, s)
    <3>1. Ppo(o, r) = Ppo(p, s) /\ Rfe(o, r) = Rfe(p, s) /\ Fr(o, r) = Fr(p, s)
      <4> HIDE DEF T, U, r, s
      <4> QED
        BY <1>1, <1>6, <1>10, <2>13, <2>14
    <3> HIDE DEF r, s
    <3> QED
      BY <1>8, <3>1 DEF OrderEdges
  <2> HIDE DEF g, r, s, T, U
  <2>5. OrderAcyclic(o, r) <=> OrderAcyclic(p, s)
    BY <1>9, <2>4 DEF OrderAcyclic, Alike
  <2>6. LoadValueOffenses(o, r, g) = LoadValueOffenses(p, s, g)
    BY <1>8, <1>9, AlikeLoadValue
  <2>7. AmoOffenses(o, r) = {} /\ AmoOffenses(p, s) = {}
    BY DEF AmoOffenses
  <2>8. LrScOffenses(o, r) = Broken(o, r) /\ LrScOffenses(p, s) = Broken(p, s)
    BY <1>10, <2>2, LrScParts
  <2>9. Broken(o, r) = Broken(p, r)
    <3>1. /\ ScalarLocations(o) /\ ScalarLocations(p) /\ r.pair \subseteq Po(o)
          /\ \A i \in Ids(o) : o[i].bytes # {} /\ p[i].bytes # {}
      BY <1>9, <2>1 DEF ValidGraph, HintsInPo, Alike
    <3> QED
      BY <1>9, <3>1, AlikeBroken
  <2>10. Passed(Judgement(o, r, g)) <=> /\ OrderAcyclic(o, r)
                                        /\ g = {} \/ LoadValueOffenses(o, r, g) = {}
                                        /\ AmoOffenses(o, r) = {}
                                        /\ LrScOffenses(o, r) = {}
    BY PassedMeans
  <2>11. Passed(Judgement(p, s, g)) <=> /\ OrderAcyclic(p, s)
                                        /\ g = {} \/ LoadValueOffenses(p, s, g) = {}
                                        /\ AmoOffenses(p, s) = {}
                                        /\ LrScOffenses(p, s) = {}
    BY PassedMeans
  <2>12. WitnessOf(o, r) = g
    BY DEF g
  <2> QED
    BY <1>8, <2>3, <2>5, <2>6, <2>7, <2>8, <2>9, <2>10, <2>11, <2>12
<1>11. Ids(o) = Ids(p)
  BY <1>9 DEF Alike
<1> HIDE DEF r, s, T, U
<1>12. /\ PassesOf(t, m, o, c) <=>
            /\ m.builtin = "rvwmo" => Passed(Judgement(o, r, WitnessOf(o, r)))
            /\ \A axiom \in m.axioms : AxiomHolds(axiom, WithDerived(T, m.derived), Ids(o))
       /\ PassesOf(u, m, p, d) <=>
            /\ m.builtin = "rvwmo" => Passed(Judgement(p, s, WitnessOf(p, s)))
            /\ \A axiom \in m.axioms : AxiomHolds(axiom, WithDerived(U, m.derived), Ids(p))
  BY DEF PassesOf, r, s, T, U
<1>13. WithDerived(T, m.derived) = WithDerived(U, m.derived)
  BY DEF T, U
<1> QED
  BY <1>7, <1>10, <1>11, <1>12, <1>13

-----------------------------------------------------------------------------
(* A trace and its abstraction. *)

\* The result of the first check, kept while the second one runs.
FirstResult(r, m) ==
    /\ DOMAIN r.trace.hints = HintNames
    /\ LocatedIn(r.ops) /\ \A i \in Ids(r.ops) : r.ops[i].atomic # "amo"
    /\ {k.candidate : k \in r.checked} = At(r.trace, m, r.ops)!Executions
    /\ \A k \in r.checked : /\ \E R, C : k.candidate = [rf |-> R, co |-> C]
                            /\ k.allowed <=> PassesOf(r.trace, m, r.ops, k.candidate)
                            /\ ~ UnjudgeableOf(r.trace, m, r.ops, k.candidate)
    /\ r.status = IF \E k \in r.checked : k.allowed THEN "allowed" ELSE "forbidden"

Current == [trace |-> trace, ops |-> ops, checked |-> checked, status |-> status]

LEMMA DoneIsResult ==
    ASSUME SInv, phase = "done"
    PROVE  FirstResult(Current, model)
<1>1. Located
  BY OperationsAreLocated DEF SInv, Projected
<1>2. LocatedIn(ops) /\ \A i \in Ids(ops) : ops[i].atomic # "amo"
  BY <1>1 DEF Located, LocatedIn
<1>3. {k.candidate : k \in checked} = At(trace, model, ops)!Executions
  BY ExecutionsAt DEF SInv, Enumerated, Concluded
<1>4. ASSUME NEW k \in checked
      PROVE  /\ \E R, C : k.candidate = [rf |-> R, co |-> C]
             /\ k.allowed <=> PassesOf(trace, model, ops, k.candidate)
             /\ ~ UnjudgeableOf(trace, model, ops, k.candidate)
  <2>1. k.candidate \in Executions
    BY DEF SInv, Enumerated
  <2>2. \E R, C : k.candidate = [rf |-> R, co |-> C]
    BY <2>1, ExecutionsArePairs
  <2> QED
    BY <2>2, MeaningOf DEF SInv, Enumerated
<1>5. /\ Current.trace = trace /\ Current.ops = ops /\ Current.checked = checked /\ Current.status = status
  BY DEF Current
<1>6. DOMAIN trace.hints = HintNames
  BY DEF SInv, Supported
<1>7. status = IF \E k \in checked : k.allowed THEN "allowed" ELSE "forbidden"
  BY DEF SInv, Concluded
<1> QED
  BY <1>2, <1>3, <1>4, <1>5, <1>6, <1>7 DEF FirstResult

PInv ==
    /\ RInv
    /\ reduced = NoTrace \/ Supported(reduced)
    /\ concrete # NoResult => FirstResult(concrete, model)

LEMMA NextKeepsPInv ==
    ASSUME PInv, PairNext
    PROVE  PInv'
<1>1. CASE CheckStep
  <2>1. Next /\ reduced' = reduced /\ concrete' = concrete /\ model' = model
    BY <1>1 DEF CheckStep, Next, Project, Choose, Judge, Conclude, Fail
  <2>2. RInv'
    BY <2>1, NextKeepsRInv DEF PInv
  <2>4. (concrete # NoResult => FirstResult(concrete, model))'
    BY <2>1 DEF PInv
  <2> QED
    BY <2>1, <2>2, <2>4 DEF PInv
<1>2. CASE CheckAbstraction
  <2>1. /\ phase = "done" /\ reduced # NoTrace /\ concrete' = Current
        /\ trace' = reduced /\ reduced' = reduced /\ model' = model
        /\ phase' = "project" /\ ops' = << >> /\ pending' = {} /\ checked' = {} /\ status' = "none"
    BY <1>2 DEF CheckAbstraction, Current
  <2>2. FirstResult(Current, model)
    BY <2>1, DoneIsResult DEF PInv, RInv
  <2>3. FirstResult(concrete, model)'
    BY <2>1, <2>2
  <2>4. SInv'
    BY <2>1 DEF PInv, SInv, Typed, Projected, Fresh, Enumerated, Concluded
  <2>5. RInv'
    BY <2>1, <2>4 DEF PInv, RInv, LInv, RefusedMeansUnexplainable
  <2> QED
    BY <2>1, <2>3, <2>5 DEF PInv
<1> QED
  BY <1>1, <1>2 DEF PairNext

LEMMA StutterKeepsPInv ==
    ASSUME PInv, UNCHANGED pairVars
    PROVE  PInv'
<1>1. UNCHANGED vars /\ reduced' = reduced /\ concrete' = concrete /\ model' = model
  BY DEF pairVars, vars
<1>2. RInv'
  BY <1>1, StutterKeepsRInv DEF PInv
<1> QED
  BY <1>1, <1>2 DEF PInv

\* Executions of the two traces with the same signature are one execution, judged once.
LEMMA SameSignature ==
    ASSUME NEW r, NEW q, NEW m, Len(m.derived) \in Nat, FirstResult(r, m), FirstResult(q, m),
           r.status = q.status, NEW k \in r.checked, NEW l \in q.checked,
           Visible(r.ops) = Visible(q.ops),
           WithDerived(TableOf(r.trace, m, r.ops, k.candidate), m.derived)
             = WithDerived(TableOf(q.trace, m, q.ops, l.candidate), m.derived)
    PROVE  k.candidate = l.candidate /\ (k.allowed <=> l.allowed)
<1>1. PICK R, C : k.candidate = [rf |-> R, co |-> C]
  BY DEF FirstResult
<1>2. PICK Q, D : l.candidate = [rf |-> Q, co |-> D]
  BY DEF FirstResult
<1> DEFINE c == k.candidate
           d == l.candidate
<1>3. /\ k.allowed <=> PassesOf(r.trace, m, r.ops, c)
      /\ l.allowed <=> PassesOf(q.trace, m, q.ops, d)
      /\ ~ UnjudgeableOf(r.trace, m, r.ops, c) /\ ~ UnjudgeableOf(q.trace, m, q.ops, d)
      /\ DOMAIN r.trace.hints = HintNames /\ DOMAIN q.trace.hints = HintNames
  BY DEF FirstResult
<1> DEFINE loneR == m.builtin = "rvwmo" /\ Lone(r.ops, r.trace.hints["pair"]) # {}
           loneQ == m.builtin = "rvwmo" /\ Lone(q.ops, q.trace.hints["pair"]) # {}
<1>4. /\ c = d
      /\ ~ loneR /\ ~ loneQ => (PassesOf(r.trace, m, r.ops, c) <=> PassesOf(q.trace, m, q.ops, d))
  BY <1>1, <1>2, <1>3, SignatureDecides DEF FirstResult
<1>5. ASSUME loneR PROVE \A j \in r.checked : ~ j.allowed
  <2> TAKE j \in r.checked
  <2>1. PICK J, I : j.candidate = [rf |-> J, co |-> I]
    BY DEF FirstResult
  <2>2. ~ PassesOf(r.trace, m, r.ops, j.candidate)
    BY <1>3, <1>5, <2>1, LoneForbids
  <2> QED
    BY <2>2 DEF FirstResult
<1>6. ASSUME loneQ PROVE \A j \in q.checked : ~ j.allowed
  <2> TAKE j \in q.checked
  <2>1. PICK J, I : j.candidate = [rf |-> J, co |-> I]
    BY DEF FirstResult
  <2>2. ~ PassesOf(q.trace, m, q.ops, j.candidate)
    BY <1>3, <1>6, <2>1, LoneForbids
  <2> QED
    BY <2>2 DEF FirstResult
<1>7. (\E j \in r.checked : j.allowed) <=> (\E j \in q.checked : j.allowed)
  BY DEF FirstResult
<1> HIDE DEF loneR, loneQ, c, d
<1>8. k.allowed <=> l.allowed
  <2>1. CASE loneR \/ loneQ
    BY <1>5, <1>6, <1>7, <2>1
  <2>2. CASE ~ loneR /\ ~ loneQ
    BY <1>3, <1>4, <2>2
  <2> QED
    BY <2>1, <2>2
<1> QED
  BY <1>4, <1>8 DEF c, d

SignaturesOf(r, m) ==
    {<<Visible(r.ops), WithDerived(TableOf(r.trace, m, r.ops, k.candidate), m.derived)>> : k \in r.checked}

LEMMA SameSignatures ==
    ASSUME NEW r, NEW q, NEW m, Len(m.derived) \in Nat, FirstResult(r, m), FirstResult(q, m),
           r.status = q.status, SignaturesOf(r, m) = SignaturesOf(q, m), NEW k \in r.checked
    PROVE  \E l \in q.checked : k.candidate = l.candidate /\ (k.allowed <=> l.allowed)
<1> DEFINE S(x, j) == <<Visible(x.ops), WithDerived(TableOf(x.trace, m, x.ops, j.candidate), m.derived)>>
<1>1. SignaturesOf(r, m) = {S(r, j) : j \in r.checked} /\ SignaturesOf(q, m) = {S(q, j) : j \in q.checked}
  BY DEF SignaturesOf
<1>2. \A x, y, i, j : S(x, i) = S(y, j) =>
        /\ Visible(x.ops) = Visible(y.ops)
        /\ WithDerived(TableOf(x.trace, m, x.ops, i.candidate), m.derived)
             = WithDerived(TableOf(y.trace, m, y.ops, j.candidate), m.derived)
  OBVIOUS
<1> HIDE DEF S
<1>3. PICK l \in q.checked : S(r, k) = S(q, l)
  BY <1>1
<1>4. /\ Visible(r.ops) = Visible(q.ops)
      /\ WithDerived(TableOf(r.trace, m, r.ops, k.candidate), m.derived)
           = WithDerived(TableOf(q.trace, m, q.ops, l.candidate), m.derived)
  BY <1>2, <1>3
<1>5. k.candidate = l.candidate /\ (k.allowed <=> l.allowed)
  BY <1>4, SameSignature
<1> QED
  BY <1>5

LEMMA PreservedIsSame ==
    ASSUME PInv
    PROVE  PreservedMeansSameExecutions
<1> SUFFICES ASSUME Compared, Preserved
             PROVE  /\ Executions = At(concrete.trace, model, concrete.ops)!Executions
                    /\ \A x \in Executions :
                          Passes(x) <=> At(concrete.trace, model, concrete.ops)!Passes(x)
  BY DEF PreservedMeansSameExecutions
<1> DEFINE q == concrete
           r == Current
<1>1. FirstResult(r, model) /\ FirstResult(q, model)
  BY DoneIsResult DEF PInv, RInv, Compared
<1>2. r.trace = trace /\ r.ops = ops /\ r.checked = checked /\ r.status = status
  BY DEF Current
<1>3. r.status = q.status
  BY <1>2 DEF Preserved
<1>4. Len(model.derived) \in Nat
  BY DEF PInv, RInv, LInv, Loadable
<1>5. AbstractSignatures = SignaturesOf(r, model)
  BY <1>2, MeaningOf DEF AbstractSignatures, SignaturesOf, Signature
<1>6. ConcreteSignatures = SignaturesOf(q, model)
  BY TableAt DEF ConcreteSignatures, SignaturesOf, Signature
<1>7. SignaturesOf(r, model) = SignaturesOf(q, model)
  BY <1>5, <1>6 DEF Preserved
<1> HIDE DEF q, r
<1>8. ASSUME NEW k \in r.checked
      PROVE  \E l \in q.checked : k.candidate = l.candidate /\ (k.allowed <=> l.allowed)
  BY <1>1, <1>3, <1>4, <1>7, SameSignatures
<1>9. ASSUME NEW k \in q.checked
      PROVE  \E l \in r.checked : k.candidate = l.candidate /\ (k.allowed <=> l.allowed)
  BY <1>1, <1>3, <1>4, <1>7, SameSignatures
<1>10. Executions = {k.candidate : k \in r.checked}
  BY <1>2, DoneIsResult, ExecutionsAt DEF PInv, RInv, SInv, Enumerated, Concluded, Compared
<1>11. At(q.trace, model, q.ops)!Executions = {k.candidate : k \in q.checked}
  BY <1>1 DEF FirstResult
<1>12. Executions = At(q.trace, model, q.ops)!Executions
  BY <1>8, <1>9, <1>10, <1>11
<1>13. ASSUME NEW x \in Executions
       PROVE  Passes(x) <=> At(q.trace, model, q.ops)!Passes(x)
  <2>1. PICK k \in r.checked : x = k.candidate
    BY <1>10
  <2>2. PICK l \in q.checked : k.candidate = l.candidate /\ (k.allowed <=> l.allowed)
    BY <1>8
  <2>3. k.allowed <=> Passes(x)
    BY <1>1, <1>2, <2>1, MeaningOf DEF FirstResult
  <2>4. l.allowed <=> PassesOf(q.trace, model, q.ops, x)
    BY <1>1, <2>1, <2>2 DEF FirstResult
  <2>5. PassesOf(q.trace, model, q.ops, x) <=> At(q.trace, model, q.ops)!Passes(x)
    BY PassesAt
  <2> QED
    BY <2>2, <2>3, <2>4, <2>5
<1> QED
  BY <1>12, <1>13 DEF q

\* The traces are supported and the models loadable, of single checks and of both in a comparison.
PairsSupported ==
    /\ \A c \in Checks : Supported(c.trace) /\ Loadable(c.model)
    /\ \A p \in Pairs : Supported(p.trace) /\ Supported(p.reduced) /\ Loadable(p.model)

LEMMA PInvariance ==
    ASSUME PairsSupported
    PROVE  PairSpec => []PInv
<1>1. ASSUME PairInit PROVE PInv
  <2>1. /\ Supported(trace) /\ Loadable(model) /\ (reduced = NoTrace \/ Supported(reduced))
        /\ phase = "project" /\ ops = << >> /\ pending = {} /\ checked = {} /\ concrete = NoResult
    BY <1>1 DEF PairInit, Given, PairsSupported
  <2> QED
    BY <2>1 DEF PInv, RInv, LInv, SInv, Typed, Projected, Fresh, Enumerated, Concluded,
                RefusedMeansUnexplainable
<1>2. ASSUME PInv, [PairNext]_pairVars PROVE PInv'
  BY <1>2, NextKeepsPInv, StutterKeepsPInv
<1> QED
  BY <1>1, <1>2, PTL DEF PairSpec

\* Verdicts and refusals are as justified when one check follows another.
THEOREM PairVerdicts ==
    ASSUME PairsSupported
    PROVE  PairSpec => [](AllowedIffExplained /\ RefusedMeansUnexplainable)
<1>1. PInv => AllowedIffExplained /\ RefusedMeansUnexplainable
  BY VerdictOfExecutions DEF PInv, RInv
<1> QED
  BY <1>1, PInvariance, PTL

\* The signatures that check_memory_model_preservation compares are enough: an abstraction whose
\* executions have the signatures of the concrete ones, and the same verdict, has the same
\* executions, each judged as it was, although annotations, bytes and commits are not in a signature.
THEOREM PreservationIsSound ==
    ASSUME PairsSupported
    PROVE  PairSpec => []PreservedMeansSameExecutions
BY PInvariance, PreservedIsSame, PTL

-----------------------------------------------------------------------------
(* Acyclic relations have linear extensions. *)

\* A downward-closed part of S, put in order.
Arranged(S, edges, T, R) ==
    /\ T \in SUBSET S
    /\ R \in SUBSET (T \X T)
    /\ StrictTotal(T, R)
    /\ \A m \in S, n \in T : <<m, n>> \in edges => m \in T /\ <<m, n>> \in R

\* A node without predecessors outside the arranged part comes next.
LEMMA ArrangedGrows ==
    ASSUME NEW S, NEW edges, NEW T, NEW R, Arranged(S, edges, T, R),
           NEW n \in S \ T, \A m \in S \ T : <<m, n>> \notin edges
    PROVE  Arranged(S, edges, T \cup {n}, R \cup (T \X {n}))
<1> DEFINE U == T \cup {n}
           Q == R \cup (T \X {n})
<1>1. /\ T \in SUBSET S /\ R \in SUBSET (T \X T)
      /\ \A i, j \in T : <<i, j>> \in R => <<j, i>> \notin R
      /\ \A i, j \in T : i # j => <<i, j>> \in R \/ <<j, i>> \in R
      /\ \A i, j, k \in T : <<i, j>> \in R /\ <<j, k>> \in R => <<i, k>> \in R
  BY DEF Arranged, StrictTotal
<1>2. \A i, j : <<i, j>> \in Q <=> \/ i \in T /\ j \in T /\ <<i, j>> \in R
                                   \/ i \in T /\ j = n
  <2>1. \A i, j : <<i, j>> \in R => i \in T /\ j \in T
    <3>1. \A e \in R : e[1] \in T /\ e[2] \in T
      BY <1>1
    <3> QED
      BY <3>1
  <2>2. \A i, j : <<i, j>> \in T \X {n} <=> i \in T /\ j = n
    OBVIOUS
  <2>3. \A e : e \in Q <=> e \in R \/ e \in T \X {n}
    OBVIOUS
  <2> HIDE DEF Q
  <2> QED
    BY <2>1, <2>2, <2>3, Zenon
<1>3. StrictTotal(U, Q)
  <2> HIDE DEF Q
  <2>1. \A i, j \in U : <<i, j>> \in Q => <<j, i>> \notin Q
    BY <1>1, <1>2
  <2>2. \A i, j \in U : i # j => <<i, j>> \in Q \/ <<j, i>> \in Q
    <3> SUFFICES ASSUME NEW i \in U, NEW j \in U, i # j PROVE <<i, j>> \in Q \/ <<j, i>> \in Q
      BY Zenon
    <3>1. CASE i \in T /\ j \in T
      BY <1>1, <1>2, <3>1
    <3>2. CASE i = n \/ j = n
      BY <1>2, <3>2
    <3> QED
      BY <3>1, <3>2
  <2>3. \A i, j, k \in U : <<i, j>> \in Q /\ <<j, k>> \in Q => <<i, k>> \in Q
    BY <1>1, <1>2
  <2> QED
    BY <2>1, <2>2, <2>3 DEF StrictTotal
<1>4. U \in SUBSET S /\ Q \in SUBSET (U \X U)
  BY <1>1
<1>5. \A m \in S, k \in U : <<m, k>> \in edges => m \in U /\ <<m, k>> \in Q
  BY <1>2 DEF Arranged
<1> QED
  BY <1>3, <1>4, <1>5 DEF Arranged

LEMMA AcyclicIsOrdered ==
    ASSUME NEW S, IsFiniteSet(S), NEW edges, ~ Cyclic(S, edges)
    PROVE  \E R : StrictTotal(S, R) /\ \A i, j \in S : <<i, j>> \in edges => <<i, j>> \in R
<1> DEFINE Sizes == {k \in Nat : \E T, R : Arranged(S, edges, T, R) /\ Cardinality(S \ T) = k}
<1>1. Sizes # {}
  <2>1. Arranged(S, edges, {}, {})
    BY DEF Arranged, StrictTotal
  <2>2. Cardinality(S \ {}) \in Nat
    BY FS_CardinalityType
  <2> QED
    BY <2>1, <2>2
<1>2. PICK least \in Sizes : \A k \in Sizes : least <= k
  <2>1. Sizes \in SUBSET Nat
    OBVIOUS
  <2> HIDE DEF Sizes
  <2> QED
    BY <1>1, <2>1, LeastNatural
<1>3. PICK T, R : Arranged(S, edges, T, R) /\ Cardinality(S \ T) = least
  OBVIOUS
<1>4. S \ T = {}
  <2> SUFFICES ASSUME S \ T # {} PROVE FALSE
    OBVIOUS
  <2>1. PICK n \in S \ T : \A m \in S \ T : <<m, n>> \notin edges
    <3>1. S \ T \in SUBSET S
      OBVIOUS
    <3> QED
      BY <3>1 DEF Cyclic, PredecessorClosed
  <2>2. Arranged(S, edges, T \cup {n}, R \cup (T \X {n}))
    BY <1>3, <2>1, ArrangedGrows
  <2>3. /\ IsFiniteSet(S \ T)
        /\ S \ (T \cup {n}) = (S \ T) \ {n}
    BY FS_Subset
  <2>4. Cardinality(S \ (T \cup {n})) = least - 1 /\ least - 1 \in Nat
    <3>1. Cardinality((S \ T) \ {n}) = Cardinality(S \ T) - 1
      BY <2>3, FS_RemoveElement
    <3>2. IsFiniteSet((S \ T) \ {n})
      BY <2>3, FS_RemoveElement
    <3>3. Cardinality((S \ T) \ {n}) \in Nat
      BY <3>2, FS_CardinalityType
    <3> QED
      BY <1>3, <2>3, <3>1, <3>3
  <2>5. least - 1 \in Sizes
    BY <2>2, <2>4
  <2> QED
    BY <1>2, <2>4, <2>5
<1>5. T = S
  BY <1>3, <1>4 DEF Arranged
<1> QED
  BY <1>3, <1>5 DEF Arranged

\* What a member of TotalOrders is, and that a strict total order gives one.
LEMMA TotalOrdersAreTotal ==
    ASSUME NEW S \in SUBSET Nat, NEW edges, NEW g \in TotalOrders(S, edges)
    PROVE  StrictTotal(S, g) /\ \A i, j \in S : <<i, j>> \in edges => <<i, j>> \in g
<1>1. PICK f \in [S -> S] : /\ \A e \in edges : f[e[1]] < f[e[2]]
                            /\ \A i, j \in S : f[i] = f[j] => i = j
                            /\ g = {e \in S \X S : f[e[1]] < f[e[2]]}
  BY DEF TotalOrders
<1>2. \A i, j \in S : <<i, j>> \in g <=> f[i] < f[j]
  BY <1>1
<1>3. \A i \in S : f[i] \in Nat
  OBVIOUS
<1>4. \A i, j \in S : i # j => f[i] < f[j] \/ f[j] < f[i]
  BY <1>1, <1>3
<1>5. \A i, j \in S : <<i, j>> \in edges => f[i] < f[j]
  BY <1>1
<1> QED
  BY <1>2, <1>3, <1>4, <1>5 DEF StrictTotal

LEMMA TotalOrdersExist ==
    ASSUME NEW S \in SUBSET Nat, IsFiniteSet(S), NEW edges \in SUBSET (S \X S), ~ Cyclic(S, edges)
    PROVE  TotalOrders(S, edges) # {}
<1>1. PICK R : StrictTotal(S, R) /\ \A i, j \in S : <<i, j>> \in edges => <<i, j>> \in R
  BY AcyclicIsOrdered
<1>2. PICK f \in [S -> S] : \A i, j \in S : <<i, j>> \in R <=> f[i] < f[j]
  BY <1>1, Ranking
<1>3. \A i, j \in S : f[i] = f[j] => i = j
  <2> SUFFICES ASSUME NEW i \in S, NEW j \in S, f[i] = f[j], i # j PROVE FALSE
    OBVIOUS
  <2>1. <<i, j>> \in R \/ <<j, i>> \in R
    BY <1>1 DEF StrictTotal
  <2>2. f[i] \in Nat /\ f[j] \in Nat
    OBVIOUS
  <2> QED
    BY <1>2, <2>1, <2>2
<1>4. \A e \in edges : f[e[1]] < f[e[2]]
  <2> TAKE e \in edges
  <2>1. e = <<e[1], e[2]>> /\ e[1] \in S /\ e[2] \in S
    OBVIOUS
  <2> QED
    BY <1>1, <1>2, <2>1
<1>5. {e \in S \X S : f[e[1]] < f[e[2]]} \in TotalOrders(S, edges)
  BY <1>3, <1>4 DEF TotalOrders
<1> QED
  BY <1>5

-----------------------------------------------------------------------------
(* Ordinary accesses under RVWMO. *)

OrdinaryOps ==
    \A i \in Ids(ops) : /\ ops[i].atomic = "ordinary" /\ ops[i].index \in Nat
                        /\ ops[i].kind = "init_write" <=> ops[i].hart = NoHart

LEMMA OperationsAreOrdinary ==
    ASSUME Unreserved(trace), ops = Operations(trace.events)
    PROVE  OrdinaryOps
<1> DEFINE A == Architectural(trace.events)
<1>1. Ids(ops) = {e.op : e \in A}
  BY DEF Ids, Operations
<1>2. ASSUME NEW i \in Ids(ops)
      PROVE  /\ ops[i].atomic = "ordinary" /\ ops[i].index \in Nat
             /\ ops[i].kind = "init_write" <=> ops[i].hart = NoHart
  <2> DEFINE e == CHOOSE f \in A : f.op = i
  <2>1. e \in A
    BY <1>1, <1>2
  <2>2. ops[i] = Operation(trace.events, e)
    BY <1>1, <1>2 DEF Operations
  <2>3. e.type \in {"init", "load", "store"} /\ (e.type # "init" => e.hart # NoHart) /\ e.index \in Nat
    BY <2>1 DEF Unreserved
  <2> HIDE DEF e, A
  <2> QED
    BY <2>2, <2>3 DEF Operation
<1> QED
  BY <1>2 DEF OrdinaryOps

\* The relations of an execution that can be judged.
LEMMA JudgeableParts ==
    ASSUME Located, DOMAIN trace.hints = HintNames, model.builtin = "rvwmo",
           NEW x \in Executions, ~ Unjudgeable(x)
    PROVE  /\ Relations(x).rf = x.rf /\ Relations(x).co = x.co
           /\ ValidGraph(ops, Relations(x)) /\ ValidPairs(ops, Relations(x))
           /\ OrderEdges(ops, Relations(x)) \in SUBSET (Ids(ops) \X Ids(ops))
<1>1. PICK f \in [Reads(ops) -> Writes(ops)] : \E C : x = [rf |-> {<<f[r], r>> : r \in Reads(ops)}, co |-> C]
  BY ExecutionParts
<1>2. Relations(x).rf = x.rf /\ Relations(x).co = x.co
  <2> DEFINE R == {<<f[r], r>> : r \in Reads(ops)}
  <2>1. PICK C : x = [rf |-> R, co |-> C]
    BY <1>1
  <2>2. Relations(x) = RelationsOf(trace, x)
    BY DEF Relations, RelationsOf
  <2> HIDE DEF R
  <2> QED
    BY <2>1, <2>2, CandidateRelations
<1>3. ValidGraph(ops, Relations(x)) /\ ValidPairs(ops, Relations(x))
  BY DEF Unjudgeable
<1>4. Relations(x).rf \subseteq Writes(ops) \X Reads(ops) /\ Relations(x).co \subseteq Writes(ops) \X Writes(ops)
  BY <1>3 DEF ValidGraph, ValidRf, ValidCo
<1>5. OrderEdges(ops, Relations(x)) \in SUBSET (Ids(ops) \X Ids(ops))
  BY <1>4 DEF OrderEdges, Ppo, Po, Rfe, Fr, Reads, Writes
<1> QED
  BY <1>2, <1>3, <1>5

\* The witness of a graph whose order relations are acyclic.
LEMMA WitnessIsOrder ==
    ASSUME Located, NEW rel, OrderEdges(ops, rel) \in SUBSET (Ids(ops) \X Ids(ops)), OrderAcyclic(ops, rel)
    PROVE  StrictTotal(Ids(ops), Witness(rel)) /\ OrderEdges(ops, rel) \subseteq Witness(rel)
<1> DEFINE S == Ids(ops)
           E == OrderEdges(ops, rel)
<1>1. ~ Cyclic(S, E) /\ S \in SUBSET Nat /\ IsFiniteSet(S)
  BY DEF OrderAcyclic, Located
<1>2. TotalOrders(S, E) # {}
  BY <1>1, TotalOrdersExist
<1>3. Witnesses(ops, rel) = TotalOrders(S, E)
  BY <1>1 DEF Witnesses
<1>4. Witness(rel) \in TotalOrders(S, E)
  BY <1>2, <1>3 DEF Witness
<1> HIDE DEF S, E
<1>5. StrictTotal(S, Witness(rel)) /\ \A i, j \in S : <<i, j>> \in E => <<i, j>> \in Witness(rel)
  BY <1>1, <1>4, TotalOrdersAreTotal
<1>6. \A e \in E : e = <<e[1], e[2]>> /\ e[1] \in S /\ e[2] \in S
  BY DEF E, S
<1> QED
  BY <1>5, <1>6 DEF S, E

\* Program order between accesses of one location, for operations of harts.
LEMMA OwnOrder ==
    ASSUME Located, OrdinaryOps, NEW i \in Ids(ops), NEW j \in Ids(ops), Precedes(i, j),
           ops[i].kind # "init_write" \/ ops[j].kind # "init_write"
    PROVE  <<i, j>> \in Po(ops) /\ <<j, i>> \notin Po(ops)
<1>1. ops[i].hart = ops[j].hart /\ ops[i].index < ops[j].index /\ ops[i].hart # NoHart
  BY DEF Precedes, OrdinaryOps
<1>2. ops[i].index \in Nat /\ ops[j].index \in Nat
  BY DEF OrdinaryOps
<1> QED
  BY <1>1, <1>2 DEF Po, Before

\* PPO rule 1: a write after an access to its location keeps its place.
LEMMA LaterWriteStays ==
    ASSUME Located, NEW rel, ValidGraph(ops, rel), NEW i \in Ids(ops), NEW w \in Writes(ops),
           <<i, w>> \in Po(ops), ops[i].address = ops[w].address
    PROVE  <<i, w>> \in OrderEdges(ops, rel)
<1>1. w \in Ids(ops) /\ IsWrite(ops[w])
  BY DEF Writes
<1>2. SameLocation(ops[i], ops[w])
  BY <1>1 DEF Located
<1>3. ops[i].regular /\ ops[w].regular /\ ops[i].bytes # {}
  BY <1>1 DEF ValidGraph
<1>4. Footprint(ops[i]) = Footprint(ops[w]) /\ Footprint(ops[i]) # {}
  BY <1>2, <1>3 DEF SameLocation, Footprint
<1>5. StoreAfterOverlap(ops, i, w)
  BY <1>1, <1>4 DEF StoreAfterOverlap, Overlap
<1> QED
  BY <1>3, <1>5 DEF OrderEdges, Ppo

LEMMA SourceIsGiven ==
    ASSUME NEW rel, ValidRf(ops, rel), NEW e \in rel.rf
    PROVE  /\ e[1] \in Writes(ops) /\ e[2] \in Reads(ops) /\ e = <<e[1], e[2]>>
           /\ e[1] # e[2] /\ Source(rel, e[2]) = e[1]
           /\ SameLocation(ops[e[1]], ops[e[2]])
<1>1. e \in Writes(ops) \X Reads(ops) /\ e[1] # e[2] /\ SameLocation(ops[e[1]], ops[e[2]])
  BY DEF ValidRf
<1>2. e[1] \in Writes(ops) /\ e[2] \in Reads(ops) /\ e = <<e[1], e[2]>>
  BY <1>1
<1>3. \A v \in Writes(ops) : <<v, e[2]>> \in rel.rf <=> v = e[1]
  BY <1>2 DEF ValidRf
<1>4. \A w \in {d[1] : d \in rel.rf} : w \in Writes(ops)
  BY DEF ValidRf
<1>5. e[1] \in {d[1] : d \in rel.rf} /\ <<e[1], e[2]>> \in rel.rf
  BY <1>2
<1>6. Source(rel, e[2]) = e[1]
  BY <1>3, <1>4, <1>5 DEF Source
<1> QED
  BY <1>1, <1>2, <1>6

\* What the memory model allows has the core order of its accesses: no read of the future or
\* past an own store, and the own stores of a location in coherence order.
LEMMA AllowedIsPossible ==
    ASSUME Located, OrdinaryOps, DOMAIN trace.hints = HintNames, model.builtin = "rvwmo",
           NEW x \in Executions, ~ Unjudgeable(x), Passes(x)
    PROVE  CoreOrderPossible(x)
<1> DEFINE rel == Relations(x)
           g == Witness(rel)
<1>1. /\ rel.rf = x.rf /\ rel.co = x.co
      /\ ValidGraph(ops, rel) /\ OrderEdges(ops, rel) \in SUBSET (Ids(ops) \X Ids(ops))
  BY JudgeableParts
<1>2. OrderAcyclic(ops, rel) /\ (g = {} \/ LoadValueOffenses(ops, rel, g) = {})
  <2>1. Passed(Judgement(ops, rel, g))
    BY DEF Passes
  <2> HIDE DEF rel, g
  <2> QED
    BY <2>1, PassedMeans
<1>3. StrictTotal(Ids(ops), g) /\ OrderEdges(ops, rel) \subseteq g
  BY <1>1, <1>2, WitnessIsOrder
<1> HIDE DEF rel, g
<1>4. rel.co \subseteq g
  BY <1>3 DEF OrderEdges
<1>5. ValidRf(ops, rel) /\ ValidCo(ops, rel)
  BY <1>1 DEF ValidGraph
<1>6. \A i, j \in Ids(ops) : ~ (<<i, j>> \in g /\ <<j, i>> \in g)
  BY <1>3, Zenon DEF StrictTotal
<1>7. Reads(ops) \subseteq Ids(ops) /\ Writes(ops) \subseteq Ids(ops) /\ PlainWrites \subseteq Writes(ops)
  BY DEF Reads, Writes, PlainWrites, IsWrite
<1>8. ASSUME NEW edge \in x.rf
      PROVE  IF ops[edge[1]].kind = "init_write"
             THEN \A w \in PlainWrites : ~ (Precedes(w, edge[2]) /\ ops[w].address = ops[edge[2]].address)
             ELSE ~ Precedes(edge[2], edge[1])
  <2> DEFINE s == edge[1]
             r == edge[2]
  <2>1. /\ s \in Writes(ops) /\ r \in Reads(ops) /\ s # r /\ Source(rel, r) = s
        /\ SameLocation(ops[s], ops[r])
    BY <1>1, <1>5, SourceIsGiven
  <2> HIDE DEF s, r
  <2>2. s \in Ids(ops) /\ r \in Ids(ops) /\ ops[s].address = ops[r].address
    BY <1>7, <2>1 DEF Located
  <2>3. ReadsLatest(ops, rel, g, r)
    <3>1. g # {}
      BY <1>3, <2>1, <2>2 DEF StrictTotal
    <3> QED
      BY <1>2, <2>1, <3>1 DEF LoadValueOffenses
  <2>4. ASSUME ops[s].kind = "init_write", NEW w \in PlainWrites, Precedes(w, r),
               ops[w].address = ops[r].address
        PROVE  FALSE
    <3>1. w \in Writes(ops) /\ w \in Ids(ops) /\ ops[w].kind = "write"
      BY <1>7 DEF PlainWrites
    <3>2. <<w, r>> \in Po(ops)
      BY <2>2, <2>4, <3>1, OwnOrder
    <3>3. SameLocation(ops[w], ops[r]) /\ SameLocation(ops[s], ops[w]) /\ w # s
      BY <2>2, <2>4, <3>1 DEF Located
    <3>4. w # r
      BY <3>2, <2>2, <2>4 DEF Precedes, OrdinaryOps
    <3>5. w \in Eligible(ops, g, r)
      BY <3>1, <3>2, <3>3, <3>4 DEF Eligible
    <3>6. <<w, s>> \in g
      BY <2>1, <2>3, <3>3, <3>5 DEF ReadsLatest
    <3>7. <<s, w>> \in rel.co
      BY <1>5, <2>1, <2>4, <3>1, <3>3 DEF ValidCo
    <3> QED
      BY <1>4, <1>6, <2>2, <3>1, <3>6, <3>7
  <2>5. ASSUME ops[s].kind # "init_write", Precedes(r, s) PROVE FALSE
    <3>1. <<r, s>> \in Po(ops) /\ <<s, r>> \notin Po(ops)
      BY <2>2, <2>5, OwnOrder
    <3>2. <<r, s>> \in g
      BY <1>1, <1>3, <2>1, <2>2, <3>1, LaterWriteStays
    <3>3. <<s, r>> \in g
      BY <2>1, <2>3, <3>1 DEF ReadsLatest, Eligible
    <3> QED
      BY <1>6, <2>2, <3>2, <3>3
  <2> QED
    BY <2>4, <2>5 DEF s, r
<1>9. ASSUME NEW w \in PlainWrites, NEW v \in PlainWrites,
             ops[w].address = ops[v].address, Precedes(w, v)
      PROVE  <<v, w>> \notin x.co
  <2>1. w \in Ids(ops) /\ v \in Writes(ops) /\ v \in Ids(ops) /\ ops[w].kind # "init_write"
    BY <1>7 DEF PlainWrites
  <2>2. <<w, v>> \in Po(ops)
    BY <1>9, <2>1, OwnOrder
  <2>3. <<w, v>> \in g
    BY <1>1, <1>3, <1>9, <2>1, <2>2, LaterWriteStays
  <2> QED
    BY <1>1, <1>4, <1>6, <2>1, <2>3
<1> QED
  BY <1>8, <1>9 DEF CoreOrderPossible

-----------------------------------------------------------------------------
(* Without a read, or without a store, the memory model forbids nothing.   *)

\* Program order, after the initial writes.
Natural ==
    Po(ops) \cup {e \in Ids(ops) \X Ids(ops) : ops[e[1]].kind = "init_write" /\ ops[e[2]].kind # "init_write"}

LEMMA NaturalIsAcyclic ==
    ASSUME OrdinaryOps
    PROVE  ~ Cyclic(Ids(ops), Natural)
<1> SUFFICES ASSUME NEW S \in SUBSET Ids(ops), S # {}, PredecessorClosed(S, Natural)
             PROVE  FALSE
  BY DEF Cyclic
<1> DEFINE rank(i) == IF ops[i].kind = "init_write" THEN 0 ELSE ops[i].index + 1
           Ranks == {rank(i) : i \in S}
<1>1. \A i \in S : ops[i].index \in Nat
  BY DEF OrdinaryOps
<1>2. Ranks \in SUBSET Nat /\ Ranks # {}
  BY <1>1
<1>3. PICK least \in Ranks : \A k \in Ranks : least <= k
  <2> HIDE DEF Ranks
  <2> QED
    BY <1>2, LeastNatural
<1>4. PICK n \in S : least = rank(n)
  OBVIOUS
<1>5. PICK m \in S : <<m, n>> \in Natural
  BY DEF PredecessorClosed
<1>6. rank(m) < rank(n)
  <2>1. CASE <<m, n>> \in Po(ops)
    <3>1. ops[m].index < ops[n].index /\ ops[m].hart # NoHart /\ ops[n].hart # NoHart
      BY <2>1 DEF Po, Before
    <3>2. ops[m].kind # "init_write" /\ ops[n].kind # "init_write"
      BY <3>1 DEF OrdinaryOps
    <3> QED
      BY <1>1, <3>1, <3>2
  <2>2. CASE ops[m].kind = "init_write" /\ ops[n].kind # "init_write"
    BY <1>1, <2>2
  <2> QED
    BY <1>5, <2>1, <2>2 DEF Natural
<1>7. rank(m) \in Nat /\ rank(n) \in Nat /\ least <= rank(m)
  BY <1>1, <1>3
<1> HIDE DEF rank
<1> QED
  BY <1>4, <1>6, <1>7

\* At most one initial write per address, when there is an execution.
LEMMA OneInitialWrite ==
    ASSUME Located, NEW x \in Executions,
           NEW v \in Writes(ops), NEW w \in Writes(ops),
           ops[v].kind = "init_write", ops[w].kind = "init_write", ops[v].address = ops[w].address
    PROVE  v = w
<1>1. PICK C : Coherent(C)
  BY ExecutionParts
<1> SUFFICES ASSUME v # w PROVE FALSE
  OBVIOUS
<1>2. <<v, w>> \in C /\ <<w, v>> \in C
  BY <1>1 DEF Coherent
<1> QED
  BY <1>1, <1>2 DEF Coherent

\* In a strict total order of finitely many naturals, no set goes round.
LEMMA OrderIsAcyclic ==
    ASSUME NEW N \in SUBSET Nat, IsFiniteSet(N), NEW R, StrictTotal(N, R),
           NEW S \in SUBSET N, S # {}, PredecessorClosed(S, R)
    PROVE  FALSE
<1>1. PICK f \in [N -> N] : \A i, j \in N : <<i, j>> \in R <=> f[i] < f[j]
  BY Ranking
<1> DEFINE Ranks == {f[i] : i \in S}
<1>2. Ranks \in SUBSET Nat /\ Ranks # {}
  OBVIOUS
<1>3. PICK least \in Ranks : \A k \in Ranks : least <= k
  <2> HIDE DEF Ranks
  <2> QED
    BY <1>2, LeastNatural
<1>4. PICK n \in S : least = f[n]
  OBVIOUS
<1>5. PICK m \in S : <<m, n>> \in R
  BY DEF PredecessorClosed
<1>6. f[m] < f[n] /\ least <= f[m] /\ f[m] \in Nat /\ f[n] \in Nat
  BY <1>1, <1>3, <1>5
<1> QED
  BY <1>4, <1>6

\* A total order of the operations that puts the initial writes first gives a coherence order.
LEMMA OrderIsCoherent ==
    ASSUME Located, NEW x \in Executions, NEW R, StrictTotal(Ids(ops), R),
           \A i, j \in Ids(ops) : <<i, j>> \in Natural => <<i, j>> \in R
    PROVE  Coherent(R \cap Colocated)
<1> DEFINE C == R \cap Colocated
           W == Writes(ops)
<1>1. W \subseteq Ids(ops)
  BY DEF Writes
<1>2. \A i, j : <<i, j>> \in C <=> /\ <<i, j>> \in R /\ i \in W /\ j \in W /\ i # j
                                   /\ ops[i].address = ops[j].address
  <2>1. \A i, j : <<i, j>> \in Colocated <=> /\ i \in W /\ j \in W /\ i # j
                                             /\ ops[i].address = ops[j].address
    <3> SUFFICES ASSUME NEW i, NEW j
                 PROVE  <<i, j>> \in Colocated <=> /\ i \in W /\ j \in W /\ i # j
                                                   /\ ops[i].address = ops[j].address
      BY Zenon
    <3> DEFINE e == <<i, j>>
    <3>1. e[1] = i /\ e[2] = j /\ (e \in W \X W <=> i \in W /\ j \in W)
      OBVIOUS
    <3>2. e \in Colocated <=> e \in W \X W /\ e[1] # e[2] /\ ops[e[1]].address = ops[e[2]].address
      BY DEF Colocated
    <3> HIDE DEF e, W
    <3>3. e \in Colocated <=> /\ i \in W /\ j \in W /\ i # j
                              /\ ops[i].address = ops[j].address
      BY <3>1, <3>2
    <3> QED
      BY <3>3 DEF e
  <2>2. \A e : e \in C <=> e \in R /\ e \in Colocated
    OBVIOUS
  <2> HIDE DEF C, W
  <2> QED
    BY <2>1, <2>2, Zenon
<1>3. C \subseteq W \X W /\ \A e \in C : e[1] # e[2] /\ ops[e[1]].address = ops[e[2]].address
  BY DEF Colocated
<1> HIDE DEF C
<1>4. \A v, w \in W : v # w /\ ops[v].address = ops[w].address => (<<v, w>> \in C <=> <<w, v>> \notin C)
  <2> SUFFICES ASSUME NEW v \in W, NEW w \in W, v # w, ops[v].address = ops[w].address
               PROVE  <<v, w>> \in C <=> <<w, v>> \notin C
    OBVIOUS
  <2>1. <<v, w>> \in R <=> <<w, v>> \notin R
    BY <1>1 DEF StrictTotal
  <2> QED
    BY <1>2, <2>1
<1>5. ~ Cyclic(Ids(ops), C)
  <2> SUFFICES ASSUME NEW S \in SUBSET Ids(ops), S # {}, PredecessorClosed(S, C) PROVE FALSE
    BY DEF Cyclic
  <2>1. PredecessorClosed(S, R)
    BY <1>2 DEF PredecessorClosed
  <2> QED
    BY <2>1, OrderIsAcyclic DEF Located
<1>6. \A v, w \in W :
        ops[v].kind = "init_write" /\ v # w /\ ops[v].address = ops[w].address => <<v, w>> \in C
  <2> SUFFICES ASSUME NEW v \in W, NEW w \in W, ops[v].kind = "init_write", v # w,
                      ops[v].address = ops[w].address
               PROVE  <<v, w>> \in C
    OBVIOUS
  <2>1. ops[w].kind # "init_write"
    BY OneInitialWrite
  <2>2. <<v, w>> \in R
    BY <1>1, <2>1 DEF Natural
  <2> QED
    BY <1>2, <2>2
<1> QED
  BY <1>3, <1>4, <1>5, <1>6 DEF Coherent, C

\* The execution with that coherence order, whatever the sources.
LEMMA NaturalExecution ==
    ASSUME Located, OrdinaryOps, Executions # {}, trace.coHints = {}
    PROVE  \E x \in Executions : \E R :
              /\ StrictTotal(Ids(ops), R)
              /\ \A i, j \in Ids(ops) : <<i, j>> \in Natural => <<i, j>> \in R
              /\ x.co \subseteq R
<1>1. PICK y \in Executions : TRUE
  OBVIOUS
<1>2. PICK p \in RfExecutions \X CoExecutions : y = [rf |-> p[1], co |-> p[2]]
  BY <1>1, ExecutionsArePairs
<1>3. PICK R : /\ StrictTotal(Ids(ops), R)
               /\ \A i, j \in Ids(ops) : <<i, j>> \in Natural => <<i, j>> \in R
  <2>1. IsFiniteSet(Ids(ops)) /\ ~ Cyclic(Ids(ops), Natural)
    BY NaturalIsAcyclic DEF Located
  <2> QED
    BY <2>1, AcyclicIsOrdered
<1> DEFINE C == R \cap Colocated
           x == [rf |-> p[1], co |-> C]
<1>4. Coherent(C)
  BY <1>1, <1>3, OrderIsCoherent
<1>5. C \in CoExecutions
  <2>1. CoEvidence = {} /\ C \in SUBSET Colocated
    BY DEF CoEvidence
  <2> HIDE DEF C
  <2> QED
    BY <1>4, <2>1, ValidIsCoherent DEF CoExecutions
<1>6. x \in Executions
  <2> HIDE DEF C
  <2>1. <<p[1], C>> \in RfExecutions \X CoExecutions
    BY <1>5
  <2> QED
    BY <2>1, ExecutionsArePairs
<1>7. x.co \subseteq R
  OBVIOUS
<1> HIDE DEF x
<1> QED
  BY <1>3, <1>6, <1>7

\* If nothing reads, or nothing but initial writes is read, no order relation leaves that order.
LEMMA NothingIsForbidden ==
    ASSUME Located, OrdinaryOps, DOMAIN trace.hints = HintNames,
           model.builtin = "rvwmo", model.axioms = {},
           trace.coHints = {}, Executions # {}, \A x \in Executions : ~ Unjudgeable(x),
           Reads(ops) = {} \/ PlainWrites = {}
    PROVE  \E x \in Executions : Passes(x)
<1>1. PICK x \in Executions : \E R :
        /\ StrictTotal(Ids(ops), R)
        /\ \A i, j \in Ids(ops) : <<i, j>> \in Natural => <<i, j>> \in R
        /\ x.co \subseteq R
  BY NaturalExecution
<1>2. PICK R : /\ StrictTotal(Ids(ops), R)
               /\ \A i, j \in Ids(ops) : <<i, j>> \in Natural => <<i, j>> \in R
               /\ x.co \subseteq R
  BY <1>1
<1> DEFINE rel == Relations(x)
           g == Witness(rel)
<1>3. /\ rel.rf = x.rf /\ rel.co = x.co /\ ~ Unjudgeable(x)
      /\ ValidGraph(ops, rel) /\ ValidPairs(ops, rel)
      /\ OrderEdges(ops, rel) \in SUBSET (Ids(ops) \X Ids(ops))
  BY JudgeableParts
<1> HIDE DEF rel, g
<1>4. ValidRf(ops, rel) /\ ValidCo(ops, rel)
  BY <1>3 DEF ValidGraph
<1>5. Reads(ops) \subseteq Ids(ops) /\ Writes(ops) \subseteq Ids(ops)
  BY DEF Reads, Writes
<1>6. ASSUME NEW r \in Reads(ops), NEW w \in Writes(ops)
      PROVE  ops[w].kind = "init_write" /\ ops[r].kind # "init_write"
  BY <1>5 DEF Located, PlainWrites, Writes, IsWrite, Reads, IsRead, Ids
<1>7. ASSUME NEW v \in Writes(ops), NEW w \in Writes(ops), SameLocation(ops[v], ops[w]), Reads(ops) # {}
      PROVE  v = w
  <2>1. ops[v].kind = "init_write" /\ ops[w].kind = "init_write"
    BY <1>6, <1>7
  <2>2. ops[v].address = ops[w].address
    BY <1>5, <1>7 DEF Located
  <2> QED
    BY <2>1, <2>2, OneInitialWrite
<1>8. OrderEdges(ops, rel) \subseteq R
  <2> SUFFICES ASSUME NEW e \in OrderEdges(ops, rel) PROVE e \in R
    OBVIOUS
  <2>1. e = <<e[1], e[2]>> /\ e[1] \in Ids(ops) /\ e[2] \in Ids(ops)
    BY <1>3
  <2>2. CASE e \in Ppo(ops, rel)
    <3>1. e \in Natural
      BY <2>2 DEF Ppo, Natural
    <3> QED
      BY <1>2, <2>1, <3>1
  <2>3. CASE e \in Rfe(ops, rel)
    <3>1. e[1] \in Writes(ops) /\ e[2] \in Reads(ops)
      BY <1>4, <2>3, SourceIsGiven DEF Rfe
    <3>2. ops[e[1]].kind = "init_write" /\ ops[e[2]].kind # "init_write"
      BY <1>6, <3>1
    <3>3. <<e[1], e[2]>> \in Natural
      BY <2>1, <3>2 DEF Natural
    <3> QED
      BY <1>2, <2>1, <3>3
  <2>4. CASE e \in rel.co
    BY <1>2, <1>3, <2>4
  <2>5. CASE e \in Fr(ops, rel)
    <3>1. PICK w \in Writes(ops) : <<w, e[2]>> \in rel.co /\ e[1] \in Reads(ops) /\ e[2] \in Writes(ops)
      BY <2>5 DEF Fr
    <3>2. <<w, e[2]>>[1] = w /\ <<w, e[2]>>[2] = e[2]
      OBVIOUS
    <3>3. w # e[2] /\ SameLocation(ops[w], ops[e[2]])
      BY <1>4, <3>1, <3>2 DEF ValidCo
    <3> QED
      BY <1>7, <3>1, <3>3
  <2> QED
    BY <2>2, <2>3, <2>4, <2>5 DEF OrderEdges
<1>9. OrderAcyclic(ops, rel)
  <2> SUFFICES ASSUME NEW S \in SUBSET Ids(ops), S # {}, PredecessorClosed(S, OrderEdges(ops, rel))
               PROVE  FALSE
    BY DEF OrderAcyclic, Cyclic
  <2>1. PredecessorClosed(S, R)
    BY <1>8 DEF PredecessorClosed
  <2> QED
    BY <1>2, <2>1, OrderIsAcyclic DEF Located
<1>10. LoadValueOffenses(ops, rel, g) = {}
  <2> SUFFICES ASSUME NEW r \in Reads(ops) PROVE ReadsLatest(ops, rel, g, r)
    BY DEF LoadValueOffenses
  <2>1. PICK s \in Writes(ops) : \A v \in Writes(ops) : <<v, r>> \in rel.rf <=> v = s
    BY <1>4 DEF ValidRf
  <2>2. <<s, r>> \in rel.rf /\ <<s, r>>[1] = s /\ <<s, r>>[2] = r
    BY <2>1
  <2>3. s # r /\ Source(rel, r) = s /\ SameLocation(ops[s], ops[r])
    <3> DEFINE e == <<s, r>>
    <3>1. e \in rel.rf /\ e[1] = s /\ e[2] = r
      BY <2>2
    <3> HIDE DEF e
    <3> QED
      BY <1>4, <3>1, SourceIsGiven
  <2>4. ops[s].kind = "init_write" /\ ops[r].kind # "init_write" /\ ops[s].hart # ops[r].hart
    BY <1>5, <1>6 DEF OrdinaryOps
  <2>5. <<s, r>> \in g
    <3>1. <<s, r>> \in Rfe(ops, rel)
      BY <2>2, <2>4 DEF Rfe
    <3>2. OrderEdges(ops, rel) \subseteq g
      BY <1>3, <1>9, WitnessIsOrder DEF g
    <3> QED
      BY <3>1, <3>2 DEF OrderEdges
  <2>6. s \in Eligible(ops, g, r)
    BY <2>3, <2>5 DEF Eligible
  <2>7. \A w \in Eligible(ops, g, r) : w = s
    <3> TAKE w \in Eligible(ops, g, r)
    <3>1. w \in Writes(ops) /\ SameLocation(ops[w], ops[r])
      BY DEF Eligible
    <3>2. SameLocation(ops[w], ops[s])
      BY <2>3, <3>1 DEF SameLocation
    <3> QED
      BY <1>7, <3>1, <3>2
  <2> QED
    BY <2>3, <2>6, <2>7 DEF ReadsLatest
<1>11. AmoOffenses(ops, rel) = {} /\ LrScOffenses(ops, rel) = {}
  <2>1. \A i \in Ids(ops) : ops[i].atomic \notin {"amo", "lr", "sc"}
    BY DEF OrdinaryOps
  <2>2. AmoOffenses(ops, rel) = {}
    BY <2>1 DEF AmoOffenses
  <2>3. rel.pair = {}
    <3> SUFFICES ASSUME NEW e \in rel.pair PROVE FALSE
      OBVIOUS
    <3>1. e \in Po(ops)
      BY <1>3 DEF ValidGraph, HintsInPo
    <3>2. e[1] \in Ids(ops)
      BY <3>1 DEF Po
    <3> QED
      BY <1>3, <2>1, <3>2 DEF ValidPairs
  <2>4. LrScOffenses(ops, rel) = {}
    BY <2>1, <2>3 DEF LrScOffenses
  <2> QED
    BY <2>2, <2>4
<1>12. Passed(Judgement(ops, rel, g))
  BY <1>9, <1>10, <1>11, PassedMeans
<1>13. Passes(x)
  BY <1>12 DEF Passes, rel, g
<1> QED
  BY <1>13

-----------------------------------------------------------------------------
(* The reductions of a bounded search. *)

\* A consistent trace has a candidate.
LEMMA ConsistentHasCandidates ==
    ASSUME Located, ~ RfInconsistent, ~ CoInconsistent
    PROVE  Executions # {}
<1>1. RfCandidates # {}
  <2> DEFINE f == [r \in Reads(ops) |-> CHOOSE w \in RfChoices(r) : TRUE]
  <2>1. ASSUME NEW r \in Reads(ops) PROVE f[r] \in RfChoices(r) /\ f[r] \in Writes(ops)
    <3>1. RfChoices(r) # {} /\ \A h \in HintsFor(r) : h.write \in Agreeing(r)
      BY DEF RfInconsistent
    <3>2. \A w \in RfChoices(r) : w \in Writes(ops)
      BY <3>1 DEF RfChoices, Agreeing
    <3> QED
      BY <3>1, <3>2
  <2>2. f \in [Reads(ops) -> Writes(ops)]
    BY <2>1
  <2> HIDE DEF f
  <2>3. f \in {h \in [Reads(ops) -> Writes(ops)] : \A r \in Reads(ops) : h[r] \in RfChoices(r)}
    BY <2>1, <2>2
  <2>4. {<<f[r], r>> : r \in Reads(ops)} \in RfCandidates
    BY <2>3, Zenon DEF RfCandidates
  <2> QED
    BY <2>4
<1>2. CoCandidates # {}
  <2> DEFINE g == [a \in Addresses |-> CHOOSE o \in CoChoices(a) : TRUE]
  <2>1. \A a \in Addresses : g[a] \in CoChoices(a)
    BY DEF CoInconsistent
  <2>2. g \in [Addresses -> UNION {CoChoices(a) : a \in Addresses}]
    BY <2>1
  <2> HIDE DEF g
  <2>3. g \in {h \in [Addresses -> UNION {CoChoices(a) : a \in Addresses}] : \A a \in Addresses : h[a] \in CoChoices(a)}
    BY <2>1, <2>2
  <2>4. UNION {g[a] : a \in Addresses} \in CoCandidates
    BY <2>3, Zenon DEF CoCandidates
  <2> QED
    BY <2>4
<1>3. PICK rf \in RfCandidates : TRUE
  BY <1>1
<1>4. PICK co \in CoCandidates : TRUE
  BY <1>2
<1>5. <<rf, co>> \in RfCandidates \X CoCandidates
  OBVIOUS
<1>6. Candidates # {}
  BY <1>5, CandidatesArePairs
<1> QED
  BY <1>6, CandidatesAreExecutions

AllowedKeepOrder ==
    model.builtin = "rvwmo" => \A k \in checked : k.allowed => CoreOrderPossible(k.candidate)

Ordinarily == Unreserved(trace) /\ Unextended(model)

BInv ==
    /\ SInv /\ Ordinarily
    /\ phase \in {"judge", "done"} => Executions # {}
    /\ status # "none" => phase = "done"
    /\ AllowedKeepOrder

LEMMA JudgedKeepOrder == SInv /\ Ordinarily /\ phase \in {"judge", "done"} => AllowedKeepOrder
<1> SUFFICES ASSUME SInv, Ordinarily, phase \in {"judge", "done"}, model.builtin = "rvwmo",
                    NEW k \in checked, k.allowed
             PROVE  CoreOrderPossible(k.candidate)
  BY DEF AllowedKeepOrder
<1>1. Located /\ OrdinaryOps
  BY OperationsAreLocated, OperationsAreOrdinary DEF SInv, Projected, Ordinarily
<1>2. k.candidate \in Executions /\ Passes(k.candidate) /\ ~ Unjudgeable(k.candidate)
  BY DEF SInv, Enumerated
<1>3. DOMAIN trace.hints = HintNames
  BY DEF SInv, Supported
<1> QED
  BY <1>1, <1>2, <1>3, AllowedIsPossible

LEMMA NextKeepsBInv ==
    ASSUME BInv, Next
    PROVE  BInv'
<1>1. trace' = trace /\ model' = model
  BY DEF Next, Project, Choose, Judge, Conclude, Fail
<1>2. SInv'
  BY NextKeepsSInv DEF BInv
<1>3. Ordinarily'
  BY <1>1 DEF BInv, Ordinarily
<1>4. (phase \in {"judge", "done"} => Executions # {})'
  <2> SUFFICES ASSUME phase' \in {"judge", "done"} PROVE Executions' # {}
    OBVIOUS
  <2>1. CASE phase = "choose"
    <3>1. /\ ~ RfInconsistent /\ ~ CoInconsistent /\ ops' = ops
      BY <2>1 DEF Next, Project, Choose, Judge, Conclude, Fail
    <3>2. Executions # {}
      BY <2>1, <3>1, OperationsAreLocated, ConsistentHasCandidates DEF BInv, SInv, Projected
    <3> QED
      BY <1>1, <3>1, <3>2, SameArguments DEF SameMeaning
  <2>2. CASE phase = "judge"
    <3>1. ops' = ops /\ Executions # {}
      BY <2>2 DEF BInv, Next, Project, Choose, Judge, Conclude, Fail
    <3> QED
      BY <1>1, <3>1, SameArguments DEF SameMeaning
  <2> QED
    BY <2>1, <2>2 DEF Next, Project, Choose, Judge, Conclude, Fail
<1>5. (status # "none" => phase = "done")'
  BY DEF BInv, Next, Project, Choose, Judge, Conclude, Fail
<1>6. AllowedKeepOrder'
  <2>1. CASE phase' \in {"judge", "done"}
    <3>1. (SInv /\ Ordinarily /\ phase \in {"judge", "done"} => AllowedKeepOrder)'
      BY JudgedKeepOrder, PTL
    <3> QED
      BY <1>2, <1>3, <2>1, <3>1
  <2>2. CASE phase' \in {"project", "choose"}
    BY <1>2, <2>2 DEF SInv, Fresh, AllowedKeepOrder
  <2>3. CASE phase' = "error"
    <3>1. ops' = ops /\ checked' = checked
      BY <2>3 DEF Next, Project, Choose, Judge, Conclude, Fail
    <3>2. \A c : CoreOrderPossible(c)' <=> CoreOrderPossible(c)
      BY <3>1 DEF CoreOrderPossible, PlainWrites, Precedes, Ids
    <3> QED
      BY <1>1, <3>1, <3>2 DEF BInv, AllowedKeepOrder
  <2> QED
    BY <1>2, <2>1, <2>2, <2>3 DEF SInv, Typed
<1> QED
  BY <1>2, <1>3, <1>4, <1>5, <1>6 DEF BInv

LEMMA StutterKeepsBInv ==
    ASSUME BInv, UNCHANGED vars
    PROVE  BInv'
<1>1. SameMeaning
  BY SameArguments DEF vars
<1>2. \A c : CoreOrderPossible(c)' <=> CoreOrderPossible(c)
  BY DEF vars, CoreOrderPossible, PlainWrites, Precedes, Ids
<1>3. AllowedKeepOrder'
  BY <1>2 DEF BInv, AllowedKeepOrder, vars
<1>4. (phase \in {"judge", "done"} => Executions # {})'
  BY <1>1 DEF BInv, SameMeaning, vars
<1>5. Ordinarily' /\ (status # "none" => phase = "done")'
  BY DEF BInv, Ordinarily, vars
<1> QED
  BY <1>3, <1>4, <1>5, StutterKeepsSInv DEF BInv

LEMMA ForbiddenHasBoth ==
    ASSUME BInv, model.builtin = "rvwmo", status = "forbidden", ~ Evident
    PROVE  Reads(ops) # {} /\ PlainWrites # {}
<1> SUFFICES ASSUME Reads(ops) = {} \/ PlainWrites = {} PROVE FALSE
  OBVIOUS
<1>1. phase = "done"
  BY DEF BInv
<1>2. Located /\ OrdinaryOps
  BY <1>1, OperationsAreLocated, OperationsAreOrdinary DEF BInv, SInv, Projected, Ordinarily
<1>3. Executions # {} /\ \A x \in Executions : ~ Unjudgeable(x)
  BY <1>1 DEF BInv, SInv, Enumerated, Concluded
<1>4. DOMAIN trace.hints = HintNames /\ model.axioms = {} /\ trace.coHints = {}
  BY DEF BInv, SInv, Supported, Ordinarily, Unextended, Evident
<1>5. \E x \in Executions : Passes(x)
  BY <1>2, <1>3, <1>4, NothingIsForbidden
<1>6. status = "allowed"
  BY <1>1, <1>5, VerdictOfExecutions DEF BInv, AllowedIffExplained
<1> QED
  BY <1>6

\* The two reductions of _search_bounded_architecture lose no outcome, whatever the bounds: an
\* allowed execution always passes _core_order_candidate_possible, and a program without a load
\* or without a store (which _bounded_candidate_is_canonical drops) is never forbidden.
THEOREM BoundedReductionsAreSound ==
    ASSUME \A c \in Checks : Supported(c.trace) /\ Unreserved(c.trace) /\ Unextended(c.model)
    PROVE  Spec => []ReductionsAreSound
<1>1. ASSUME Init PROVE BInv
  <2>1. SInv /\ checked = {} /\ status = "none" /\ phase = "project"
    BY <1>1 DEF Init, SInv, Typed, Projected, Fresh, Enumerated, Concluded
  <2>2. Ordinarily
    BY <1>1 DEF Init, Ordinarily
  <2> QED
    BY <2>1, <2>2 DEF BInv, AllowedKeepOrder
<1>2. ASSUME BInv, [Next]_vars PROVE BInv'
  BY <1>2, NextKeepsBInv, StutterKeepsBInv
<1>3. ASSUME BInv PROVE ReductionsAreSound
  BY <1>3, ForbiddenHasBoth DEF BInv, AllowedKeepOrder, ReductionsAreSound
<1> QED
  BY <1>1, <1>2, <1>3, PTL DEF Spec

-----------------------------------------------------------------------------
(* The programs that a bounded search generates. *)

LEMMA ImageIsFinite ==
    ASSUME NEW S, IsFiniteSet(S), NEW T, NEW f \in [S -> T]
    PROVE  IsFiniteSet({f[s] : s \in S})
<1> DEFINE I == {f[s] : s \in S}
<1>1. f \in Surjection(S, I)
  BY DEF Surjection
<1> QED
  BY <1>1, FS_Surjection

LEMMA ProgramCounts ==
    ASSUME NEW raw \in RawPrograms
    PROVE  /\ IsFiniteSet(DOMAIN raw)
           /\ \A i \in DOMAIN raw : /\ raw[i] \in RawChoice
                                    /\ ProgramIndex(raw, i) \in Nat /\ OpId(raw, i) \in Nat \ {0}
<1>1. PICK count \in 1 .. Bounds.memory_ops : raw \in [1 .. count -> RawChoice]
  BY DEF RawPrograms
<1>2. DOMAIN raw = 1 .. count /\ count \in Nat
  BY <1>1, BoundsAssumption
<1>3. IsFiniteSet(1 .. count)
  BY <1>2, FS_Interval
<1>4. ASSUME NEW i \in 1 .. count
      PROVE  /\ raw[i] \in RawChoice
             /\ ProgramIndex(raw, i) \in Nat /\ OpId(raw, i) \in Nat \ {0}
  <2> DEFINE own == {j \in 1 .. i - 1 : raw[j].hart = raw[i].hart}
             alike == {j \in 1 .. i : raw[j].kind = raw[i].kind}
             loads == {j \in DOMAIN raw : raw[j].kind = "load"}
  <2>1. own \in SUBSET (1 .. count) /\ alike \in SUBSET (1 .. count) /\ loads \in SUBSET (1 .. count)
    BY <1>2
  <2>2. ProgramIndex(raw, i) = Cardinality(own)
    BY DEF ProgramIndex
  <2>3. OpId(raw, i) = Bounds.addresses + Cardinality(alike)
                        + (IF raw[i].kind = "load" THEN 0 ELSE Cardinality(loads))
    BY DEF OpId
  <2> HIDE DEF own, alike, loads
  <2>4. IsFiniteSet(own) /\ IsFiniteSet(alike) /\ IsFiniteSet(loads)
    BY <1>3, <2>1, FS_Subset
  <2>5. Cardinality(own) \in Nat /\ Cardinality(alike) \in Nat /\ Cardinality(loads) \in Nat
    BY <2>4, FS_CardinalityType
  <2>6. Bounds.addresses \in Nat \ {0}
    BY BoundsAssumption
  <2>7. OpId(raw, i) \in Nat \ {0}
    BY <2>3, <2>5, <2>6
  <2> QED
    BY <1>1, <2>2, <2>5, <2>7
<1> QED
  BY <1>2, <1>3, <1>4

\* The events of a generated program.
LEMMA ProgramEvents ==
    ASSUME NEW raw \in RawPrograms
    PROVE  /\ IsFiniteSet(ArchitectureTrace(raw).events)
           /\ \A e \in ArchitectureTrace(raw).events :
                /\ e.type \in {"init", "load", "store", "commit"} /\ e.bytes = {0}
                /\ e.address \in Nat /\ e.index \in Nat
                /\ e.type # "commit" => e.op \in Nat
                /\ e.type # "init" => e.hart # NoHart
<1> DEFINE event(id, type, i) == SearchEvent(id, type, raw[i], OpId(raw, i), ProgramIndex(raw, i))
           zero(a) == [address |-> a, value |-> 0, hart |-> NoHart]
           start(a) == SearchEvent(a + 1, "init", zero(a), a + 1, 0)
           access(i) == event(OpId(raw, i), raw[i].kind, i)
           commit(i) == event(- OpId(raw, i), "commit", i)
           D == DOMAIN raw
           L == {j \in DOMAIN raw : raw[j].kind = "load"}
           A == 0 .. Bounds.addresses - 1
<1>1. ArchitectureTrace(raw).events = {start(a) : a \in A} \cup {access(i) : i \in D} \cup {commit(i) : i \in L}
  BY DEF ArchitectureTrace
<1>2. IsFiniteSet(D) /\ IsFiniteSet(L) /\ IsFiniteSet(A)
  <2>1. IsFiniteSet(D)
    BY ProgramCounts
  <2>2. IsFiniteSet(L)
    BY <2>1, FS_Subset
  <2>3. IsFiniteSet(A)
    BY BoundsAssumption, FS_Interval
  <2> QED
    BY <2>1, <2>2, <2>3
<1>3. ASSUME NEW a \in A
      PROVE  /\ start(a).type = "init" /\ start(a).bytes = {0} /\ start(a).address \in Nat
             /\ start(a).index \in Nat /\ start(a).op \in Nat
  BY BoundsAssumption DEF SearchEvent
<1>4. ASSUME NEW i \in D, NEW type, NEW id
      PROVE  /\ event(id, type, i).type = type /\ event(id, type, i).bytes = {0}
             /\ event(id, type, i).address \in Nat /\ event(id, type, i).index \in Nat
             /\ event(id, type, i).op \in Nat /\ event(id, type, i).hart # NoHart
             /\ raw[i].kind \in {"load", "store"}
  <2>1. /\ raw[i].address \in 0 .. Bounds.addresses - 1 /\ raw[i].hart \in 1 .. Bounds.harts
        /\ raw[i].kind \in {"load", "store"}
        /\ ProgramIndex(raw, i) \in Nat /\ OpId(raw, i) \in Nat
    BY ProgramCounts DEF RawChoice
  <2>2. raw[i].address \in Nat /\ raw[i].hart # NoHart
    BY <2>1, BoundsAssumption, HartAssumption
  <2> QED
    BY <2>1, <2>2 DEF SearchEvent
<1> HIDE DEF start, event, D, L, A
<1>5. IsFiniteSet({start(a) : a \in A})
  <2> DEFINE T == {start(a) : a \in A}
             f == [a \in A |-> start(a)]
  <2>1. f \in [A -> T] /\ \A a \in A : f[a] = start(a)
    OBVIOUS
  <2>2. T = {f[a] : a \in A}
    BY <2>1
  <2> HIDE DEF f, T
  <2>3. IsFiniteSet({f[a] : a \in A})
    BY <1>2, <2>1, ImageIsFinite, Zenon
  <2>4. IsFiniteSet(T)
    BY <2>2, <2>3
  <2> QED
    BY <2>4 DEF T
<1>6. IsFiniteSet({access(i) : i \in D})
  <2> DEFINE T == {access(i) : i \in D}
             f == [i \in D |-> access(i)]
  <2>1. f \in [D -> T] /\ \A i \in D : f[i] = access(i)
    OBVIOUS
  <2>2. T = {f[i] : i \in D}
    BY <2>1
  <2> HIDE DEF f, T
  <2>3. IsFiniteSet({f[i] : i \in D})
    BY <1>2, <2>1, ImageIsFinite, Zenon
  <2>4. IsFiniteSet(T)
    BY <2>2, <2>3
  <2> QED
    BY <2>4 DEF T
<1>7. IsFiniteSet({commit(i) : i \in L})
  <2> DEFINE T == {commit(i) : i \in L}
             f == [i \in L |-> commit(i)]
  <2>1. f \in [L -> T] /\ \A i \in L : f[i] = commit(i)
    OBVIOUS
  <2>2. T = {f[i] : i \in L}
    BY <2>1
  <2> HIDE DEF f, T
  <2>3. IsFiniteSet({f[i] : i \in L})
    BY <1>2, <2>1, ImageIsFinite, Zenon
  <2>4. IsFiniteSet(T)
    BY <2>2, <2>3
  <2> QED
    BY <2>4 DEF T
<1>8. IsFiniteSet(ArchitectureTrace(raw).events)
  <2> HIDE DEF access, commit
  <2>1. IsFiniteSet({start(a) : a \in A} \cup {access(i) : i \in D})
    BY <1>5, <1>6, FS_Union
  <2> QED
    BY <1>1, <1>7, <2>1, FS_Union
<1>9. L \subseteq D
  BY DEF L, D
<1>10. ASSUME NEW e \in ArchitectureTrace(raw).events
       PROVE  /\ e.type \in {"init", "load", "store", "commit"} /\ e.bytes = {0}
              /\ e.address \in Nat /\ e.index \in Nat
              /\ e.type # "commit" => e.op \in Nat
              /\ e.type # "init" => e.hart # NoHart
  <2>1. CASE \E a \in A : e = start(a)
    BY <1>3, <2>1
  <2>2. CASE \E i \in D : e = access(i)
    BY <1>4, <2>2
  <2>3. CASE \E i \in L : e = commit(i)
    BY <1>4, <1>9, <2>3
  <2> HIDE DEF access, commit
  <2> QED
    BY <1>1, <2>1, <2>2, <2>3
<1> QED
  BY <1>8, <1>10

\* The hypotheses of the theorem hold of every program that _architecture_trace produces.
LEMMA ProgramsAreOrdinary ==
    ASSUME NEW raw \in RawPrograms
    PROVE  Supported(ArchitectureTrace(raw)) /\ Unreserved(ArchitectureTrace(raw))
<1> DEFINE t == ArchitectureTrace(raw)
<1>1. DOMAIN t.hints = HintNames
  BY DEF ArchitectureTrace, HintNames
<1> HIDE DEF t
<1>2. IsFiniteSet(t.events)
  BY ProgramEvents DEF t
<1>3. ASSUME NEW e \in Architectural(t.events)
      PROVE  /\ e \in t.events /\ e.type \in {"init", "load", "store"}
             /\ e.bytes = {0} /\ e.address \in Nat /\ e.index \in Nat /\ e.op \in Nat
             /\ e.type # "init" => e.hart # NoHart
  <2>1. e \in t.events /\ e.type \in {"init", "store", "sc", "load", "lr", "amo"}
    BY DEF Architectural, Reading
  <2> QED
    BY <2>1, ProgramEvents DEF t
<1>4. ASSUME NEW e \in Architectural(t.events), NEW f \in Architectural(t.events)
      PROVE  SameLocation(e, f) <=> e.address = f.address
  <2>1. Footprint(e) = {e.address} /\ Footprint(f) = {f.address}
    BY <1>3 DEF Footprint
  <2> QED
    BY <2>1 DEF SameLocation
<1>5. Supported(t)
  BY <1>1, <1>2, <1>3, <1>4 DEF Supported
<1>6. Unreserved(t)
  BY <1>3 DEF Unreserved
<1> QED
  BY <1>5, <1>6 DEF t

\* A search over generated programs, with the builtin model alone.
THEOREM SearchReductionsAreSound ==
    ASSUME \A c \in Checks : (\E raw \in RawPrograms : c.trace = ArchitectureTrace(raw)) /\ Unextended(c.model)
    PROVE  Spec => []ReductionsAreSound
<1>1. \A c \in Checks : Supported(c.trace) /\ Unreserved(c.trace) /\ Unextended(c.model)
  BY ProgramsAreOrdinary
<1> QED
  BY <1>1, BoundedReductionsAreSound


-----------------------------------------------------------------------------
(* Attempts: what is said of a trace without evidence is said of its       *)
(* operations.                                                             *)

Bare(t) ==
    /\ t.hints = [name \in HintNames |-> {}]
    /\ t.rfHints = {} /\ t.coHints = {}

SourcesOf(o, r) == {w \in Writes(o) \ {r} : o[w].address = o[r].address /\ StoredValue(o[w]) = o[r].value}

PlacesOf(o) == {o[w].address : w \in Writes(o)}
InitialAt(o, a) == {w \in Writes(o) : o[w].address = a /\ o[w].kind = "init_write"}
PlainAt(o, a) == {w \in Writes(o) : o[w].address = a /\ o[w].kind = "write"}
OrdersOf(o, a) == TotalOrders(InitialAt(o, a) \cup PlainAt(o, a), InitialAt(o, a) \X PlainAt(o, a))

RefusedOf(o) ==
    \/ \E r \in Reads(o) : SourcesOf(o, r) = {}
    \/ \E a \in PlacesOf(o) : Cardinality(InitialAt(o, a)) > 1 \/ OrdersOf(o, a) = {}

CandidatesOf(o) ==
    {[rf |-> {<<f[r], r>> : r \in Reads(o)}, co |-> UNION {g[a] : a \in PlacesOf(o)}] :
        f \in {h \in [Reads(o) -> Writes(o)] : \A r \in Reads(o) : h[r] \in SourcesOf(o, r)},
        g \in {h \in [PlacesOf(o) -> UNION {OrdersOf(o, a) : a \in PlacesOf(o)}] :
                    \A a \in PlacesOf(o) : h[a] \in OrdersOf(o, a)}}

ExecutionsOf(o) ==
    LET colocated == {e \in Writes(o) \X Writes(o) : e[1] # e[2] /\ o[e[1]].address = o[e[2]].address}
    IN  {[rf |-> rf, co |-> co] :
            rf \in {r \in {{<<f[r], r>> : r \in Reads(o)} : f \in [Reads(o) -> Writes(o)]} : ValidRf(o, [rf |-> r])},
            co \in {c \in SUBSET colocated : ValidCo(o, [co |-> c])}}

NoHints == [hints |-> [name \in HintNames |-> {}]]

LEMMA BareSources ==
    ASSUME Bare(trace) PROVE \A r : HintsFor(r) = {} /\ RfChoices(r) = SourcesOf(ops, r)
BY DEF Bare, HintsFor, RfChoices, Agreeing, SourcesOf

LEMMA BareOrders ==
    ASSUME Bare(trace)
    PROVE  /\ Addresses = PlacesOf(ops)
           /\ \A a : Initial(a) = InitialAt(ops, a) /\ CoChoices(a) = OrdersOf(ops, a)
<1>1. Addresses = PlacesOf(ops)
  BY DEF Addresses, PlacesOf
<1>2. ASSUME NEW a
      PROVE  Initial(a) = InitialAt(ops, a) /\ Ordinary(a) = PlainAt(ops, a)
  BY DEF Initial, InitialAt, Ordinary, PlainAt, WritesAt
<1>3. ASSUME NEW a
      PROVE  CoChoices(a) = OrdersOf(ops, a)
  <2>1. {<<h.before, h.after>> : h \in {g \in trace.coHints : g.address = a}} = {}
    BY DEF Bare
  <2>2. (Initial(a) \X Ordinary(a)) \cup {<<h.before, h.after>> : h \in {g \in trace.coHints : g.address = a}}
        = InitialAt(ops, a) \X PlainAt(ops, a)
    BY <1>2, <2>1
  <2> QED
    BY <1>2, <2>2 DEF CoChoices, OrdersOf
<1> QED
  BY <1>1, <1>2, <1>3

LEMMA BareMeaning ==
    ASSUME Bare(trace)
    PROVE  /\ Candidates = CandidatesOf(ops)
           /\ RfInconsistent \/ CoInconsistent <=> RefusedOf(ops)
           /\ ~ HintsUnknown
           /\ Executions = ExecutionsOf(ops)
           /\ \A c : Passes(c) <=> PassesOf(NoHints, model, ops, c)
           /\ \A c : Unjudgeable(c) <=> UnjudgeableOf(NoHints, model, ops, c)
<1>1. Candidates = CandidatesOf(ops)
  BY BareSources, BareOrders DEF Candidates, CandidatesOf
<1>2. RfInconsistent \/ CoInconsistent <=> RefusedOf(ops)
  <2>1. RfInconsistent <=> \E r \in Reads(ops) : SourcesOf(ops, r) = {}
    BY BareSources DEF RfInconsistent, Bare
  <2>2. CoInconsistent <=> \E a \in PlacesOf(ops) : Cardinality(InitialAt(ops, a)) > 1 \/ OrdersOf(ops, a) = {}
    BY BareOrders DEF CoInconsistent, Bare
  <2> QED
    BY <2>1, <2>2 DEF RefusedOf
<1>3. ~ HintsUnknown
  BY DEF HintsUnknown, Bare
<1>4. Executions = ExecutionsOf(ops)
  BY DEF Executions, ExecutionsOf, Bare
<1>5. NoHints.hints = trace.hints
  BY DEF NoHints, Bare
<1>6. /\ \A c : Passes(c) <=> PassesOf(NoHints, model, ops, c)
      /\ \A c : Unjudgeable(c) <=> UnjudgeableOf(NoHints, model, ops, c)
  BY <1>5, MeaningOf DEF PassesOf, UnjudgeableOf, RelationsOf, TableOf
<1> QED
  BY <1>1, <1>2, <1>3, <1>4, <1>6

-----------------------------------------------------------------------------
(* A check that has come to an end, of a trace without evidence. *)

ProjectedWell == phase \in {"choose", "judge", "done"} => ~ Unprojectable(trace.events)

ChosenWell ==
    phase \in {"judge", "done"} => ~ RefusedOf(ops) /\ ~ Cardinality(CandidatesOf(ops)) > MaxCandidates

CInv == SInv /\ Bare(trace) /\ ProjectedWell /\ ChosenWell

\* What is known of a skeleton: its operations pass the enumeration, its verdict is theirs.
Settled(m, g) ==
    /\ ~ RefusedOf(g.ops)
    /\ ~ Cardinality(CandidatesOf(g.ops)) > MaxCandidates
    /\ \A x \in ExecutionsOf(g.ops) : ~ UnjudgeableOf(NoHints, m, g.ops, x)
    /\ g.verdict = IF \E x \in ExecutionsOf(g.ops) : PassesOf(NoHints, m, g.ops, x) THEN "allowed" ELSE "forbidden"

LEMMA NextKeepsCInv ==
    ASSUME CInv, Next
    PROVE  CInv'
<1>1. trace' = trace /\ model' = model
  BY DEF Next, Project, Choose, Judge, Conclude, Fail
<1>2. SInv' /\ Bare(trace)'
  BY <1>1, NextKeepsSInv DEF CInv, Bare
<1>3. ProjectedWell'
  BY <1>1 DEF CInv, ProjectedWell, Next, Project, Choose, Judge, Conclude, Fail, Unprojectable
<1>4. ChosenWell'
  <2>1. CASE phase = "choose"
    BY <2>1, BareMeaning DEF CInv, ChosenWell, Next, Project, Choose, Judge, Conclude, Fail
  <2>2. CASE phase # "choose"
    BY <2>2 DEF CInv, ChosenWell, Next, Project, Choose, Judge, Conclude, Fail
  <2> QED
    BY <2>1, <2>2
<1> QED
  BY <1>2, <1>3, <1>4 DEF CInv

\* The graph of a function from the reads to the writes.
Functional(o, rf) == \E f \in [Reads(o) -> Writes(o)] : rf = {<<f[r], r>> : r \in Reads(o)}

LEMMA ExecutionsAreRecords ==
    ASSUME NEW o, NEW x \in ExecutionsOf(o)
    PROVE  /\ x = [rf |-> x.rf, co |-> x.co]
           /\ ValidRf(o, [rf |-> x.rf]) /\ ValidCo(o, [co |-> x.co])
           /\ Functional(o, x.rf)
           /\ \A e \in x.co : /\ e \in Writes(o) \X Writes(o)
                              /\ e[1] # e[2] /\ o[e[1]].address = o[e[2]].address
<1> DEFINE colocated == {e \in Writes(o) \X Writes(o) : e[1] # e[2] /\ o[e[1]].address = o[e[2]].address}
           functional == {{<<f[r], r>> : r \in Reads(o)} : f \in [Reads(o) -> Writes(o)]}
<1> DEFINE RF == {r \in functional : ValidRf(o, [rf |-> r])}
           CO == {c \in SUBSET colocated : ValidCo(o, [co |-> c])}
<1>a. ExecutionsOf(o) = {[rf |-> rf, co |-> co] : rf \in RF, co \in CO}
  BY DEF ExecutionsOf
<1>1. PICK rf \in RF, co \in CO : x = [rf |-> rf, co |-> co]
  <2> HIDE DEF RF, CO
  <2> QED
    BY <1>a
<1>2. x.rf = rf /\ x.co = co
  BY <1>1
<1>3. rf \in functional /\ ValidRf(o, [rf |-> rf]) /\ co \in SUBSET colocated /\ ValidCo(o, [co |-> co])
  <2> HIDE DEF colocated, functional
  <2> QED
    BY Zenon
<1>4. x = [rf |-> x.rf, co |-> x.co]
  BY <1>1, <1>2
<1>5. Functional(o, x.rf)
  BY <1>2, <1>3 DEF Functional
<1>6. \A e \in co : e \in Writes(o) \X Writes(o) /\ e[1] # e[2] /\ o[e[1]].address = o[e[2]].address
  BY <1>3
<1> HIDE DEF colocated, functional
<1> QED
  BY <1>2, <1>3, <1>4, <1>5, <1>6

LEMMA DoneIsSettled ==
    ASSUME CInv, phase = "done", NEW g, g.ops = ops, g.verdict = status
    PROVE  /\ Settled(model, g)
           /\ \A k \in checked : /\ k.candidate \in ExecutionsOf(ops)
                                 /\ k.allowed <=> PassesOf(NoHints, model, ops, k.candidate)
<1>1. /\ Executions = ExecutionsOf(ops)
      /\ \A c : Passes(c) <=> PassesOf(NoHints, model, ops, c)
      /\ \A c : Unjudgeable(c) <=> UnjudgeableOf(NoHints, model, ops, c)
  BY BareMeaning DEF CInv
<1>2. /\ Executions = {k.candidate : k \in checked}
      /\ \A k \in checked : (k.allowed <=> Passes(k.candidate)) /\ ~ Unjudgeable(k.candidate)
      /\ status = IF \E k \in checked : k.allowed THEN "allowed" ELSE "forbidden"
  BY DEF CInv, SInv, Enumerated, Concluded
<1>3. \A x \in Executions : ~ Unjudgeable(x)
  BY <1>2
<1>4. (\E k \in checked : k.allowed) <=> \E x \in Executions : Passes(x)
  BY <1>2
<1>5. ~ RefusedOf(ops) /\ ~ Cardinality(CandidatesOf(ops)) > MaxCandidates
  BY DEF CInv, ChosenWell
<1>6. \A x \in ExecutionsOf(ops) : ~ UnjudgeableOf(NoHints, model, ops, x)
  BY <1>1, <1>3
<1>7. status = IF \E x \in ExecutionsOf(ops) : PassesOf(NoHints, model, ops, x) THEN "allowed" ELSE "forbidden"
  BY <1>1, <1>2, <1>4
<1>8. \A k \in checked : /\ k.candidate \in ExecutionsOf(ops)
                         /\ k.allowed <=> PassesOf(NoHints, model, ops, k.candidate)
  BY <1>1, <1>2
<1> QED
  BY <1>5, <1>6, <1>7, <1>8 DEF Settled

\* A second check of the same operations, under the same model, comes to the same verdict.
Confirmed ==
    /\ CInv /\ Settled(model, graph)
    /\ ~ Unprojectable(trace.events) /\ Operations(trace.events) = graph.ops
    /\ phase # "error"

LEMMA NextConfirms ==
    ASSUME Confirmed, Next, graph' = graph
    PROVE  Confirmed'
<1>1. trace' = trace /\ model' = model
  BY DEF Next, Project, Choose, Judge, Conclude, Fail
<1>2. CInv'
  BY NextKeepsCInv DEF Confirmed
<1>3. Settled(model, graph)' /\ (~ Unprojectable(trace.events))' /\ (Operations(trace.events) = graph.ops)'
  <2>1. Settled(model', graph')
    BY <1>1 DEF Confirmed
  <2> QED
    BY <1>1, <2>1 DEF Confirmed, Settled, Unprojectable
<1>4. ops = graph.ops \/ phase = "project"
  BY DEF Confirmed, CInv, SInv, Projected, Next, Project, Choose, Judge, Conclude, Fail
<1>5. CASE phase = "project"
  BY <1>2, <1>3, <1>5 DEF Confirmed, Next, Project, Choose, Judge, Conclude
<1>6. CASE phase = "choose"
  <2>1. ~ (RfInconsistent \/ CoInconsistent \/ HintsUnknown \/ Cardinality(Candidates) > MaxCandidates)
    BY <1>4, <1>6, BareMeaning DEF Confirmed, CInv, Settled
  <2> QED
    BY <1>2, <1>3, <1>6, <2>1 DEF Confirmed, Next, Project, Choose, Judge, Conclude
<1>7. CASE phase = "judge"
  <2>1. \A c \in pending : ~ Unjudgeable(c)
    <3>1. \A c \in pending : c \in Executions
      BY <1>7 DEF Confirmed, CInv, SInv, Enumerated
    <3>2. Executions = ExecutionsOf(graph.ops) /\ \A c : Unjudgeable(c) <=> UnjudgeableOf(NoHints, model, graph.ops, c)
      BY <1>4, <1>7, BareMeaning DEF Confirmed, CInv
    <3> QED
      BY <3>1, <3>2 DEF Confirmed, Settled
  <2>2. phase' # "error"
    BY <1>7, <2>1 DEF Next, Project, Choose, Judge, Conclude, Fail
  <2> QED
    BY <1>2, <1>3, <2>2 DEF Confirmed
<1> QED
  BY <1>5, <1>6, <1>7 DEF Next, Project, Choose, Judge, Conclude

LEMMA ConfirmedIsSame ==
    ASSUME Confirmed, phase = "done"
    PROVE  status = graph.verdict /\ ops = graph.ops
<1>1. ops = graph.ops
  BY DEF Confirmed, CInv, SInv, Projected
<1> DEFINE g == [ops |-> ops, verdict |-> status]
<1>2. Settled(model, g)
  BY DoneIsSettled DEF Confirmed
<1>3. g.ops = graph.ops /\ g.verdict = status
  BY <1>1
<1> HIDE DEF g
<1> QED
  BY <1>1, <1>2, <1>3 DEF Confirmed, Settled

-----------------------------------------------------------------------------
(* The operations of a generated program. *)

Simple(kind, address, value, hart, index) ==
    [kind |-> kind, address |-> address, bytes |-> {0}, value |-> value, write_value |-> value,
     hart |-> hart, index |-> index, atomic |-> "ordinary",
     acquire |-> FALSE, release |-> FALSE, rcsc |-> FALSE, regular |-> TRUE]

Values == 0 .. Bounds.values - 1

IsStart(op) == \E address \in Nat, value \in Values : op = Simple("init_write", address, value, NoHart, 0)

IsAccess(op) ==
    \E kind \in {"read", "write"}, address \in Nat, value \in Values, hart \in 1 .. Bounds.harts, index \in Nat :
        op = Simple(kind, address, value, hart, index)

Programmed(o) ==
    /\ o = [i \in Ids(o) |-> o[i]] /\ Ids(o) # {}
    /\ Ids(o) \subseteq Nat \ {0} /\ IsFiniteSet(Ids(o))
    /\ \A i \in Ids(o) : IsStart(o[i]) \/ IsAccess(o[i])
    /\ \A i \in Ids(o) : \E w \in Ids(o) : o[w].kind = "init_write" /\ o[w].address = o[i].address

\* A set that has no two elements by its cardinality has none.
LEMMA OneCommit ==
    ASSUME NEW S, IsFiniteSet(S), ~ Cardinality(S) > 1, NEW x \in S, NEW y \in S
    PROVE  x = y
<1> SUFFICES ASSUME x # y PROVE FALSE
  OBVIOUS
<1>1. IsFiniteSet({x}) /\ Cardinality({x}) = 1
  BY FS_Singleton
<1>2. {x} \subseteq S /\ {x} # S
  OBVIOUS
<1>3. Cardinality({x}) =< Cardinality(S) /\ Cardinality(S) # Cardinality({x})
  BY <1>2, FS_Subset
<1>4. Cardinality(S) \in Nat
  BY FS_CardinalityType
<1> QED
  BY <1>1, <1>3, <1>4

\* The operations of the events of a generated program.
Event(id, type, op, address, value, hart, index) ==
    [id |-> id, type |-> type, op |-> op, address |-> address, value |-> value, write_value |-> value,
     hart |-> hart, index |-> index, bytes |-> {0},
     acquire |-> FALSE, release |-> FALSE, rcsc |-> FALSE, regular |-> TRUE]

LEMMA SimpleOperation ==
    ASSUME NEW E, NEW id, NEW type, NEW op, NEW address, NEW value, NEW hart, NEW index,
           NEW e, e = Event(id, type, op, address, value, hart, index)
    PROVE  /\ type = "init" => Operation(E, e) = Simple("init_write", address, value, NoHart, index)
           /\ type = "store" => Operation(E, e) = Simple("write", address, value, hart, index)
           /\ type = "load" /\ (CHOOSE c \in Commits(E, op) : TRUE).value = value =>
                Operation(E, e) = Simple("read", address, value, hart, index)
<1>1. /\ e.type = type /\ e.op = op /\ e.address = address /\ e.value = value /\ e.write_value = value
      /\ e.hart = hart /\ e.index = index /\ e.bytes = {0}
      /\ e.acquire = FALSE /\ e.release = FALSE /\ e.rcsc = FALSE /\ e.regular = TRUE
  BY DEF Event
<1>2. CASE type = "init"
  BY <1>1, <1>2 DEF Operation, Reading, Simple
<1>3. CASE type = "store"
  BY <1>1, <1>3 DEF Operation, Reading, Simple
<1>4. CASE type = "load" /\ (CHOOSE c \in Commits(E, op) : TRUE).value = value
  BY <1>1, <1>4 DEF Operation, Reading, Simple
<1> QED
  BY <1>2, <1>3, <1>4

LEMMA ProgramIsProgrammed ==
    ASSUME NEW raw \in RawPrograms, NEW t, t = ArchitectureTrace(raw), ~ Unprojectable(t.events)
    PROVE  /\ Programmed(Operations(t.events))
           /\ \A i \in Ids(Operations(t.events)) :
                Operations(t.events)[i].kind # "init_write" => \E j \in DOMAIN raw : i = OpId(raw, j)
<1> DEFINE event(id, type, i) == SearchEvent(id, type, raw[i], OpId(raw, i), ProgramIndex(raw, i))
           zero(a) == [address |-> a, value |-> 0, hart |-> NoHart]
           start(a) == SearchEvent(a + 1, "init", zero(a), a + 1, 0)
           access(i) == event(OpId(raw, i), raw[i].kind, i)
           commit(i) == event(- OpId(raw, i), "commit", i)
           D == DOMAIN raw
           L == {j \in DOMAIN raw : raw[j].kind = "load"}
           A == 0 .. Bounds.addresses - 1
           E == t.events
           o == Operations(E)
<1>1. E = {start(a) : a \in A} \cup {access(i) : i \in D} \cup {commit(i) : i \in L}
  BY DEF ArchitectureTrace
<1>2. ASSUME NEW a \in A
      PROVE  start(a) = [id |-> a + 1, type |-> "init", op |-> a + 1, address |-> a, value |-> 0,
                         write_value |-> 0, hart |-> NoHart, index |-> 0, bytes |-> {0},
                         acquire |-> FALSE, release |-> FALSE, rcsc |-> FALSE, regular |-> TRUE]
  BY DEF SearchEvent
<1>3. ASSUME NEW i \in D, NEW id, NEW type
      PROVE  event(id, type, i) =
                [id |-> id, type |-> type, op |-> OpId(raw, i), address |-> raw[i].address, value |-> raw[i].value,
                 write_value |-> raw[i].value, hart |-> raw[i].hart, index |-> ProgramIndex(raw, i), bytes |-> {0},
                 acquire |-> FALSE, release |-> FALSE, rcsc |-> FALSE, regular |-> TRUE]
  BY DEF SearchEvent
<1>4. ASSUME NEW i \in D
      PROVE  /\ raw[i].kind \in {"load", "store"} /\ raw[i].address \in A /\ raw[i].value \in Values
             /\ raw[i].hart \in 1 .. Bounds.harts /\ ProgramIndex(raw, i) \in Nat /\ OpId(raw, i) \in Nat \ {0}
  BY ProgramCounts DEF RawChoice, Values
<1> HIDE DEF E, o, start, event, D, L, A
<1>5. /\ A \subseteq Nat /\ IsFiniteSet(Ids(o)) /\ 0 \in Values
  <2>1. IsFiniteSet(Ids(o))
    <3>1. IsFiniteSet(E)
      BY ProgramEvents DEF E
    <3>2. IsFiniteSet(Architectural(E))
      BY <3>1, FS_Subset DEF Architectural
    <3> DEFINE name == [e \in Architectural(E) |-> e.op]
    <3>3. name \in Surjection(Architectural(E), Ids(o))
      BY DEF Surjection, o, Operations, Ids
    <3> HIDE DEF name
    <3> QED
      BY <3>2, <3>3, FS_Surjection
  <2>2. A \subseteq Nat /\ 0 \in Values
    BY BoundsAssumption DEF A, Values
  <2> QED
    BY <2>1, <2>2
\* The architectural events, and their commits.
<1>6. /\ \A a \in A : start(a) \in Architectural(E) /\ start(a).type = "init"
      /\ \A i \in D : access(i) \in Architectural(E) /\ access(i).type \in {"load", "store"}
      /\ \A e \in Architectural(E) : (\E a \in A : e = start(a)) \/ (\E i \in D : e = access(i))
      /\ \A i \in L : commit(i) \in Commits(E, access(i).op)
  <2>1. ASSUME NEW a \in A PROVE start(a) \in E /\ start(a).type = "init"
    BY <1>1, <1>2
  <2>2. ASSUME NEW i \in D
        PROVE  access(i) \in E /\ access(i).type = raw[i].kind /\ access(i).op = OpId(raw, i)
    BY <1>1, <1>3
  <2>3. ASSUME NEW i \in L PROVE commit(i) \in E /\ commit(i).type = "commit" /\ commit(i).op = OpId(raw, i)
    BY <1>1, <1>3 DEF L, D
  <2>4. ASSUME NEW i \in L PROVE commit(i) \in Commits(E, access(i).op)
    BY <2>2, <2>3 DEF Commits, L, D
  <2>5. ASSUME NEW a \in A PROVE start(a) \in Architectural(E)
    BY <2>1 DEF Architectural
  <2>6. ASSUME NEW i \in D PROVE access(i) \in Architectural(E) /\ access(i).type \in {"load", "store"}
    <3>1. CASE raw[i].kind = "load"
      <4>1. i \in L
        BY <3>1 DEF L, D
      <4>2. Commits(E, access(i).op) # {}
        BY <2>4, <4>1
      <4> HIDE DEF access
      <4> QED
        BY <2>2, <3>1, <4>2 DEF Architectural, Reading
    <3>2. CASE raw[i].kind = "store"
      <4> HIDE DEF access
      <4> QED
        BY <2>2, <3>2 DEF Architectural
    <3> QED
      BY <1>4, <3>1, <3>2
  <2>7. ASSUME NEW e \in Architectural(E)
        PROVE  (\E a \in A : e = start(a)) \/ (\E i \in D : e = access(i))
    <3>1. e \in E /\ e.type # "commit"
      BY <2>7 DEF Architectural, Reading
    <3> HIDE DEF access, commit
    <3> QED
      BY <1>1, <2>3, <3>1
  <2> QED
    BY <2>1, <2>4, <2>5, <2>6, <2>7
<1>7. \A e, f \in Architectural(E) : e.op = f.op => e = f
  BY DEF Unprojectable, E
<1>8. ASSUME NEW e \in Architectural(E)
      PROVE  e.op \in Ids(o) /\ o[e.op] = Operation(E, e)
  <2>1. e = CHOOSE f \in Architectural(E) : f.op = e.op
    BY <1>7
  <2> QED
    BY <2>1 DEF o, Operations, Ids
<1>9. ASSUME NEW a \in A
      PROVE  Operation(E, start(a)) = Simple("init_write", a, 0, NoHart, 0)
  <2>1. start(a) = Event(a + 1, "init", a + 1, a, 0, NoHart, 0)
    BY <1>2 DEF Event
  <2> QED
    BY <2>1, SimpleOperation
<1>10. ASSUME NEW i \in D
       PROVE  Operation(E, access(i)) = Simple(IF raw[i].kind = "load" THEN "read" ELSE "write",
                    raw[i].address, raw[i].value, raw[i].hart, ProgramIndex(raw, i))
  <2>1. access(i) = [id |-> OpId(raw, i), type |-> raw[i].kind, op |-> OpId(raw, i), address |-> raw[i].address,
                 value |-> raw[i].value,
                 write_value |-> raw[i].value, hart |-> raw[i].hart, index |-> ProgramIndex(raw, i), bytes |-> {0},
                 acquire |-> FALSE, release |-> FALSE, rcsc |-> FALSE, regular |-> TRUE]
    BY <1>3
  <2>2. raw[i].kind = "load" => (CHOOSE c \in Commits(E, access(i).op) : TRUE).value = raw[i].value
    <3> SUFFICES ASSUME raw[i].kind = "load"
                 PROVE  (CHOOSE c \in Commits(E, access(i).op) : TRUE).value = raw[i].value
      OBVIOUS
    <3>1. commit(i) \in Commits(E, access(i).op)
      BY <1>6 DEF L, D
    <3>2. commit(i).value = raw[i].value /\ commit(i).type = "commit" /\ commit(i).op = access(i).op /\ commit(i) \in E
      BY <1>3, <2>1, <3>1 DEF Commits
    <3>3. IsFiniteSet(Commits(E, access(i).op)) /\ ~ Cardinality(Commits(E, access(i).op)) > 1
      <4>1. IsFiniteSet(Commits(E, access(i).op))
        <5>1. IsFiniteSet(E)
          BY ProgramEvents DEF E
        <5> QED
          BY <5>1, FS_Subset DEF Commits
      <4>2. ~ Cardinality(Commits(E, access(i).op)) > 1
        BY <3>2 DEF Unprojectable, E
      <4> QED
        BY <4>1, <4>2
    <3>4. ASSUME NEW c \in Commits(E, access(i).op) PROVE c = commit(i)
      BY <3>1, <3>3, OneCommit
    <3> HIDE DEF commit
    <3> QED
      BY <3>1, <3>2, <3>4
  <2> HIDE DEF access
  <2>5. access(i) = Event(OpId(raw, i), raw[i].kind, OpId(raw, i), raw[i].address, raw[i].value,
                          raw[i].hart, ProgramIndex(raw, i))
    BY <2>1 DEF Event
  <2>6. access(i).op = OpId(raw, i)
    BY <2>1
  <2>3. CASE raw[i].kind = "load"
    BY <2>2, <2>3, <2>5, <2>6, SimpleOperation
  <2>4. CASE raw[i].kind = "store"
    BY <2>4, <2>5, SimpleOperation
  <2> QED
    BY <1>4, <2>3, <2>4
<1>11. \A i \in Ids(o) : \E e \in Architectural(E) : e.op = i
  BY DEF o, Operations, Ids
<1>12. \A i \in Ids(o) : (\E a \in A : i = start(a).op /\ o[i] = Simple("init_write", a, 0, NoHart, 0))
                         \/ \E j \in D : i = access(j).op /\ o[i] = Simple(IF raw[j].kind = "load" THEN "read" ELSE "write",
                                raw[j].address, raw[j].value, raw[j].hart, ProgramIndex(raw, j))
  <2> HIDE DEF access
  <2> QED
    BY <1>6, <1>8, <1>9, <1>10, <1>11
<1>13. ASSUME NEW i \in Ids(o) PROVE i \in Nat \ {0} /\ (IsStart(o[i]) \/ IsAccess(o[i]))
  <2>1. CASE \E a \in A : i = start(a).op /\ o[i] = Simple("init_write", a, 0, NoHart, 0)
    <3>1. PICK a \in A : i = start(a).op /\ o[i] = Simple("init_write", a, 0, NoHart, 0)
      BY <2>1
    <3>2. a \in Nat /\ 0 \in Values /\ i = a + 1
      BY <1>2, <1>5, <3>1
    <3> QED
      BY <3>1, <3>2 DEF IsStart
  <2>2. CASE \E j \in D : i = access(j).op /\ o[i] = Simple(IF raw[j].kind = "load" THEN "read" ELSE "write",
                                raw[j].address, raw[j].value, raw[j].hart, ProgramIndex(raw, j))
    <3>1. PICK j \in D : i = access(j).op /\ o[i] = Simple(IF raw[j].kind = "load" THEN "read" ELSE "write",
                                raw[j].address, raw[j].value, raw[j].hart, ProgramIndex(raw, j))
      BY <2>2
    <3>2. i = OpId(raw, j)
      BY <1>3, <3>1
    <3> HIDE DEF access
    <3>3. IsAccess(o[i])
      BY <1>4, <1>5, <3>1 DEF IsAccess
    <3> QED
      BY <1>4, <3>2, <3>3
  <2> HIDE DEF access
  <2> QED
    BY <1>12, <2>1, <2>2
<1>14. ASSUME NEW i \in Ids(o) PROVE \E w \in Ids(o) : o[w].kind = "init_write" /\ o[w].address = o[i].address
  <2>1. PICK a \in A : o[i].address = a
    <3>1. CASE \E a \in A : o[i] = Simple("init_write", a, 0, NoHart, 0)
      BY <3>1 DEF Simple
    <3>2. CASE \E j \in D : o[i] = Simple(IF raw[j].kind = "load" THEN "read" ELSE "write",
                                raw[j].address, raw[j].value, raw[j].hart, ProgramIndex(raw, j))
      <4>1. PICK j \in D : o[i] = Simple(IF raw[j].kind = "load" THEN "read" ELSE "write",
                                raw[j].address, raw[j].value, raw[j].hart, ProgramIndex(raw, j))
        BY <3>2
      <4>2. o[i].address = raw[j].address
        BY <4>1 DEF Simple
      <4> QED
        BY <1>4, <4>2
    <3> HIDE DEF access
    <3> QED
      BY <1>12, <3>1, <3>2
  <2>2. start(a).op \in Ids(o) /\ o[start(a).op] = Simple("init_write", a, 0, NoHart, 0)
    BY <1>6, <1>8, <1>9
  <2> QED
    BY <2>1, <2>2 DEF Simple
<1>15. o = [i \in Ids(o) |-> o[i]] /\ Ids(o) # {}
  <2>1. Architectural(E) # {}
    BY DEF Unprojectable, E
  <2>2. Ids(o) # {}
    BY <1>8, <2>1
  <2>3. o = [i \in Ids(o) |-> o[i]]
    BY DEF o, Operations, Ids
  <2> QED
    BY <2>2, <2>3
<1>16. ASSUME NEW i \in Ids(o), o[i].kind # "init_write" PROVE \E j \in D : i = OpId(raw, j)
  <2>1. ~ \E a \in A : o[i] = Simple("init_write", a, 0, NoHart, 0)
    <3>1. \A a : Simple("init_write", a, 0, NoHart, 0).kind = "init_write"
      BY DEF Simple
    <3> QED
      BY <1>16, <3>1
  <2>2. \E j \in D : i = access(j).op
    <3> HIDE DEF access
    <3> QED
      BY <1>12, <2>1
  <2> QED
    BY <1>3, <2>2
<1> QED
  BY <1>5, <1>13, <1>14, <1>15, <1>16 DEF Programmed, o, E, D

\* There are no more of them than the bound says.
LEMMA ProgramIsSmall ==
    ASSUME NEW raw \in RawPrograms, NEW t, t = ArchitectureTrace(raw), ~ Unprojectable(t.events),
           NEW g, g.ops = Operations(t.events)
    PROVE  Cardinality(Dynamic(g)) <= Bounds.memory_ops
<1> DEFINE S == Dynamic(g)
           T == {j \in DOMAIN raw : OpId(raw, j) \in S}
           f == [j \in T |-> OpId(raw, j)]
<1>1. PICK count \in 1 .. Bounds.memory_ops : raw \in [1 .. count -> RawChoice]
  BY DEF RawPrograms
<1>2. count \in Nat /\ count <= Bounds.memory_ops /\ Bounds.memory_ops \in Nat /\ DOMAIN raw = 1 .. count
  BY <1>1, BoundsAssumption
<1>3. \A i \in S : \E j \in DOMAIN raw : i = OpId(raw, j)
  BY ProgramIsProgrammed DEF Dynamic
<1>4. f \in Surjection(T, S)
  BY <1>3 DEF Surjection
<1>5. IsFiniteSet(1 .. count) /\ Cardinality(1 .. count) = count
  BY <1>2, FS_Interval
<1>6. T \subseteq 1 .. count
  BY <1>2
<1> HIDE DEF T, S, f
<1>7. IsFiniteSet(T) /\ Cardinality(T) <= count
  BY <1>5, <1>6, FS_Subset
<1>8. IsFiniteSet(S) /\ Cardinality(S) <= Cardinality(T)
  BY <1>4, <1>7, FS_Surjection
<1>9. Cardinality(S) \in Nat /\ Cardinality(T) \in Nat
  BY <1>7, <1>8, FS_CardinalityType
<1> QED
  BY <1>2, <1>7, <1>8, <1>9 DEF S

-----------------------------------------------------------------------------
(* The schedules are orders of the dynamic operations, the first the best. *)

\* Sequences of the elements of a finite set are finitely many.
LEMMA FiniteFunctions ==
    ASSUME NEW D, IsFiniteSet(D), NEW S, IsFiniteSet(S)
    PROVE  IsFiniteSet([D -> S])
<1> DEFINE graphOf == [f \in [D -> S] |-> {<<i, f[i]>> : i \in D}]
           T == SUBSET (D \X S)
<1>1. IsFiniteSet(T)
  BY FS_Product, FS_SUBSET
<1>2. graphOf \in [[D -> S] -> T]
  OBVIOUS
<1>3. \A f, h \in [D -> S] : graphOf[f] = graphOf[h] => f = h
  <2> SUFFICES ASSUME NEW f \in [D -> S], NEW h \in [D -> S], graphOf[f] = graphOf[h] PROVE f = h
    OBVIOUS
  <2>1. {<<i, f[i]>> : i \in D} = {<<i, h[i]>> : i \in D}
    OBVIOUS
  <2>2. ASSUME NEW i \in D PROVE f[i] = h[i]
    <3>1. <<i, f[i]>> \in {<<j, h[j]>> : j \in D}
      BY <2>1
    <3> QED
      BY <3>1
  <2> QED
    BY <2>2
<1>4. graphOf \in Injection([D -> S], T)
  <2> HIDE DEF graphOf, T
  <2> QED
    BY <1>2, <1>3, Zenon DEF Injection, IsInjective
<1> HIDE DEF graphOf, T
<1> QED
  BY <1>1, <1>4, FS_Injection

LEMMA OrderingsOf ==
    ASSUME NEW S, IsFiniteSet(S)
    PROVE  /\ IsFiniteSet(SetToSeqs(S)) /\ Cardinality(S) \in Nat
           /\ \A f : f \in SetToSeqs(S) <=>
                /\ f \in [1 .. Cardinality(S) -> S]
                /\ \A i, j \in 1 .. Cardinality(S) : i # j => f[i] # f[j]
           /\ \A f \in SetToSeqs(S) : \A s \in S : \E i \in 1 .. Cardinality(S) : f[i] = s
<1> DEFINE D == 1 .. Cardinality(S)
<1>1. Cardinality(S) \in Nat
  BY FS_CardinalityType
<1>2. IsFiniteSet(D) /\ Cardinality(D) = Cardinality(S)
  <2> DEFINE n == Cardinality(S)
  <2>1. 1 \in Int /\ n \in Int /\ n \in Nat
    BY <1>1
  <2>2. IsFiniteSet(1 .. n) /\ Cardinality(1 .. n) = IF 1 > n THEN 0 ELSE n - 1 + 1
    BY <2>1, FS_Interval, Zenon
  <2>3. (IF 1 > n THEN 0 ELSE n - 1 + 1) = n
    BY <2>1
  <2> QED
    BY <2>2, <2>3
<1>3. SetToSeqs(S) = {f \in [D -> S] : \A i, j \in D : i # j => f[i] # f[j]}
  BY DEF SetToSeqs
<1> HIDE DEF D
<1>4. IsFiniteSet(SetToSeqs(S))
  <2>1. SetToSeqs(S) \in SUBSET [D -> S]
    BY <1>3
  <2> QED
    BY <1>2, <2>1, FiniteFunctions, FS_Subset
<1>5. \A f : f \in SetToSeqs(S) <=> f \in [D -> S] /\ \A i, j \in D : i # j => f[i] # f[j]
  BY <1>3
<1>6. ASSUME NEW f \in SetToSeqs(S), NEW s \in S
      PROVE  \E i \in D : f[i] = s
  <2>1. f \in [D -> S] /\ \A i, j \in D : f[i] = f[j] => i = j
    BY <1>5
  <2>2. f \in Injection(D, S)
    BY <2>1, Zenon DEF Injection, IsInjective
  <2>3. f \in Surjection(D, S)
    BY <1>2, <2>2, FS_Injection, Zenon
  <2> QED
    BY <2>3 DEF Surjection
<1> QED
  BY <1>1, <1>4, <1>5, <1>6 DEF D

LEMMA EarlierIsTotal ==
    ASSUME NEW S \in SUBSET Nat, IsFiniteSet(S),
           NEW a \in SetToSeqs(S), NEW b \in SetToSeqs(S), NEW c \in SetToSeqs(S)
    PROVE  /\ Earlier(a, b) => ~ Earlier(b, a)
           /\ a # b => Earlier(a, b) \/ Earlier(b, a)
           /\ Earlier(a, b) /\ Earlier(b, c) => Earlier(a, c)
<1> DEFINE D == 1 .. Cardinality(S)
<1>1. a \in [D -> S] /\ b \in [D -> S] /\ c \in [D -> S] /\ D \subseteq Nat
  BY OrderingsOf
<1>2. /\ DOMAIN a = D /\ DOMAIN b = D /\ \A i \in D : a[i] \in Nat /\ b[i] \in Nat /\ c[i] \in Nat
  BY <1>1
<1>3. Cardinality(S) \in Nat
  BY OrderingsOf
<1>7. /\ \A i \in D : \A j \in 1 .. i - 1 : j \in D
      /\ \A i \in D : i \in Nat /\ i >= 1
  BY <1>3
<1> HIDE DEF D
<1>4. Earlier(a, b) => ~ Earlier(b, a)
  <2> SUFFICES ASSUME Earlier(a, b), Earlier(b, a) PROVE FALSE
    OBVIOUS
  <2>1. PICK i \in D : a[i] < b[i] /\ \A j \in 1 .. i - 1 : a[j] = b[j]
    BY <1>2 DEF Earlier
  <2>2. PICK k \in D : b[k] < a[k] /\ \A j \in 1 .. k - 1 : b[j] = a[j]
    BY <1>2 DEF Earlier
  <2>3. i \in Nat /\ k \in Nat /\ i >= 1 /\ k >= 1
    BY <1>7
  <2>4. CASE i < k
    BY <1>2, <2>1, <2>2, <2>3, <2>4
  <2>5. CASE k < i
    BY <1>2, <2>1, <2>2, <2>3, <2>5
  <2>6. CASE i = k
    BY <1>2, <2>1, <2>2, <2>6
  <2> QED
    BY <2>3, <2>4, <2>5, <2>6
<1>5. a # b => Earlier(a, b) \/ Earlier(b, a)
  <2> SUFFICES ASSUME a # b PROVE Earlier(a, b) \/ Earlier(b, a)
    OBVIOUS
  <2> DEFINE differ == {i \in D : a[i] # b[i]}
  <2>1. differ \in SUBSET Nat /\ differ # {}
    <3>1. differ \in SUBSET Nat
      BY <1>7
    <3>2. a = [i \in D |-> a[i]] /\ b = [i \in D |-> b[i]]
      BY <1>1
    <3> QED
      BY <3>1, <3>2
  <2>2. PICK i \in differ : \A k \in differ : i <= k
    <3> HIDE DEF differ
    <3> QED
      BY <2>1, LeastNatural
  <2>3. \A j \in 1 .. i - 1 : a[j] = b[j]
    <3> SUFFICES ASSUME NEW j \in 1 .. i - 1, a[j] # b[j] PROVE FALSE
      OBVIOUS
    <3>1. j \in D /\ i \in Nat /\ j < i
      BY <1>7, <2>2
    <3>2. j \in differ
      BY <3>1
    <3> HIDE DEF differ
    <3> QED
      BY <2>1, <2>2, <3>1, <3>2
  <2>4. a[i] < b[i] \/ b[i] < a[i]
    BY <1>2
  <2> QED
    BY <1>2, <2>3, <2>4 DEF Earlier
<1>6. Earlier(a, b) /\ Earlier(b, c) => Earlier(a, c)
  <2> SUFFICES ASSUME Earlier(a, b), Earlier(b, c) PROVE Earlier(a, c)
    OBVIOUS
  <2>1. PICK i \in D : a[i] < b[i] /\ \A j \in 1 .. i - 1 : a[j] = b[j]
    BY <1>2 DEF Earlier
  <2>2. PICK k \in D : b[k] < c[k] /\ \A j \in 1 .. k - 1 : b[j] = c[j]
    BY <1>2 DEF Earlier
  <2>3. i \in Nat /\ k \in Nat /\ i >= 1 /\ k >= 1
    BY <1>7
  <2>4. CASE i <= k
    <3>1. a[i] < c[i]
      <4>1. CASE i = k
        BY <1>2, <2>1, <2>2, <4>1
      <4>2. CASE i < k
        BY <1>2, <2>1, <2>2, <2>3, <4>2
      <4> QED
        BY <2>3, <2>4, <4>1, <4>2
    <3>2. \A j \in 1 .. i - 1 : a[j] = c[j]
      BY <2>1, <2>2, <2>3, <2>4
    <3> QED
      BY <1>2, <3>1, <3>2 DEF Earlier
  <2>5. CASE k < i
    <3>1. a[k] < c[k]
      BY <1>2, <2>1, <2>2, <2>3, <2>5
    <3>2. \A j \in 1 .. k - 1 : a[j] = c[j]
      BY <2>1, <2>2, <2>3, <2>5
    <3> QED
      BY <1>2, <3>1, <3>2 DEF Earlier
  <2> QED
    BY <2>3, <2>4, <2>5
<1> QED
  BY <1>4, <1>5, <1>6

\* By the number of its predecessors, every member of a strict total order has a place of
\* its own, and every place is taken.
LEMMA Placing ==
    ASSUME NEW T, IsFiniteSet(T), NEW R, StrictTotal(T, R),
           NEW place, place = [s \in T |-> 1 + Cardinality({t \in T : <<t, s>> \in R})]
    PROVE  /\ place \in Surjection(T, 1 .. Cardinality(T))
           /\ \A s, t \in T : place[s] = place[t] => s = t
           /\ \A s, t \in T : <<s, t>> \in R <=> place[s] < place[t]
<1>1. Cardinality(T) \in Nat
  BY FS_CardinalityType
<1>2. PICK rank \in [T -> 0 .. Cardinality(T) - 1] :
            /\ \A s \in T : rank[s] = Cardinality({t \in T : <<t, s>> \in R})
            /\ \A s, t \in T : <<s, t>> \in R <=> rank[s] < rank[t]
  BY Counting
<1>3. \A s \in T : place[s] = 1 + rank[s] /\ rank[s] \in 0 .. Cardinality(T) - 1
  BY <1>2
<1>4. ASSUME NEW s \in T, NEW t \in T
      PROVE  <<s, t>> \in R <=> place[s] < place[t]
  <2>1. <<s, t>> \in R <=> rank[s] < rank[t]
    BY <1>2
  <2> QED
    BY <1>3, <2>1
<1>5. \A s, t \in T : place[s] = place[t] => s = t
  <2> SUFFICES ASSUME NEW s \in T, NEW t \in T, place[s] = place[t], s # t PROVE FALSE
    OBVIOUS
  <2>1. <<s, t>> \in R \/ <<t, s>> \in R
    BY DEF StrictTotal
  <2>2. place[s] < place[t] \/ place[t] < place[s]
    BY <1>4, <2>1
  <2> QED
    BY <1>3, <2>2
<1>6. place \in [T -> 1 .. Cardinality(T)]
  <2>1. \A s \in T : place[s] \in 1 .. Cardinality(T)
    BY <1>1, <1>3
  <2>2. place \in [T -> {place[s] : s \in T}]
    OBVIOUS
  <2> QED
    BY <2>1, <2>2
<1> DEFINE D == 1 .. Cardinality(T)
<1>7. IsFiniteSet(D) /\ Cardinality(D) = Cardinality(T)
  <2> DEFINE n == Cardinality(T)
  <2>1. 1 \in Int /\ n \in Int /\ n \in Nat
    BY <1>1
  <2>2. IsFiniteSet(1 .. n) /\ Cardinality(1 .. n) = IF 1 > n THEN 0 ELSE n - 1 + 1
    BY <2>1, FS_Interval, Zenon
  <2>3. (IF 1 > n THEN 0 ELSE n - 1 + 1) = n
    BY <2>1
  <2> QED
    BY <2>2, <2>3
<1>8. place \in Injection(T, D)
  BY <1>5, <1>6, Zenon DEF Injection, IsInjective, D
<1>9. place \in Surjection(T, D)
  <2> HIDE DEF D
  <2> QED
    BY <1>7, <1>8, FS_Injection, Zenon
<1> QED
  BY <1>4, <1>5, <1>9 DEF D

\* Preferred edges are pairs of dynamic operations.
PreferredPairs(g) == Preferred(g) \subseteq Dynamic(g) \X Dynamic(g)

LEMMA SchedulesAreOrders ==
    ASSUME NEW g, Dynamic(g) \in SUBSET Nat, IsFiniteSet(Dynamic(g)), PreferredPairs(g),
           NEW limit \in Nat \ {0},
           NEW schedules, schedules = CandidateSchedules(g, limit), NEW i \in DOMAIN schedules
    PROVE  /\ schedules[i] \in SetToSeqs(Dynamic(g))
           /\ i = 1 => \A o \in SetToSeqs(Dynamic(g)) :
                            Violations(Preferred(g), schedules[i]) <= Violations(Preferred(g), o)
<1> DEFINE O == SetToSeqs(Dynamic(g))
           V(o) == Violations(Preferred(g), o)
           scored == {<<V(o), o>> : o \in O}
           better(a, b) == a[1] < b[1] \/ (a[1] = b[1] /\ Earlier(a[2], b[2]))
           place(s) == 1 + Cardinality({t \in scored : better(t, s)})
           ranked == {<<place(s), s[2]>> : s \in scored}
           R == {e \in scored \X scored : better(e[1], e[2])}
           f == [s \in scored |-> 1 + Cardinality({t \in scored : <<t, s>> \in R})]
<1>1. IsFiniteSet(O) /\ \A o \in O : V(o) \in Nat
  <2>1. IsFiniteSet(O)
    BY OrderingsOf
  <2>2. IsFiniteSet(Preferred(g))
    BY FS_Product, FS_Subset DEF PreferredPairs
  <2>3. ASSUME NEW o \in O PROVE V(o) \in Nat
    <3> DEFINE bad == {e \in Preferred(g) : Position(o, e[1]) >= Position(o, e[2])}
    <3>1. bad \in SUBSET Preferred(g)
      OBVIOUS
    <3>2. V(o) = Cardinality(bad)
      BY DEF Violations
    <3> HIDE DEF bad
    <3> QED
      BY <2>2, <3>1, <3>2, FS_Subset, FS_CardinalityType
  <2> QED
    BY <2>1, <2>3
<1>2. IsFiniteSet(scored)
  <2> DEFINE h == [o \in O |-> <<V(o), o>>]
  <2>1. h \in [O -> scored] /\ scored = {h[o] : o \in O}
    <3> HIDE DEF O, V
    <3> QED
      OBVIOUS
  <2> HIDE DEF h, scored, O
  <2>3. IsFiniteSet(O) /\ h \in [O -> scored]
    BY <1>1, <2>1, Zenon
  <2>2. IsFiniteSet({h[o] : o \in O})
    BY <2>3, ImageIsFinite
  <2> QED
    BY <2>1, <2>2
<1>3. \A o, p, q \in O : /\ Earlier(o, p) => ~ Earlier(p, o)
                         /\ o # p => Earlier(o, p) \/ Earlier(p, o)
                         /\ Earlier(o, p) /\ Earlier(p, q) => Earlier(o, q)
  BY EarlierIsTotal
<1>4. \A s \in scored : s[1] \in Nat /\ s[2] \in O /\ s = <<s[1], s[2]>> /\ s[1] = V(s[2])
  <2> HIDE DEF O, V
  <2> QED
    BY <1>1
<1> HIDE DEF O, V, scored
<1>5. ASSUME NEW s, NEW t
      PROVE  <<s, t>> \in R <=> s \in scored /\ t \in scored /\ better(s, t)
  <2> DEFINE e == <<s, t>>
  <2>1. e[1] = s /\ e[2] = t /\ (e \in scored \X scored <=> s \in scored /\ t \in scored)
    OBVIOUS
  <2>2. e \in R <=> e \in scored \X scored /\ better(e[1], e[2])
    OBVIOUS
  <2> HIDE DEF R
  <2> QED
    BY <2>1, <2>2
<1> HIDE DEF R
<1>6. StrictTotal(scored, R)
  <2>1. \A s, t \in scored : <<s, t>> \in R => <<t, s>> \notin R
    BY <1>3, <1>4, <1>5
  <2>2. \A s, t \in scored : s # t => <<s, t>> \in R \/ <<t, s>> \in R
    <3> SUFFICES ASSUME NEW s \in scored, NEW t \in scored, s # t PROVE <<s, t>> \in R \/ <<t, s>> \in R
      OBVIOUS
    <3>1. s[1] = t[1] => s[2] # t[2]
      BY <1>4
    <3> QED
      BY <1>3, <1>4, <1>5, <3>1
  <2>3. \A s, t, u \in scored : <<s, t>> \in R /\ <<t, u>> \in R => <<s, u>> \in R
    <3> SUFFICES ASSUME NEW s \in scored, NEW t \in scored, NEW u \in scored, better(s, t), better(t, u)
                 PROVE  better(s, u)
      BY <1>5
    <3> QED
      BY <1>3, <1>4
  <2> QED
    BY <2>1, <2>2, <2>3 DEF StrictTotal
<1>7. \A s \in scored : f[s] = place(s)
  <2> TAKE s \in scored
  <2>1. {t \in scored : <<t, s>> \in R} = {t \in scored : better(t, s)}
    BY <1>5
  <2> QED
    BY <2>1
<1> HIDE DEF better, place
<1>8. /\ f \in Surjection(scored, 1 .. Cardinality(scored))
      /\ \A s, t \in scored : f[s] = f[t] => s = t
      /\ \A s, t \in scored : <<s, t>> \in R <=> f[s] < f[t]
  BY <1>2, <1>6, Placing
<1> HIDE DEF f
<1> DEFINE count == IF limit < Cardinality(scored) THEN limit ELSE Cardinality(scored)
<1>9. schedules = [k \in 1 .. count |-> (CHOOSE r \in ranked : r[1] = k)[2]]
  BY DEF CandidateSchedules, better, place, V, O, scored
<1>10. i \in 1 .. Cardinality(scored)
  <2>1. i \in 1 .. count /\ Cardinality(scored) \in Nat
    BY <1>2, <1>9, FS_CardinalityType
  <2> QED
    BY <2>1
<1>11. PICK s \in scored : f[s] = i
  BY <1>8, <1>10 DEF Surjection
<1> DEFINE r == CHOOSE x \in ranked : x[1] = i
<1>12. r = <<i, s[2]>>
  <2>1. <<i, s[2]>> \in ranked
    BY <1>7, <1>11
  <2>2. \A x \in ranked : x[1] = i => x = <<i, s[2]>>
    <3> SUFFICES ASSUME NEW t \in scored, place(t) = i PROVE <<place(t), t[2]>> = <<i, s[2]>>
      OBVIOUS
    <3>1. t = s
      BY <1>7, <1>8, <1>11
    <3> QED
      BY <3>1
  <2> HIDE DEF ranked
  <2> QED
    BY <2>1, <2>2
<1>13. schedules[i] = s[2]
  <2>1. i \in 1 .. count
    BY <1>9
  <2> HIDE DEF r
  <2>2. schedules[i] = r[2]
    BY <1>9, <2>1 DEF r
  <2> QED
    BY <1>12, <2>2
<1>14. ASSUME i = 1, NEW o \in O
       PROVE  V(s[2]) <= V(o)
  <2>1. <<V(o), o>> \in scored
    BY DEF scored
  <2>2. f[<<V(o), o>>] \in 1 .. Cardinality(scored)
    BY <1>8, <2>1 DEF Surjection
  <2>3. ~ (f[<<V(o), o>>] < f[s])
    BY <1>11, <1>14, <2>2
  <2>4. ~ better(<<V(o), o>>, s)
    BY <1>5, <1>8, <2>1, <2>3
  <2>5. ~ (V(o) < s[1])
    BY <2>4 DEF better
  <2> QED
    BY <1>1, <1>4, <2>5
<1> QED
  BY <1>4, <1>13, <1>14 DEF O, V

-----------------------------------------------------------------------------
(* Skeletons. *)

LEMMA ProgrammedParts ==
    ASSUME NEW o, Programmed(o), NEW i \in Ids(o)
    PROVE  /\ i \in Nat \ {0} /\ o[i].kind \in {"init_write", "read", "write"}
           /\ o[i].address \in Nat /\ o[i].value \in Values /\ o[i].write_value = o[i].value
           /\ o[i].index \in Nat /\ StoredValue(o[i]) = o[i].value
           /\ o[i].kind # "init_write" => o[i].hart \in 1 .. Bounds.harts /\ o[i].hart # NoHart
           /\ o[i].kind = "init_write" => o[i].hart = NoHart /\ o[i].index = 0
           /\ o[i] = Simple(o[i].kind, o[i].address, o[i].value, o[i].hart, o[i].index)
           /\ Footprint(o[i]) = {o[i].address}
           /\ i \in Reads(o) <=> o[i].kind = "read"
           /\ i \in Writes(o) <=> o[i].kind # "read"
<1>1. PICK kind \in {"init_write", "read", "write"}, address \in Nat, value \in Values,
           hart \in (1 .. Bounds.harts) \cup {NoHart}, index \in Nat :
            /\ o[i] = Simple(kind, address, value, hart, index)
            /\ kind # "init_write" => hart \in 1 .. Bounds.harts
            /\ kind = "init_write" => hart = NoHart /\ index = 0
  <2>1. CASE IsStart(o[i])
    <3>1. PICK address \in Nat, value \in Values : o[i] = Simple("init_write", address, value, NoHart, 0)
      BY <2>1 DEF IsStart
    <3> QED
      BY <3>1
  <2>2. CASE IsAccess(o[i])
    <3>1. PICK kind \in {"read", "write"}, address \in Nat, value \in Values, hart \in 1 .. Bounds.harts, index \in Nat :
                o[i] = Simple(kind, address, value, hart, index)
      BY <2>2 DEF IsAccess
    <3> QED
      BY <3>1
  <2> QED
    BY <2>1, <2>2 DEF Programmed
<1>2. /\ o[i].kind = kind /\ o[i].address = address /\ o[i].value = value /\ o[i].write_value = value
      /\ o[i].hart = hart /\ o[i].index = index /\ o[i].bytes = {0}
  BY <1>1 DEF Simple
<1>3. Footprint(o[i]) = {address}
  BY <1>2 DEF Footprint
<1>4. i \in Nat \ {0}
  BY DEF Programmed
<1>5. /\ i \in Reads(o) <=> o[i].kind = "read"
      /\ i \in Writes(o) <=> o[i].kind # "read"
  BY <1>2 DEF Reads, Writes, IsRead, IsWrite
<1>6. StoredValue(o[i]) = value
  BY <1>2 DEF StoredValue
<1>7. kind # "init_write" => hart # NoHart
  BY <1>1, HartAssumption
<1> QED
  BY <1>1, <1>2, <1>3, <1>4, <1>5, <1>6, <1>7

ExecutionOf(g) == [rf |-> g.rf, co |-> g.co]

Skeleton(g) == Programmed(g.ops) /\ ExecutionOf(g) \in ExecutionsOf(g.ops)

\* A read reads a write of its address and value, once; colocated writes are ordered.
LEMMA SkeletonParts ==
    ASSUME NEW g, Skeleton(g)
    PROVE  /\ g.rf \subseteq Writes(g.ops) \X Reads(g.ops)
           /\ \A e \in g.rf : g.ops[e[1]].address = g.ops[e[2]].address /\ g.ops[e[1]].value = g.ops[e[2]].value
           /\ \A r \in Reads(g.ops) : \E w \in Writes(g.ops) :
                <<w, r>> \in g.rf /\ \A v \in Writes(g.ops) : <<v, r>> \in g.rf => v = w
           /\ g.co \subseteq Writes(g.ops) \X Writes(g.ops)
           /\ \A e \in g.co : e[1] # e[2] /\ g.ops[e[1]].address = g.ops[e[2]].address
           /\ \A v, w \in Writes(g.ops) : v # w /\ g.ops[v].address = g.ops[w].address =>
                (<<v, w>> \in g.co <=> <<w, v>> \notin g.co)
           /\ ~ Cyclic(Ids(g.ops), g.co)
           /\ \A v, w \in Writes(g.ops) :
                g.ops[v].kind = "init_write" /\ v # w /\ g.ops[v].address = g.ops[w].address => <<v, w>> \in g.co
           /\ Dynamic(g) \in SUBSET (Nat \ {0}) /\ Ids(g.ops) \in SUBSET (Nat \ {0})
           /\ IsFiniteSet(Dynamic(g)) /\ IsFiniteSet(Ids(g.ops))
           /\ PreferredPairs(g)
<1> DEFINE o == g.ops
<1>1. ValidRf(o, [rf |-> g.rf]) /\ ValidCo(o, [co |-> g.co])
  <2>1. ExecutionOf(g).rf = g.rf /\ ExecutionOf(g).co = g.co
    BY DEF ExecutionOf
  <2> QED
    BY <2>1, ExecutionsAreRecords DEF Skeleton
<1>2. \A i \in Ids(o) : Footprint(o[i]) = {o[i].address} /\ StoredValue(o[i]) = o[i].value
  BY ProgrammedParts DEF Skeleton
<1>3. \A i, j \in Ids(o) : SameLocation(o[i], o[j]) <=> o[i].address = o[j].address
  BY <1>2 DEF SameLocation
<1>4. Reads(o) \subseteq Ids(o) /\ Writes(o) \subseteq Ids(o)
  BY DEF Reads, Writes
<1>5. Ids(o) \in SUBSET (Nat \ {0}) /\ IsFiniteSet(Ids(o)) /\ Dynamic(g) \in SUBSET Ids(o)
  BY DEF Skeleton, Programmed, Dynamic
<1>6. IsFiniteSet(Dynamic(g))
  BY <1>5, FS_Subset
<1>7. /\ g.rf \subseteq Writes(o) \X Reads(o)
      /\ \A e \in g.rf : o[e[1]].address = o[e[2]].address /\ o[e[1]].value = o[e[2]].value
  <2>1. /\ g.rf \subseteq Writes(o) \X Reads(o)
        /\ \A e \in g.rf : /\ SameLocation(o[e[1]], o[e[2]])
                           /\ StoredValue(o[e[1]]) = o[e[2]].value
    BY <1>1 DEF ValidRf
  <2>2. ASSUME NEW e \in g.rf
        PROVE  o[e[1]].address = o[e[2]].address /\ o[e[1]].value = o[e[2]].value
    <3>1. e[1] \in Ids(o) /\ e[2] \in Ids(o)
      BY <1>4, <2>1
    <3> QED
      BY <1>2, <1>3, <2>1, <3>1
  <2> QED
    BY <2>1, <2>2
<1>8. \A r \in Reads(o) : \E w \in Writes(o) :
                <<w, r>> \in g.rf /\ \A v \in Writes(o) : <<v, r>> \in g.rf => v = w
  BY <1>1 DEF ValidRf
<1>9. /\ g.co \subseteq Writes(o) \X Writes(o)
      /\ \A e \in g.co : e[1] # e[2] /\ o[e[1]].address = o[e[2]].address
  <2>1. /\ g.co \subseteq Writes(o) \X Writes(o)
        /\ \A e \in g.co : e[1] # e[2] /\ SameLocation(o[e[1]], o[e[2]])
    BY <1>1 DEF ValidCo
  <2>2. ASSUME NEW e \in g.co
        PROVE  o[e[1]].address = o[e[2]].address
    <3>1. e[1] \in Ids(o) /\ e[2] \in Ids(o)
      BY <1>4, <2>1
    <3> QED
      BY <1>3, <2>1, <3>1
  <2> QED
    BY <2>1, <2>2
<1>10. /\ \A v, w \in Writes(o) : v # w /\ o[v].address = o[w].address =>
                (<<v, w>> \in g.co <=> <<w, v>> \notin g.co)
       /\ \A v, w \in Writes(o) :
                o[v].kind = "init_write" /\ v # w /\ o[v].address = o[w].address => <<v, w>> \in g.co
       /\ ~ Cyclic(Ids(o), g.co)
  <2>1. /\ \A v, w \in Writes(o) : v # w /\ SameLocation(o[v], o[w]) =>
                (<<v, w>> \in g.co <=> <<w, v>> \notin g.co)
        /\ \A v, w \in Writes(o) :
                o[v].kind = "init_write" /\ v # w /\ SameLocation(o[v], o[w]) => <<v, w>> \in g.co
        /\ ~ Cyclic(Ids(o), g.co)
    BY <1>1 DEF ValidCo
  <2> QED
    BY <1>3, <1>4, <2>1
<1>11. PreferredPairs(g)
  <2>1. ASSUME NEW e \in Preferred(g)
        PROVE  e \in Dynamic(g) \X Dynamic(g)
    <3>1. \E i, j : e = <<i, j>>
      <4>1. Fr(o, g) \subseteq Reads(o) \X Writes(o)
        BY DEF Fr
      <4> QED
        BY <1>7, <1>9, <4>1 DEF Preferred
    <3>2. e[1] \in Dynamic(g) /\ e[2] \in Dynamic(g)
      BY DEF Preferred
    <3> QED
      BY <3>1, <3>2
  <2> QED
    BY <2>1 DEF PreferredPairs
<1> QED
  BY <1>5, <1>6, <1>7, <1>8, <1>9, <1>10, <1>11

-----------------------------------------------------------------------------
(* The events that the adapter injects. *)

InputOf(order, c) == input = InputTrace(graph, stage, order, c)

\* The access of the operation in the i-th place.
Step(i) == stage.cycle_start + (i - 1) * stage.cycle_stride

AccessOf(order, i) ==
    [id |-> <<"access", order[i]>>, type |-> "access", cycle |-> Step(i), op |-> order[i],
     hart |-> graph.ops[order[i]].hart, address |-> graph.ops[order[i]].address, kind |-> graph.ops[order[i]].kind,
     write_value |-> IF order[i] \in DynamicReads(graph)
                     THEN graph.ops[InitialOf(graph, graph.ops[order[i]].address)].value
                     ELSE graph.ops[order[i]].value,
     after |-> IF i = 1 THEN NoAccess ELSE order[i - 1]]

InputAccesses == {e \in input : e.type = "access"}
CoreSource == {e \in input : e.type \in {"init", "memory_instruction", "page_map"}}

SourceIds == {"arch_init", "instruction", "page"}

LEMMA InputParts ==
    ASSUME NEW order, NEW c, InputOf(order, c)
    PROVE  /\ \A e : e \in InputAccesses <=> \E i \in DOMAIN order : e = AccessOf(order, i)
           /\ CoherenceChildInput(input) = Lines(graph) \cup InputAccesses
           /\ stage.kind # "coherence" => InitWrites(graph) \subseteq CoreSource
           /\ \A e \in CoreSource :
                /\ \E k : e.id = <<k, e.id[2]>> /\ k \in SourceIds
                /\ e.type \in {"init", "memory_instruction", "page_map"}
                /\ e.type = "init" => e \in InitWrites(graph)
           /\ \A e \in InputAccesses \cup Lines(graph) : e.type \in {"access", "line_init"}
<1> DEFINE X == Accesses(graph, stage, order)
           N == Instructions(graph)
           P == Pages(graph, c)
           I == InitWrites(graph)
           L == Lines(graph)
<1>1. \A e : e \in X <=> \E i \in DOMAIN order : e = AccessOf(order, i)
  BY DEF Accesses, AccessOf, Step
<1>2. \A e \in X : e.type = "access"
  BY <1>1 DEF AccessOf
<1>3. \A e \in N : e.type = "memory_instruction" /\ \E o : e.id = <<"instruction", o>>
  BY DEF Instructions
<1>4. \A e \in P : e.type = "page_map" /\ \E o : e.id = <<"page", o>>
  BY DEF Pages
<1>5. \A e \in I : e.type = "init" /\ \E o : e.id = <<"arch_init", o>>
  BY DEF InitWrites
<1>6. \A e \in L : e.type = "line_init"
  BY DEF Lines
<1>7. \A e : e \in input <=> e \in L \/ e \in X \/ (stage.kind # "coherence" /\ (e \in I \/ e \in N \/ e \in P))
  BY DEF InputOf, InputTrace
<1> HIDE DEF X, N, P, I, L
<1>8. \A e : e \in InputAccesses <=> e \in X
  BY <1>2, <1>3, <1>4, <1>5, <1>6, <1>7 DEF InputAccesses
<1>9. CoherenceChildInput(input) = L \cup InputAccesses
  BY <1>2, <1>3, <1>4, <1>5, <1>6, <1>7, <1>8 DEF CoherenceChildInput
<1>10. stage.kind # "coherence" => I \subseteq CoreSource
  BY <1>5, <1>7 DEF CoreSource
<1>11. ASSUME NEW e \in CoreSource
       PROVE  /\ \E k : e.id = <<k, e.id[2]>> /\ k \in SourceIds
              /\ e.type \in {"init", "memory_instruction", "page_map"}
              /\ e.type = "init" => e \in I
  <2>1. e \in I \/ e \in N \/ e \in P
    BY <1>2, <1>6, <1>7 DEF CoreSource
  <2> QED
    BY <1>3, <1>4, <1>5, <2>1 DEF SourceIds
<1> QED
  BY <1>1, <1>2, <1>6, <1>8, <1>9, <1>10, <1>11 DEF I, L

\* The accesses of an order: one per operation, each at a cycle of its own.
LEMMA AccessParts ==
    ASSUME Skeleton(graph), stage \in Stages, NEW order \in SetToSeqs(Dynamic(graph)), NEW c, InputOf(order, c)
    PROVE  /\ \A a \in InputAccesses : \E i \in DOMAIN order :
                /\ a = AccessOf(order, i) /\ a.op = order[i] /\ a.cycle = Step(i) /\ a.cycle \in Nat
                /\ a.id = <<"access", a.op>> /\ a.op \in Dynamic(graph)
                /\ a.type = "access"
                /\ a.address = graph.ops[a.op].address /\ a.kind = graph.ops[a.op].kind /\ a.hart = graph.ops[a.op].hart
                /\ a.kind # "read" => a.write_value = graph.ops[a.op].value
           /\ \A o \in Dynamic(graph) : \E i \in DOMAIN order : order[i] = o /\ AccessOf(order, i) \in InputAccesses
           /\ \A a, b \in InputAccesses : a.op = b.op \/ a.cycle = b.cycle => a = b
           /\ DOMAIN order = 1 .. Cardinality(Dynamic(graph)) /\ Cardinality(Dynamic(graph)) \in Nat
           /\ \A i, j \in DOMAIN order : /\ order[i] \in Dynamic(graph) /\ Step(i) \in Nat
                                         /\ order[i] = order[j] => i = j
                                         /\ i < j => Step(i) < Step(j)
<1> DEFINE n == Cardinality(Dynamic(graph))
<1>1. /\ n \in Nat /\ order \in [1 .. n -> Dynamic(graph)]
      /\ \A i, j \in 1 .. n : order[i] = order[j] => i = j
      /\ \A o \in Dynamic(graph) : \E i \in 1 .. n : order[i] = o
  BY SkeletonParts, OrderingsOf
<1>2. stage.cycle_start \in Nat /\ stage.cycle_stride \in Nat \ {0}
  BY StagesAssumption
<1>3. DOMAIN order = 1 .. n
  BY <1>1
<1> HIDE DEF n
<1>4. \A i \in 1 .. n : i - 1 \in Nat /\ i \in Nat
  BY <1>1
<1>5. ASSUME NEW i \in 1 .. n PROVE Step(i) \in Nat
  <2>1. i - 1 \in Nat
    BY <1>4
  <2>2. \A k, s \in Nat : k * s \in Nat
    OBVIOUS
  <2>3. (i - 1) * stage.cycle_stride \in Nat
    BY <1>2, <2>1, <2>2
  <2> QED
    BY <1>2, <2>3 DEF Step
<1>6. ASSUME NEW i \in 1 .. n, NEW j \in 1 .. n, i < j PROVE Step(i) < Step(j)
  <2>1. \A k, s, d \in Nat : (k + d) * s = k * s + d * s /\ k * s \in Nat
    OBVIOUS
  <2>2. i - 1 \in Nat /\ j - i \in Nat /\ j - i # 0 /\ j - 1 = (i - 1) + (j - i)
    BY <1>4, <1>6
  <2> DEFINE s == stage.cycle_stride
             d == j - i
             k == i - 1
  <2>3. s \in Nat /\ s # 0 /\ d \in Nat /\ d # 0 /\ k \in Nat
    BY <1>2, <2>2
  <2>4. j - 1 = k + d
    BY <2>2
  <2> HIDE DEF s, d, k
  <2>5. (k + d) * s = k * s + d * s /\ k * s \in Nat /\ d * s \in Nat
    BY <2>1, <2>3
  <2>6. d * s # 0
    BY <2>3
  <2>7. Step(i) = stage.cycle_start + k * s /\ Step(j) = stage.cycle_start + (k + d) * s
    BY <2>4 DEF Step, k, s
  <2> QED
    BY <1>2, <2>5, <2>6, <2>7
<1>7. \A o \in Dynamic(graph) : o \notin DynamicReads(graph) <=> graph.ops[o].kind # "read"
  BY ProgrammedParts DEF Skeleton, Dynamic, DynamicReads
<1>8. ASSUME NEW a \in InputAccesses
      PROVE  \E i \in DOMAIN order :
                /\ a = AccessOf(order, i) /\ a.op = order[i] /\ a.cycle = Step(i) /\ a.cycle \in Nat
                /\ a.id = <<"access", a.op>> /\ a.op \in Dynamic(graph)
                /\ a.type = "access"
                /\ a.address = graph.ops[a.op].address /\ a.kind = graph.ops[a.op].kind /\ a.hart = graph.ops[a.op].hart
                /\ a.kind # "read" => a.write_value = graph.ops[a.op].value
  <2>1. PICK i \in DOMAIN order : a = AccessOf(order, i)
    BY InputParts
  <2>2. /\ a.op = order[i] /\ a.cycle = Step(i) /\ a.id = <<"access", order[i]>> /\ a.type = "access"
        /\ a.address = graph.ops[order[i]].address /\ a.kind = graph.ops[order[i]].kind
        /\ a.hart = graph.ops[order[i]].hart
        /\ order[i] \notin DynamicReads(graph) => a.write_value = graph.ops[order[i]].value
    BY <2>1 DEF AccessOf
  <2>3. order[i] \in Dynamic(graph)
    BY <1>1, <1>3
  <2> QED
    BY <1>3, <1>5, <1>7, <2>1, <2>2, <2>3
<1>9. \A o \in Dynamic(graph) : \E i \in DOMAIN order : order[i] = o /\ AccessOf(order, i) \in InputAccesses
  BY <1>1, <1>3, InputParts
<1>10. ASSUME NEW a \in InputAccesses, NEW b \in InputAccesses, a.op = b.op \/ a.cycle = b.cycle
       PROVE  a = b
  <2>1. PICK i \in DOMAIN order : a = AccessOf(order, i) /\ a.op = order[i] /\ a.cycle = Step(i)
    BY <1>8
  <2>2. PICK j \in DOMAIN order : b = AccessOf(order, j) /\ b.op = order[j] /\ b.cycle = Step(j)
    BY <1>8
  <2>3. i = j
    <3>1. i \in Nat /\ j \in Nat
      BY <1>3, <1>4
    <3>2. ~ (i < j) \/ Step(i) # Step(j)
      BY <1>3, <1>5, <1>6
    <3>3. ~ (j < i) \/ Step(i) # Step(j)
      BY <1>3, <1>5, <1>6
    <3> QED
      BY <1>1, <1>3, <1>10, <2>1, <2>2, <3>1, <3>2, <3>3
  <2> QED
    BY <2>1, <2>2, <2>3
<1> QED
  BY <1>1, <1>3, <1>5, <1>6, <1>8, <1>9, <1>10 DEF n

-----------------------------------------------------------------------------
(* The trace of the coherence child. *)

Shift == IF stage.kind = "boom" /\ coherence = "feasible" THEN RetimeOffset ELSE 0

ResultOf(a, source, value, path, cycle) ==
    [id |-> <<"result", a.op>>, type |-> IF a.kind = "read" THEN "load_result" ELSE "store_result",
     cycle |-> cycle, op |-> a.op, address |-> a.address, value |-> value, source |-> source, path |-> path]

AcquireOf(a, cycle) == [id |-> <<"acquire", a.op>>, type |-> "acquire", cycle |-> cycle, txn |-> a.op]
GrantOf(a, cycle) == [id |-> <<"grant", a.op>>, type |-> "grant", cycle |-> cycle, txn |-> a.op]
ProbeOf(a, h, cycle) ==
    [id |-> <<"probe", <<a.op, h>> >>, type |-> "probe", cycle |-> cycle, txn |-> a.op,
     requester |-> a.hart, target |-> h]

InjectedAccess(e) == \E a \in InputAccesses : \E c : e = [a EXCEPT !.cycle = c] /\ (Shift = 0 => e = a)

AnsweredResult(e, shift) ==
    \E a \in InputAccesses : \E source, value, path :
        /\ e = ResultOf(a, source, value, path, a.cycle + 1 + shift)
        /\ a.kind = "read" => value = StoredValue(graph.ops[source])
        /\ a.kind # "read" => source = a.op /\ value = a.write_value

OwnTraffic(e, shift, performed) ==
    \E a \in InputAccesses :
        /\ a.op \in performed
        /\ \/ e = AcquireOf(a, a.cycle + 1 + shift) \/ e = GrantOf(a, a.cycle + 1 + shift)
           \/ \E h : e = ProbeOf(a, h, a.cycle + 1 + shift)

Identified(events) == \A e, f \in events : e.id = f.id => e = f

ChildInv ==
    /\ \A e \in child : \/ e \in Lines(graph) \/ InjectedAccess(e)
                        \/ AnsweredResult(e, Shift) \/ OwnTraffic(e, Shift, Performed)
    /\ Identified(child)
    /\ Lines(graph) \subseteq child

\* What each shape is.
LEMMA ChildShapes ==
    ASSUME Skeleton(graph), stage \in Stages, NEW order \in SetToSeqs(Dynamic(graph)), NEW c, InputOf(order, c),
           NEW e, NEW shift, NEW performed
    PROVE  /\ e \in Lines(graph) => /\ e.type = "line_init" /\ e.cycle = 0
                                    /\ e.op \in Ids(graph.ops) \ Dynamic(graph)
                                    /\ e.value = graph.ops[e.op].value /\ e.id = <<"line", e.op>>
           /\ InjectedAccess(e) => e.type = "access" /\ e.id = <<"access", e.op>> /\ e.op \in Dynamic(graph)
           /\ AnsweredResult(e, shift) =>
                /\ e.type \in {"load_result", "store_result"} /\ e.id = <<"result", e.op>>
                /\ e.op \in Dynamic(graph)
                /\ e.type = "load_result" <=> graph.ops[e.op].kind = "read"
                /\ e.address = graph.ops[e.op].address
                /\ e.type = "store_result" => e.source = e.op /\ e.value = graph.ops[e.op].value
                /\ e.type = "load_result" => e.value = StoredValue(graph.ops[e.source])
                /\ \E a \in InputAccesses : a.op = e.op /\ e.cycle = a.cycle + 1 + shift
           /\ OwnTraffic(e, shift, performed) =>
                /\ e.type \in Traffic
                /\ \E o \in performed : \/ e.id = <<"acquire", o>> \/ e.id = <<"grant", o>>
                                        \/ \E h : e.id = <<"probe", <<o, h>> >>
<1>1. e \in Lines(graph) => /\ e.type = "line_init" /\ e.cycle = 0
                            /\ e.op \in Ids(graph.ops) \ Dynamic(graph)
                            /\ e.value = graph.ops[e.op].value /\ e.id = <<"line", e.op>>
  BY DEF Lines
<1>2. InjectedAccess(e) => e.type = "access" /\ e.id = <<"access", e.op>> /\ e.op \in Dynamic(graph)
  <2> SUFFICES ASSUME NEW a \in InputAccesses, NEW d, e = [a EXCEPT !.cycle = d]
               PROVE  e.type = "access" /\ e.id = <<"access", e.op>> /\ e.op \in Dynamic(graph)
    BY DEF InjectedAccess
  <2>1. PICK i \in DOMAIN order : a = AccessOf(order, i) /\ a.id = <<"access", a.op>> /\ a.op \in Dynamic(graph)
                                  /\ a.type = "access"
    BY AccessParts
  <2>2. e.type = a.type /\ e.id = a.id /\ e.op = a.op
    BY <2>1 DEF AccessOf
  <2> QED
    BY <2>1, <2>2
<1>3. AnsweredResult(e, shift) =>
                /\ e.type \in {"load_result", "store_result"} /\ e.id = <<"result", e.op>>
                /\ e.op \in Dynamic(graph)
                /\ e.type = "load_result" <=> graph.ops[e.op].kind = "read"
                /\ e.address = graph.ops[e.op].address
                /\ e.type = "store_result" => e.source = e.op /\ e.value = graph.ops[e.op].value
                /\ e.type = "load_result" => e.value = StoredValue(graph.ops[e.source])
                /\ \E a \in InputAccesses : a.op = e.op /\ e.cycle = a.cycle + 1 + shift
  <2> SUFFICES ASSUME NEW a \in InputAccesses, NEW source, NEW value, NEW path,
                      e = ResultOf(a, source, value, path, a.cycle + 1 + shift),
                      a.kind = "read" => value = StoredValue(graph.ops[source]),
                      a.kind # "read" => source = a.op /\ value = a.write_value
               PROVE  /\ e.type \in {"load_result", "store_result"} /\ e.id = <<"result", e.op>>
                      /\ e.op \in Dynamic(graph)
                      /\ e.type = "load_result" <=> graph.ops[e.op].kind = "read"
                      /\ e.address = graph.ops[e.op].address
                      /\ e.type = "store_result" => e.source = e.op /\ e.value = graph.ops[e.op].value
                      /\ e.type = "load_result" => e.value = StoredValue(graph.ops[e.source])
                      /\ e.op = a.op /\ e.cycle = a.cycle + 1 + shift
    BY DEF AnsweredResult
  <2>1. /\ a.op \in Dynamic(graph) /\ a.address = graph.ops[a.op].address /\ a.kind = graph.ops[a.op].kind
        /\ a.kind # "read" => a.write_value = graph.ops[a.op].value
    BY AccessParts
  <2>2. /\ e.type = (IF a.kind = "read" THEN "load_result" ELSE "store_result") /\ e.id = <<"result", a.op>>
        /\ e.op = a.op /\ e.address = a.address /\ e.value = value /\ e.source = source /\ e.cycle = a.cycle + 1 + shift
    BY DEF ResultOf
  <2> QED
    BY <2>1, <2>2
<1>4. OwnTraffic(e, shift, performed) =>
                /\ e.type \in Traffic
                /\ \E o \in performed : \/ e.id = <<"acquire", o>> \/ e.id = <<"grant", o>>
                                        \/ \E h : e.id = <<"probe", <<o, h>> >>
  <2> SUFFICES ASSUME NEW a \in InputAccesses, a.op \in performed,
                      \/ e = AcquireOf(a, a.cycle + 1 + shift) \/ e = GrantOf(a, a.cycle + 1 + shift)
                      \/ \E h : e = ProbeOf(a, h, a.cycle + 1 + shift)
               PROVE  /\ e.type \in Traffic
                      /\ \/ e.id = <<"acquire", a.op>> \/ e.id = <<"grant", a.op>>
                         \/ \E h : e.id = <<"probe", <<a.op, h>> >>
    BY DEF OwnTraffic
  <2> QED
    BY DEF AcquireOf, GrantOf, ProbeOf, Traffic
<1> QED
  BY <1>1, <1>2, <1>3, <1>4

Scheduled == \E order \in SetToSeqs(Dynamic(graph)) : \E c : InputOf(order, c)

Attempted == Skeleton(graph) /\ stage \in Stages /\ Scheduled

\* The trace of the coherence child: its shapes, and who owns an identifier.
LEMMA ChildEvents ==
    ASSUME Attempted, ChildInv, NEW e \in child
    PROVE  /\ e.type = "access" => InjectedAccess(e)
           /\ e.type \in {"load_result", "store_result"} => AnsweredResult(e, Shift)
           /\ e.type = "line_init" => e \in Lines(graph)
           /\ e.type \in Traffic => OwnTraffic(e, Shift, Performed)
           /\ \/ e.id = <<"line", e.op>> \/ e.id = <<"access", e.op>>
              \/ \E o \in Performed : \/ e.id = <<"result", o>> \/ e.id = <<"acquire", o>> \/ e.id = <<"grant", o>>
                                      \/ \E h : e.id = <<"probe", <<o, h>> >>
<1>1. PICK order, c : order \in SetToSeqs(Dynamic(graph)) /\ InputOf(order, c)
  BY DEF Attempted, Scheduled
<1>2. Skeleton(graph) /\ stage \in Stages
  BY DEF Attempted
<1>3. e \in Lines(graph) \/ InjectedAccess(e) \/ AnsweredResult(e, Shift) \/ OwnTraffic(e, Shift, Performed)
  BY DEF ChildInv
<1>4. CASE e \in Lines(graph)
  <2>1. e.type = "line_init" /\ e.id = <<"line", e.op>>
    BY <1>1, <1>2, <1>4, ChildShapes
  <2> QED
    BY <1>4, <2>1 DEF Traffic
<1>5. CASE InjectedAccess(e)
  <2>1. e.type = "access" /\ e.id = <<"access", e.op>>
    BY <1>1, <1>2, <1>5, ChildShapes
  <2> QED
    BY <1>5, <2>1 DEF Traffic
<1>6. CASE AnsweredResult(e, Shift)
  <2>1. e.type \in {"load_result", "store_result"} /\ e.id = <<"result", e.op>>
    BY <1>1, <1>2, <1>6, ChildShapes
  <2>2. e.op \in Performed
    BY <2>1 DEF Performed, Results
  <2> QED
    BY <1>6, <2>1, <2>2 DEF Traffic
<1>7. CASE OwnTraffic(e, Shift, Performed)
  <2>1. /\ e.type \in Traffic
        /\ \E o \in Performed : \/ e.id = <<"acquire", o>> \/ e.id = <<"grant", o>>
                                \/ \E h : e.id = <<"probe", <<o, h>> >>
    BY <1>1, <1>2, <1>7, ChildShapes
  <2> QED
    BY <1>7, <2>1 DEF Traffic
<1> QED
  BY <1>3, <1>4, <1>5, <1>6, <1>7

LEMMA PerformKeepsChild ==
    ASSUME Attempted, ChildInv, coherence = "none", Perform
    PROVE  ChildInv'
<1>1. /\ graph' = graph /\ stage' = stage /\ input' = input /\ coherence' = coherence
      /\ Shift = 0 /\ Shift' = 0 /\ InputAccesses' = InputAccesses
  BY DEF Perform, skeletonVars, Shift, InputAccesses
<1>2. PICK a \in {e \in child : e.type = "access"} : \E spurious \in SUBSET {Acquire(a), Probe(a, a.hart)} :
        /\ a.op \notin Performed
        /\ child' = child \cup {Result(a)} \cup spurious
                    \cup (IF Hit(a) THEN {} ELSE {Acquire(a), Grant(a)} \cup {Probe(a, h) : h \in Probed(a)})
  BY DEF Perform
<1>3. a \in InputAccesses /\ a.op \notin Performed
  <2>1. InjectedAccess(a)
    BY <1>2, ChildEvents
  <2> QED
    BY <1>1, <1>2, <2>1 DEF InjectedAccess
<1>4. child \subseteq child' /\ Result(a) \in child'
  BY <1>2
<1>5. \A e \in child' : \/ e \in child \/ e = Result(a) \/ e = Acquire(a) \/ e = Grant(a)
                        \/ \E h : e = Probe(a, h)
  BY <1>2
<1>6. a.cycle \in Nat
  BY <1>3, AccessParts DEF Attempted, Scheduled
<1>7. /\ Acquire(a) = AcquireOf(a, a.cycle + 1 + 0) /\ Grant(a) = GrantOf(a, a.cycle + 1 + 0)
      /\ \A h : Probe(a, h) = ProbeOf(a, h, a.cycle + 1 + 0)
  BY <1>6 DEF Acquire, Grant, Probe, AcquireOf, GrantOf, ProbeOf
<1>8. AnsweredResult(Result(a), 0)
  <2> DEFINE reads == a.kind = "read"
             source == IF reads THEN cache.writer[a.address] ELSE a.op
             value == IF reads THEN StoredValue(graph.ops[source]) ELSE a.write_value
             path == IF Hit(a) THEN "hit" ELSE "refill"
  <2>1. Result(a) = ResultOf(a, source, value, path, a.cycle + 1 + 0)
    BY <1>6 DEF Result, ResultOf
  <2>2. /\ a.kind = "read" => value = StoredValue(graph.ops[source])
        /\ a.kind # "read" => source = a.op /\ value = a.write_value
    OBVIOUS
  <2> HIDE DEF source, value, path
  <2> QED
    BY <1>3, <2>1, <2>2 DEF AnsweredResult
<1>9. Result(a).id = <<"result", a.op>> /\ Result(a).op = a.op /\ Result(a).type \in {"load_result", "store_result"}
  BY DEF Result
<1>10. a.op \in Performed' /\ Performed \subseteq Performed'
  BY <1>4, <1>9 DEF Performed, Results
<1>11. ASSUME NEW e \in child'
       PROVE  e \in Lines(graph) \/ InjectedAccess(e) \/ AnsweredResult(e, 0) \/ OwnTraffic(e, 0, Performed')
  <2>1. CASE e \in child
    <3>1. e \in Lines(graph) \/ InjectedAccess(e) \/ AnsweredResult(e, 0) \/ OwnTraffic(e, 0, Performed)
      BY <1>1, <2>1 DEF ChildInv
    <3>2. OwnTraffic(e, 0, Performed) => OwnTraffic(e, 0, Performed')
      BY <1>10 DEF OwnTraffic
    <3> QED
      BY <3>1, <3>2
  <2>2. CASE e = Result(a)
    BY <1>8, <2>2
  <2>3. CASE e = Acquire(a) \/ e = Grant(a) \/ \E h : e = Probe(a, h)
    <3>1. \/ e = AcquireOf(a, a.cycle + 1 + 0) \/ e = GrantOf(a, a.cycle + 1 + 0)
          \/ \E h : e = ProbeOf(a, h, a.cycle + 1 + 0)
      BY <1>7, <2>3
    <3>2. OwnTraffic(e, 0, Performed')
      BY <1>3, <1>10, <3>1 DEF OwnTraffic
    <3> QED
      BY <3>2
  <2> QED
    BY <1>5, <2>1, <2>2, <2>3
<1>12. ASSUME NEW e \in child', NEW f \in child', e.id = f.id PROVE e = f
  <2> DEFINE New(x) == x = Result(a) \/ x = Acquire(a) \/ x = Grant(a) \/ \E h : x = Probe(a, h)
             Mine(id) == id = <<"result", a.op>> \/ id = <<"acquire", a.op>> \/ id = <<"grant", a.op>>
                         \/ \E h : id = <<"probe", <<a.op, h>> >>
  <2>1. \A x : New(x) => Mine(x.id)
    BY DEF Result, Acquire, Grant, Probe
  <2>2. \A x, y : New(x) /\ New(y) /\ x.id = y.id => x = y
    <3> SUFFICES ASSUME NEW x, NEW y, New(x), New(y), x.id = y.id PROVE x = y
      BY Zenon
    <3>1. CASE x = Result(a)
      BY <3>1 DEF Result, Acquire, Grant, Probe
    <3>2. CASE x = Acquire(a)
      BY <3>2 DEF Result, Acquire, Grant, Probe
    <3>3. CASE x = Grant(a)
      BY <3>3 DEF Result, Acquire, Grant, Probe
    <3>4. CASE \E h : x = Probe(a, h)
      BY <3>4 DEF Result, Acquire, Grant, Probe
    <3> QED
      BY <3>1, <3>2, <3>3, <3>4
  <2>3. \A x \in child : ~ Mine(x.id)
    <3> SUFFICES ASSUME NEW x \in child, Mine(x.id) PROVE FALSE
      OBVIOUS
    <3>1. \/ x.id = <<"line", x.op>> \/ x.id = <<"access", x.op>>
          \/ \E o \in Performed : \/ x.id = <<"result", o>> \/ x.id = <<"acquire", o>> \/ x.id = <<"grant", o>>
                                  \/ \E h : x.id = <<"probe", <<o, h>> >>
      BY ChildEvents
    <3> QED
      BY <1>3, <3>1
  <2>4. \A x, y \in child : x.id = y.id => x = y
    BY DEF ChildInv, Identified
  <2>5. (e \in child \/ New(e)) /\ (f \in child \/ New(f))
    BY <1>5
  <2> HIDE DEF New, Mine
  <2> QED
    BY <1>12, <2>1, <2>2, <2>3, <2>4, <2>5
<1>13. ASSUME NEW e, InjectedAccess(e) PROVE InjectedAccess(e)'
  BY <1>1, <1>13 DEF InjectedAccess
<1>14. /\ \A e : AnsweredResult(e, 0) => AnsweredResult(e, Shift)'
       /\ \A e : OwnTraffic(e, 0, Performed') => OwnTraffic(e, Shift, Performed)'
       /\ Lines(graph)' = Lines(graph)
  BY <1>1 DEF AnsweredResult, OwnTraffic
<1> QED
  BY <1>1, <1>4, <1>11, <1>12, <1>13, <1>14 DEF ChildInv, Identified

Retimed(e) == [e EXCEPT !.cycle = IF e.cycle > 0 THEN e.cycle + RetimeOffset ELSE e.cycle]

LEMMA RetimedShapes ==
    ASSUME Attempted, ChildInv, Shift = 0, NEW e \in child
    PROVE  /\ Retimed(e).id = e.id /\ Retimed(e).type = e.type
           /\ e \in Lines(graph) => Retimed(e) = e
           /\ InjectedAccess(e) => \E a \in InputAccesses : \E c : Retimed(e) = [a EXCEPT !.cycle = c]
           /\ AnsweredResult(e, 0) => AnsweredResult(Retimed(e), RetimeOffset) /\ Retimed(e).op = e.op
           /\ OwnTraffic(e, 0, Performed) => OwnTraffic(Retimed(e), RetimeOffset, Performed)
<1>1. \A a \in InputAccesses : a.cycle \in Nat /\ a.op \in Dynamic(graph)
  BY AccessParts DEF Attempted, Scheduled
<1>2. RetimeOffset = 20
  BY DEF RetimeOffset
<1>3. e \in Lines(graph) => Retimed(e) = e /\ Retimed(e).id = e.id /\ Retimed(e).type = e.type
  <2> SUFFICES ASSUME e \in Lines(graph) PROVE Retimed(e) = e
    OBVIOUS
  <2>1. PICK w \in Ids(graph.ops) : e = [id |-> <<"line", w>>, type |-> "line_init", cycle |-> 0, op |-> w,
                                       address |-> graph.ops[w].address, value |-> graph.ops[w].value]
    BY DEF Lines
  <2>2. e.cycle = 0
    BY <2>1
  <2>3. Retimed(e) = [e EXCEPT !.cycle = 0]
    BY <2>2 DEF Retimed
  <2> QED
    BY <2>1, <2>3
<1>4. InjectedAccess(e) => /\ Retimed(e).id = e.id /\ Retimed(e).type = e.type
                           /\ \E a \in InputAccesses : \E c : Retimed(e) = [a EXCEPT !.cycle = c]
  <2> SUFFICES ASSUME InjectedAccess(e)
               PROVE  /\ Retimed(e).id = e.id /\ Retimed(e).type = e.type
                      /\ \E a \in InputAccesses : \E c : Retimed(e) = [a EXCEPT !.cycle = c]
    OBVIOUS
  <2>1. e \in InputAccesses
    BY DEF InjectedAccess
  <2>2. \E c : Retimed(e) = [e EXCEPT !.cycle = c]
    BY DEF Retimed
  <2>3. PICK order, i : e = AccessOf(order, i)
    BY <2>1, AccessParts DEF Attempted, Scheduled
  <2>4. Retimed(e).id = e.id /\ Retimed(e).type = e.type
    BY <2>2, <2>3 DEF AccessOf
  <2> QED
    BY <2>1, <2>2, <2>4
<1>5. AnsweredResult(e, 0) => /\ AnsweredResult(Retimed(e), RetimeOffset) /\ Retimed(e).op = e.op
                              /\ Retimed(e).id = e.id /\ Retimed(e).type = e.type
  <2> SUFFICES ASSUME NEW a \in InputAccesses, NEW source, NEW value, NEW path,
                      e = ResultOf(a, source, value, path, a.cycle + 1 + 0),
                      a.kind = "read" => value = StoredValue(graph.ops[source]),
                      a.kind # "read" => source = a.op /\ value = a.write_value
               PROVE  /\ AnsweredResult(Retimed(e), RetimeOffset) /\ Retimed(e).op = e.op
                      /\ Retimed(e).id = e.id /\ Retimed(e).type = e.type
    BY DEF AnsweredResult
  <2>1. e.cycle = a.cycle + 1 /\ e.cycle > 0 /\ e.cycle + RetimeOffset = a.cycle + 1 + RetimeOffset
    BY <1>1, <1>2 DEF ResultOf
  <2>2. Retimed(e) = [e EXCEPT !.cycle = a.cycle + 1 + RetimeOffset]
    BY <2>1 DEF Retimed
  <2>3. Retimed(e) = ResultOf(a, source, value, path, a.cycle + 1 + RetimeOffset)
    BY <2>2 DEF ResultOf
  <2>4. Retimed(e).op = e.op /\ Retimed(e).id = e.id /\ Retimed(e).type = e.type
    BY <2>3 DEF ResultOf
  <2> QED
    BY <2>3, <2>4 DEF AnsweredResult
<1>6. OwnTraffic(e, 0, Performed) => /\ OwnTraffic(Retimed(e), RetimeOffset, Performed)
                                     /\ Retimed(e).id = e.id /\ Retimed(e).type = e.type
  <2> SUFFICES ASSUME NEW a \in InputAccesses, a.op \in Performed,
                      \/ e = AcquireOf(a, a.cycle + 1 + 0) \/ e = GrantOf(a, a.cycle + 1 + 0)
                      \/ \E h : e = ProbeOf(a, h, a.cycle + 1 + 0)
               PROVE  /\ OwnTraffic(Retimed(e), RetimeOffset, Performed)
                      /\ Retimed(e).id = e.id /\ Retimed(e).type = e.type
    BY DEF OwnTraffic
  <2> DEFINE at == a.cycle + 1 + RetimeOffset
  <2>1. e.cycle = a.cycle + 1 /\ e.cycle > 0 /\ e.cycle + RetimeOffset = at
    BY <1>1, <1>2 DEF AcquireOf, GrantOf, ProbeOf
  <2>2. Retimed(e) = [e EXCEPT !.cycle = at]
    BY <2>1 DEF Retimed
  <2> HIDE DEF at
  <2>3. CASE e = AcquireOf(a, a.cycle + 1 + 0)
    <3>1. Retimed(e) = AcquireOf(a, at)
      BY <2>2, <2>3 DEF AcquireOf
    <3>2. Retimed(e).id = e.id /\ Retimed(e).type = e.type
      BY <2>3, <3>1 DEF AcquireOf
    <3> QED
      BY <3>1, <3>2 DEF OwnTraffic, at
  <2>4. CASE e = GrantOf(a, a.cycle + 1 + 0)
    <3>1. Retimed(e) = GrantOf(a, at)
      BY <2>2, <2>4 DEF GrantOf
    <3>2. Retimed(e).id = e.id /\ Retimed(e).type = e.type
      BY <2>4, <3>1 DEF GrantOf
    <3> QED
      BY <3>1, <3>2 DEF OwnTraffic, at
  <2>5. CASE \E h : e = ProbeOf(a, h, a.cycle + 1 + 0)
    <3>1. PICK h : e = ProbeOf(a, h, a.cycle + 1 + 0)
      BY <2>5
    <3>2. Retimed(e) = ProbeOf(a, h, at)
      BY <2>2, <3>1 DEF ProbeOf
    <3>3. Retimed(e).id = e.id /\ Retimed(e).type = e.type
      BY <3>1, <3>2 DEF ProbeOf
    <3> QED
      BY <3>2, <3>3 DEF OwnTraffic, at
  <2> QED
    BY <2>3, <2>4, <2>5
<1>7. e \in Lines(graph) \/ InjectedAccess(e) \/ AnsweredResult(e, 0) \/ OwnTraffic(e, 0, Performed)
  BY DEF ChildInv
<1> QED
  BY <1>3, <1>4, <1>5, <1>6, <1>7

LEMMA AnswerKeepsChild ==
    ASSUME Attempted, ChildInv, coherence = "none", AnswerCoherence
    PROVE  ChildInv'
<1>1. graph' = graph /\ stage' = stage /\ input' = input /\ InputAccesses' = InputAccesses /\ Shift = 0
  BY DEF AnswerCoherence, skeletonVars, Shift, InputAccesses
<1>2. Lines(graph)' = Lines(graph)
  BY <1>1
<1>3. CASE stage.kind = "boom" /\ coherence' = "feasible"
  <2>1. child' = {Retimed(e) : e \in child}
    BY <1>3 DEF AnswerCoherence, Retime, Retimed
  <2>2. Shift' = RetimeOffset /\ RetimeOffset = 20
    BY <1>1, <1>3 DEF Shift, RetimeOffset
  <2>3. Performed \subseteq Performed'
    <3> SUFFICES ASSUME NEW e \in child, e.type \in {"load_result", "store_result"}
                 PROVE  \E f \in child' : f.type \in {"load_result", "store_result"} /\ f.op = e.op
      BY DEF Performed, Results
    <3>1. AnsweredResult(e, 0)
      BY <1>1, ChildEvents
    <3>2. Retimed(e).op = e.op /\ Retimed(e).type = e.type
      BY <1>1, <3>1, RetimedShapes
    <3> QED
      BY <2>1, <3>2
  <2>4. ASSUME NEW f \in child'
        PROVE  \/ f \in Lines(graph) \/ (\E a \in InputAccesses : \E c : f = [a EXCEPT !.cycle = c])
               \/ AnsweredResult(f, RetimeOffset) \/ OwnTraffic(f, RetimeOffset, Performed')
    <3>1. PICK e \in child : f = Retimed(e)
      BY <2>1
    <3>2. e \in Lines(graph) \/ InjectedAccess(e) \/ AnsweredResult(e, 0) \/ OwnTraffic(e, 0, Performed)
      BY <1>1 DEF ChildInv
    <3>3. OwnTraffic(f, RetimeOffset, Performed) => OwnTraffic(f, RetimeOffset, Performed')
      BY <2>3 DEF OwnTraffic
    <3> QED
      BY <1>1, <3>1, <3>2, <3>3, RetimedShapes
  <2>5. ASSUME NEW e \in child', NEW f \in child', e.id = f.id PROVE e = f
    <3>1. PICK x \in child, y \in child : e = Retimed(x) /\ f = Retimed(y)
      BY <2>1
    <3>2. x.id = e.id /\ y.id = f.id
      BY <1>1, <3>1, RetimedShapes
    <3> QED
      BY <2>5, <3>1, <3>2 DEF ChildInv, Identified
  <2>6. Lines(graph) \subseteq child'
    <3> SUFFICES ASSUME NEW e \in Lines(graph) PROVE e \in child'
      OBVIOUS
    <3>1. e \in child
      BY DEF ChildInv
    <3>2. Retimed(e) = e
      BY <1>1, <3>1, RetimedShapes
    <3> QED
      BY <2>1, <3>1, <3>2
  <2>7. /\ \A f : (\E a \in InputAccesses : \E c : f = [a EXCEPT !.cycle = c]) => InjectedAccess(f)'
        /\ \A f : AnsweredResult(f, RetimeOffset) => AnsweredResult(f, Shift)'
        /\ \A f : OwnTraffic(f, RetimeOffset, Performed') => OwnTraffic(f, Shift, Performed)'
    BY <1>1, <2>2 DEF InjectedAccess, AnsweredResult, OwnTraffic
  <2> QED
    BY <1>2, <2>4, <2>5, <2>6, <2>7 DEF ChildInv, Identified
<1>4. CASE ~ (stage.kind = "boom" /\ coherence' = "feasible")
  <2>1. child' = child /\ Shift' = 0 /\ Performed' = Performed
    BY <1>1, <1>4 DEF AnswerCoherence, Shift, Performed, Results
  <2>2. /\ \A f : InjectedAccess(f) => InjectedAccess(f)'
        /\ \A f : AnsweredResult(f, Shift) => AnsweredResult(f, Shift)'
        /\ \A f : OwnTraffic(f, Shift, Performed) => OwnTraffic(f, Shift, Performed)'
    BY <1>1, <2>1 DEF InjectedAccess, AnsweredResult, OwnTraffic
  <2> QED
    BY <1>2, <2>1, <2>2 DEF ChildInv, Identified
<1> QED
  BY <1>3, <1>4

-----------------------------------------------------------------------------
(* The execution the memory performed. *)

LEMMA RecordsAreExecutions ==
    ASSUME NEW o, NEW rf, Functional(o, rf), ValidRf(o, [rf |-> rf]),
           NEW co, \A e \in co : e \in Writes(o) \X Writes(o) /\ e[1] # e[2] /\ o[e[1]].address = o[e[2]].address,
           ValidCo(o, [co |-> co])
    PROVE  [rf |-> rf, co |-> co] \in ExecutionsOf(o)
<1> DEFINE colocated == {e \in Writes(o) \X Writes(o) : e[1] # e[2] /\ o[e[1]].address = o[e[2]].address}
           functional == {{<<h[r], r>> : r \in Reads(o)} : h \in [Reads(o) -> Writes(o)]}
           RF == {r \in functional : ValidRf(o, [rf |-> r])}
           CO == {c \in SUBSET colocated : ValidCo(o, [co |-> c])}
<1>1. rf \in functional
  BY DEF Functional
<1>2. co \in SUBSET colocated
  OBVIOUS
<1>3. rf \in RF /\ co \in CO
  <2> HIDE DEF functional, colocated
  <2> QED
    BY <1>1, <1>2
<1>4. ExecutionsOf(o) = {[rf |-> r, co |-> c] : r \in RF, c \in CO}
  BY DEF ExecutionsOf
<1> DEFINE x == [rf |-> rf, co |-> co]
<1>5. \E r \in RF, c \in CO : x = [rf |-> r, co |-> c]
  BY <1>3, Zenon
<1> HIDE DEF RF, CO, x
<1>6. x \in ExecutionsOf(o)
  BY <1>4, <1>5
<1> QED
  BY <1>6 DEF x

ResultAt(o) == CHOOSE e \in Results(child) : e.op = o

\* Initial writes come before everything, stores as their results do.
Rank(o) == IF o \in Dynamic(graph) THEN ResultAt(o).cycle ELSE 0

LEMMA ResultsAreOne ==
    ASSUME Attempted, ChildInv, Performed = Dynamic(graph)
    PROVE  /\ \A e \in Results(child) : /\ e.op \in Dynamic(graph) /\ e = ResultAt(e.op)
                                        /\ AnsweredResult(e, Shift)
                                        /\ e.type = "load_result" <=> graph.ops[e.op].kind = "read"
                                        /\ e.type \in {"load_result", "store_result"}
                                        /\ e.address = graph.ops[e.op].address
           /\ \A o \in Dynamic(graph) : ResultAt(o) \in Results(child) /\ ResultAt(o).op = o
           /\ \A o \in Dynamic(graph) : Rank(o) \in Nat /\ Rank(o) > 0
           /\ \A o, p \in Dynamic(graph) : Rank(o) = Rank(p) => o = p
<1>1. PICK order, c : order \in SetToSeqs(Dynamic(graph)) /\ InputOf(order, c)
  BY DEF Attempted, Scheduled
<1>2. Skeleton(graph) /\ stage \in Stages
  BY DEF Attempted
<1>3. ASSUME NEW e \in Results(child)
      PROVE  /\ AnsweredResult(e, Shift) /\ e \in child /\ e.id = <<"result", e.op>> /\ e.op \in Dynamic(graph)
             /\ e.type = "load_result" <=> graph.ops[e.op].kind = "read"
             /\ e.address = graph.ops[e.op].address
             /\ e.type \in {"load_result", "store_result"}
             /\ \E a \in InputAccesses : a.op = e.op /\ e.cycle = a.cycle + 1 + Shift
  <2>1. AnsweredResult(e, Shift) /\ e \in child
    BY <1>3, ChildEvents DEF Results
  <2> QED
    BY <1>1, <1>2, <2>1, ChildShapes
<1>4. \A e, f \in Results(child) : e.op = f.op => e = f
  BY <1>3 DEF ChildInv, Identified
<1>5. \A o \in Dynamic(graph) : ResultAt(o) \in Results(child) /\ ResultAt(o).op = o
  BY DEF ResultAt, Performed
<1>6. \A e \in Results(child) : e = ResultAt(e.op)
  BY <1>3, <1>4, <1>5
<1>7. Shift \in Nat
  BY DEF Shift, RetimeOffset
<1>8. ASSUME NEW o \in Dynamic(graph)
      PROVE  \E a \in InputAccesses : a.op = o /\ Rank(o) = a.cycle + 1 + Shift /\ a.cycle \in Nat
  <2>1. PICK a \in InputAccesses : a.op = o /\ ResultAt(o).cycle = a.cycle + 1 + Shift
    BY <1>3, <1>5
  <2>2. a.cycle \in Nat
    BY <1>1, <1>2, AccessParts
  <2> QED
    BY <2>1, <2>2 DEF Rank
<1>9. ASSUME NEW o \in Dynamic(graph), NEW p \in Dynamic(graph), Rank(o) = Rank(p) PROVE o = p
  <2>1. PICK a \in InputAccesses : a.op = o /\ Rank(o) = a.cycle + 1 + Shift /\ a.cycle \in Nat
    BY <1>8
  <2>2. PICK b \in InputAccesses : b.op = p /\ Rank(p) = b.cycle + 1 + Shift /\ b.cycle \in Nat
    BY <1>8
  <2>5. \A x, y, s \in Nat : x + 1 + s = y + 1 + s => x = y
    OBVIOUS
  <2>6. a.cycle + 1 + Shift = b.cycle + 1 + Shift
    BY <1>9, <2>1, <2>2, Zenon
  <2>3. a.cycle = b.cycle
    BY <1>7, <2>1, <2>2, <2>5, <2>6, Zenon
  <2>4. a = b
    BY <1>1, <1>2, <2>3, AccessParts
  <2> QED
    BY <2>1, <2>2, <2>4
<1>10. \A o \in Dynamic(graph) : Rank(o) \in Nat /\ Rank(o) > 0
  BY <1>7, <1>8
<1> QED
  BY <1>3, <1>5, <1>6, <1>9, <1>10

LEMMA ExecutionIsOne ==
    ASSUME Attempted, ChildInv, Performed = Dynamic(graph), CoherenceObligations(graph, child)
    PROVE  Execution \in ExecutionsOf(graph.ops)
<1> DEFINE o == graph.ops
           W == Writes(o)
           stores == {e \in Results(child) : e.type = "store_result"}
           initial == Ids(o) \ Dynamic(graph)
           RF == {<<e.source, e.op>> : e \in {r \in Results(child) : r.type = "load_result"}}
           C1 == {<<p[1].op, p[2].op>> : p \in {q \in stores \X stores :
                        q[1].address = q[2].address /\ q[1].cycle < q[2].cycle}}
           C2 == {<<p[1], p[2].op>> : p \in {q \in initial \X stores : o[q[1]].address = q[2].address}}
           C == C1 \cup C2
<1>1. Execution = [rf |-> RF, co |-> C]
  BY DEF Execution
<1>2. Skeleton(graph)
  BY DEF Attempted
<1>3. \A i \in Ids(o) : (i \in Dynamic(graph) <=> o[i].kind # "init_write")
                        /\ (i \in Reads(o) <=> o[i].kind = "read") /\ (i \in W <=> o[i].kind # "read")
  BY <1>2, ProgrammedParts DEF Skeleton, Dynamic
<1>4. Reads(o) \subseteq Ids(o) /\ W \subseteq Ids(o) /\ Dynamic(graph) \subseteq Ids(o)
  BY DEF Reads, Writes, Dynamic
<1>5. \A i \in Dynamic(graph) : i \in DynamicReads(graph) <=> i \in Reads(o)
  BY DEF DynamicReads
<1>6. ASSUME NEW i \in Dynamic(graph)
      PROVE  /\ ResultAt(i) \in Results(child) /\ ResultAt(i).op = i
             /\ i \in Reads(o) => ResultAt(i).type = "load_result" /\ <<ResultAt(i).source, i>> \in graph.rf
  <2>1. PICK e \in Results(child) : /\ e.op = i
                                    /\ i \in DynamicReads(graph) => e.type = "load_result" /\ <<e.source, i>> \in graph.rf
    BY DEF CoherenceObligations
  <2>2. e = ResultAt(i)
    BY <2>1, ResultsAreOne
  <2> QED
    BY <1>5, <2>1, <2>2
<1>7. RF = graph.rf
  <2>1. ASSUME NEW e \in Results(child), e.type = "load_result"
        PROVE  <<e.source, e.op>> \in graph.rf
    <3>1. e.op \in Dynamic(graph) /\ e = ResultAt(e.op) /\ o[e.op].kind = "read"
      BY <2>1, ResultsAreOne
    <3>2. e.op \in Reads(o)
      BY <1>3, <1>4, <3>1
    <3> QED
      BY <1>6, <3>1, <3>2
  <2>2. ASSUME NEW x \in graph.rf PROVE x \in RF
    <3>1. PICK w \in W, r \in Reads(o) : x = <<w, r>>
      BY <1>2, SkeletonParts
    <3>2. r \in Dynamic(graph)
      BY <1>3, <1>4
    <3>3. <<ResultAt(r).source, r>> \in graph.rf /\ ResultAt(r) \in Results(child) /\ ResultAt(r).op = r
          /\ ResultAt(r).type = "load_result"
      BY <1>6, <3>2
    <3>4. PICK v \in W : \A u \in W : <<u, r>> \in graph.rf => u = v
      <4>1. \E w2 \in W : <<w2, r>> \in graph.rf /\ \A u \in W : <<u, r>> \in graph.rf => u = w2
        BY <1>2, SkeletonParts
      <4> QED
        BY <4>1
    <3>5. ResultAt(r).source \in W
      <4>1. <<ResultAt(r).source, r>> \in W \X Reads(o)
        BY <1>2, <3>3, SkeletonParts
      <4> QED
        BY <4>1
    <3>6. x = <<ResultAt(r).source, ResultAt(r).op>>
      BY <3>1, <3>3, <3>4, <3>5
    <3> QED
      BY <3>3, <3>6
  <2> QED
    BY <2>1, <2>2
<1>8. \A e \in stores : e \in Results(child) /\ e.op \in W /\ e.op \in Dynamic(graph) /\ e.address = o[e.op].address
                        /\ Rank(e.op) = e.cycle
  <2> SUFFICES ASSUME NEW e \in stores
               PROVE  e \in Results(child) /\ e.op \in W /\ e.op \in Dynamic(graph) /\ e.address = o[e.op].address
                      /\ Rank(e.op) = e.cycle
    OBVIOUS
  <2>1. e \in Results(child) /\ e.type = "store_result"
    OBVIOUS
  <2>2. e.op \in Dynamic(graph) /\ e = ResultAt(e.op) /\ o[e.op].kind # "read" /\ e.address = o[e.op].address
    BY <2>1, ResultsAreOne
  <2> QED
    BY <1>3, <1>4, <2>1, <2>2 DEF Rank
<1>9. \A i \in Dynamic(graph) : i \in W => ResultAt(i) \in stores /\ ResultAt(i).op = i
  <2> SUFFICES ASSUME NEW i \in Dynamic(graph), i \in W PROVE ResultAt(i) \in stores /\ ResultAt(i).op = i
    OBVIOUS
  <2>1. ResultAt(i) \in Results(child) /\ ResultAt(i).op = i
    BY <1>6
  <2>2. ResultAt(i).type = "store_result"
    BY <1>3, <1>4, <2>1, ResultsAreOne
  <2> QED
    BY <2>1, <2>2
<1>10. \A i \in Ids(o) : Rank(i) \in Nat /\ (i \in Dynamic(graph) <=> Rank(i) > 0)
  <2> TAKE i \in Ids(o)
  <2>1. CASE i \in Dynamic(graph)
    BY <2>1, ResultsAreOne
  <2>2. CASE i \notin Dynamic(graph)
    BY <2>2 DEF Rank
  <2> QED
    BY <2>1, <2>2
<1> HIDE DEF stores
\* A coherence edge goes up in rank.
<1>11. ASSUME NEW x
       PROVE  x \in C <=> \E v, w \in W : x = <<v, w>> /\ o[v].address = o[w].address /\ Rank(v) < Rank(w)
  <2>1. ASSUME x \in C1
        PROVE  \E v, w \in W : x = <<v, w>> /\ o[v].address = o[w].address /\ Rank(v) < Rank(w)
    <3>1. PICK p \in stores \X stores : /\ p[1].address = p[2].address /\ p[1].cycle < p[2].cycle
                                        /\ x = <<p[1].op, p[2].op>>
      BY <2>1
    <3>2. p[1] \in stores /\ p[2] \in stores
      BY <3>1
    <3> QED
      BY <1>8, <3>1, <3>2
  <2>2. ASSUME x \in C2
        PROVE  \E v, w \in W : x = <<v, w>> /\ o[v].address = o[w].address /\ Rank(v) < Rank(w)
    <3>1. PICK p \in initial \X stores : o[p[1]].address = p[2].address /\ x = <<p[1], p[2].op>>
      BY <2>2
    <3>2. p[1] \in Ids(o) /\ p[1] \notin Dynamic(graph) /\ p[2] \in stores
      BY <3>1
    <3>3. p[1] \in W /\ p[2].op \in W /\ o[p[1]].address = o[p[2].op].address
      BY <1>3, <1>8, <3>1, <3>2
    <3>4. Rank(p[1]) = 0 /\ Rank(p[2].op) > 0
      BY <1>4, <1>8, <1>10, <3>2 DEF Rank
    <3> QED
      BY <3>1, <3>3, <3>4
  <2>3. ASSUME NEW v \in W, NEW w \in W, x = <<v, w>>, o[v].address = o[w].address, Rank(v) < Rank(w)
        PROVE  x \in C
    <3>1. w \in Dynamic(graph)
      BY <1>4, <1>10, <2>3
    <3>2. ResultAt(w) \in stores /\ ResultAt(w).op = w
      BY <1>9, <3>1
    <3>3. CASE v \in Dynamic(graph)
      <4> DEFINE p == <<ResultAt(v), ResultAt(w)>>
      <4>1. ResultAt(v) \in stores /\ ResultAt(v).op = v
        BY <1>9, <3>3
      <4>2. p \in stores \X stores /\ p[1] = ResultAt(v) /\ p[2] = ResultAt(w)
        BY <3>2, <4>1
      <4>3. p[1].address = p[2].address /\ p[1].cycle < p[2].cycle /\ x = <<p[1].op, p[2].op>>
        BY <1>8, <2>3, <3>2, <4>1, <4>2
      <4> HIDE DEF p
      <4> QED
        BY <4>2, <4>3
    <3>4. CASE v \notin Dynamic(graph)
      <4> DEFINE p == <<v, ResultAt(w)>>
      <4>1. p \in initial \X stores /\ p[1] = v /\ p[2] = ResultAt(w)
        BY <1>4, <3>2, <3>4
      <4>2. o[p[1]].address = p[2].address /\ x = <<p[1], p[2].op>>
        BY <1>8, <2>3, <3>2, <4>1
      <4> HIDE DEF p, initial
      <4> QED
        BY <4>1, <4>2
    <3> QED
      BY <3>3, <3>4
  <2> QED
    BY <2>1, <2>2, <2>3
<1> HIDE DEF C, RF
<1>12. ASSUME NEW v \in W, NEW w \in W
       PROVE  <<v, w>> \in C <=> o[v].address = o[w].address /\ Rank(v) < Rank(w)
  <2>1. <<v, w>> \in C <=> \E t, u \in W : <<v, w>> = <<t, u>> /\ o[t].address = o[u].address /\ Rank(t) < Rank(u)
    BY <1>11, Zenon
  <2> QED
    BY <2>1
<1>13. \A i, j \in Ids(o) : SameLocation(o[i], o[j]) <=> o[i].address = o[j].address
  <2>1. \A i \in Ids(o) : Footprint(o[i]) = {o[i].address}
    BY <1>2, ProgrammedParts DEF Skeleton
  <2> QED
    BY <2>1 DEF SameLocation
<1>14. \A e \in C : e \in W \X W /\ e[1] # e[2] /\ o[e[1]].address = o[e[2]].address
  <2> SUFFICES ASSUME NEW e \in C PROVE e \in W \X W /\ e[1] # e[2] /\ o[e[1]].address = o[e[2]].address
    OBVIOUS
  <2>1. PICK v \in W, w \in W : e = <<v, w>> /\ o[v].address = o[w].address /\ Rank(v) < Rank(w)
    BY <1>11
  <2>2. v # w
    BY <1>4, <1>10, <2>1
  <2> QED
    BY <2>1, <2>2
<1>15. \A v, w \in W : v # w /\ o[v].address = o[w].address => Rank(v) # Rank(w)
  <2> SUFFICES ASSUME NEW v \in W, NEW w \in W, v # w, o[v].address = o[w].address, Rank(v) = Rank(w) PROVE FALSE
    OBVIOUS
  <2>1. CASE v \in Dynamic(graph) /\ w \in Dynamic(graph)
    BY <2>1, ResultsAreOne
  <2>2. CASE v \notin Dynamic(graph) \/ w \notin Dynamic(graph)
    <3>1. v \notin Dynamic(graph) /\ w \notin Dynamic(graph)
      BY <1>4, <1>10, <2>2
    <3>2. o[v].kind = "init_write" /\ o[w].kind = "init_write"
      BY <1>3, <1>4, <3>1
    <3>3. <<v, w>> \in graph.co /\ <<w, v>> \in graph.co
      BY <1>2, <3>2, SkeletonParts
    <3> QED
      BY <1>2, <3>3, SkeletonParts
  <2> QED
    BY <2>1, <2>2
<1>16. ValidCo(o, [co |-> C])
  <2>1. C \subseteq W \X W
    BY <1>14
  <2>2. \A e \in C : e[1] # e[2] /\ SameLocation(o[e[1]], o[e[2]])
    <3> SUFFICES ASSUME NEW e \in C PROVE e[1] # e[2] /\ SameLocation(o[e[1]], o[e[2]])
      OBVIOUS
    <3>1. e \in W \X W /\ e[1] # e[2] /\ o[e[1]].address = o[e[2]].address
      BY <1>14
    <3>2. e[1] \in Ids(o) /\ e[2] \in Ids(o)
      BY <1>4, <3>1
    <3> QED
      BY <1>13, <3>1, <3>2
  <2>3. \A v, w \in W : v # w /\ SameLocation(o[v], o[w]) => (<<v, w>> \in C <=> <<w, v>> \notin C)
    <3> SUFFICES ASSUME NEW v \in W, NEW w \in W, v # w, o[v].address = o[w].address
                 PROVE  <<v, w>> \in C <=> <<w, v>> \notin C
      BY <1>4, <1>13
    <3>1. Rank(v) # Rank(w) /\ Rank(v) \in Nat /\ Rank(w) \in Nat
      BY <1>4, <1>10, <1>15
    <3> QED
      BY <1>12, <3>1
  <2>4. ~ Cyclic(Ids(o), C)
    <3> SUFFICES ASSUME NEW S \in SUBSET Ids(o), S # {}, PredecessorClosed(S, C) PROVE FALSE
      BY DEF Cyclic
    <3> DEFINE Ranks == {Rank(i) : i \in S}
    <3>1. Ranks \in SUBSET Nat /\ Ranks # {}
      BY <1>10
    <3>2. PICK least \in Ranks : \A k \in Ranks : least <= k
      <4> HIDE DEF Ranks
      <4> QED
        BY <3>1, LeastNatural
    <3>3. PICK n \in S : least = Rank(n)
      OBVIOUS
    <3>4. PICK m \in S : <<m, n>> \in C
      BY DEF PredecessorClosed
    <3>5. m \in W /\ n \in W
      <4>1. <<m, n>> \in W \X W
        BY <1>14, <3>4
      <4> QED
        BY <4>1
    <3>6. Rank(m) < Rank(n) /\ least <= Rank(m) /\ Rank(m) \in Nat /\ Rank(n) \in Nat
      BY <1>10, <1>12, <3>2, <3>4, <3>5
    <3> QED
      BY <3>3, <3>6
  <2>5. \A v, w \in W : o[v].kind = "init_write" /\ v # w /\ SameLocation(o[v], o[w]) => <<v, w>> \in C
    <3> SUFFICES ASSUME NEW v \in W, NEW w \in W, o[v].kind = "init_write", v # w, o[v].address = o[w].address
                 PROVE  <<v, w>> \in C
      BY <1>4, <1>13
    <3>1. Rank(v) = 0 /\ Rank(w) \in Nat /\ Rank(v) # Rank(w)
      BY <1>3, <1>4, <1>10, <1>15 DEF Rank
    <3> QED
      BY <1>12, <3>1
  <2>6. [co |-> C].co = C
    OBVIOUS
  <2> QED
    BY <2>1, <2>2, <2>3, <2>4, <2>5, <2>6 DEF ValidCo
<1>17. /\ ValidRf(o, [rf |-> RF])
       /\ Functional(o, RF)
  <2> DEFINE x == ExecutionOf(graph)
  <2>1. x \in ExecutionsOf(o) /\ x.rf = graph.rf
    BY <1>2 DEF Skeleton, ExecutionOf
  <2> HIDE DEF x, o
  <2>2. ValidRf(o, [rf |-> x.rf])
    BY <2>1, ExecutionsAreRecords
  <2>3. x.rf = RF
    BY <1>7, <2>1
  <2>4. Functional(o, x.rf)
    BY <2>1, ExecutionsAreRecords
  <2> QED
    BY <2>2, <2>3, <2>4
<1> QED
  BY <1>1, <1>14, <1>16, <1>17, RecordsAreExecutions

-----------------------------------------------------------------------------
(* What a program retires: the operations of the skeleton. *)

InitEvent(w) ==
    Event(<<"arch_init", w>>, "init", w, graph.ops[w].address, graph.ops[w].value, NoHart, 0)

ArchEvent(o) ==
    Event(<<"arch", o>>, IF o \in DynamicReads(graph) THEN "load" ELSE "store", o, graph.ops[o].address,
          graph.ops[o].value, graph.ops[o].hart, graph.ops[o].index)

CommitEvent(o) ==
    Event(<<"commit", o>>, "commit", o, graph.ops[o].address,
          graph.ops[o].value, graph.ops[o].hart, graph.ops[o].index)

RetiredEvents ==
    {InitEvent(w) : w \in Ids(graph.ops) \ Dynamic(graph)} \cup {ArchEvent(o) : o \in Dynamic(graph)}
    \cup {CommitEvent(o) : o \in DynamicReads(graph)}

LEMMA RetiredAreFinite ==
    ASSUME Skeleton(graph)
    PROVE  IsFiniteSet(RetiredEvents)
<1> DEFINE I == Ids(graph.ops) \ Dynamic(graph)
           D == Dynamic(graph)
           L == DynamicReads(graph)
<1>1. IsFiniteSet(I) /\ IsFiniteSet(D) /\ IsFiniteSet(L)
  <2>1. IsFiniteSet(D) /\ IsFiniteSet(Ids(graph.ops))
    BY SkeletonParts
  <2> QED
    BY <2>1, FS_Subset DEF DynamicReads
<1> HIDE DEF I, D, L
<1>2. IsFiniteSet({InitEvent(w) : w \in I})
  <2> DEFINE T == {InitEvent(w) : w \in I}
             f == [w \in I |-> InitEvent(w)]
  <2>1. f \in [I -> T] /\ T = {f[w] : w \in I}
    OBVIOUS
  <2> HIDE DEF f, T
  <2>2. f \in [I -> T]
    BY <2>1
  <2>3. IsFiniteSet({f[w] : w \in I})
    BY <1>1, <2>2, ImageIsFinite
  <2>4. IsFiniteSet(T)
    BY <2>1, <2>3
  <2> QED
    BY <2>4 DEF T
<1>3. IsFiniteSet({ArchEvent(o) : o \in D})
  <2> DEFINE T == {ArchEvent(o) : o \in D}
             f == [o \in D |-> ArchEvent(o)]
  <2>1. f \in [D -> T] /\ T = {f[o] : o \in D}
    OBVIOUS
  <2> HIDE DEF f, T
  <2>2. f \in [D -> T]
    BY <2>1
  <2>3. IsFiniteSet({f[w] : w \in D})
    BY <1>1, <2>2, ImageIsFinite
  <2>4. IsFiniteSet(T)
    BY <2>1, <2>3
  <2> QED
    BY <2>4 DEF T
<1>4. IsFiniteSet({CommitEvent(o) : o \in L})
  <2> DEFINE T == {CommitEvent(o) : o \in L}
             f == [o \in L |-> CommitEvent(o)]
  <2>1. f \in [L -> T] /\ T = {f[o] : o \in L}
    OBVIOUS
  <2> HIDE DEF f, T
  <2>2. f \in [L -> T]
    BY <2>1
  <2>3. IsFiniteSet({f[w] : w \in L})
    BY <1>1, <2>2, ImageIsFinite
  <2>4. IsFiniteSet(T)
    BY <2>1, <2>3
  <2> QED
    BY <2>4 DEF T
<1> DEFINE TI == {InitEvent(w) : w \in I}
           TD == {ArchEvent(o) : o \in D}
           TL == {CommitEvent(o) : o \in L}
<1>5. RetiredEvents = (TI \cup TD) \cup TL
  BY DEF RetiredEvents, I, D, L
<1> HIDE DEF TI, TD, TL
<1>6. IsFiniteSet(TI) /\ IsFiniteSet(TD) /\ IsFiniteSet(TL)
  BY <1>2, <1>3, <1>4 DEF TI, TD, TL
<1>7. IsFiniteSet(TI \cup TD)
  BY <1>6, FS_Union
<1>8. IsFiniteSet((TI \cup TD) \cup TL)
  BY <1>6, <1>7, FS_Union
<1> QED
  BY <1>5, <1>8

LEMMA RetiredAreSkeleton ==
    ASSUME Skeleton(graph)
    PROVE  /\ ~ Unprojectable(RetiredEvents)
           /\ Operations(RetiredEvents) = graph.ops
           /\ \A e \in Architectural(RetiredEvents) :
                /\ e.op \in Nat /\ e.type \in {"init", "load", "store"}
                /\ e.bytes = {0} /\ e.address \in Nat
<1> DEFINE o == graph.ops
           D == Dynamic(graph)
           L == DynamicReads(graph)
           E == RetiredEvents
<1>1. D \subseteq Ids(o) /\ L \subseteq D
  BY DEF Dynamic, DynamicReads
<1>2. \A i \in Ids(o) : /\ i \in Nat /\ o[i].address \in Nat
                        /\ (i \in D <=> o[i].kind # "init_write")
                        /\ (i \in L <=> o[i].kind = "read")
                        /\ o[i] = Simple(o[i].kind, o[i].address, o[i].value, o[i].hart, o[i].index)
                        /\ o[i].kind \in {"init_write", "read", "write"}
                        /\ o[i].kind = "init_write" => o[i].hart = NoHart /\ o[i].index = 0
  <2> SUFFICES ASSUME NEW i \in Ids(o)
               PROVE  /\ i \in Nat /\ o[i].address \in Nat
                      /\ (i \in D <=> o[i].kind # "init_write")
                      /\ (i \in L <=> o[i].kind = "read")
                      /\ o[i] = Simple(o[i].kind, o[i].address, o[i].value, o[i].hart, o[i].index)
                      /\ o[i].kind \in {"init_write", "read", "write"}
                      /\ o[i].kind = "init_write" => o[i].hart = NoHart /\ o[i].index = 0
    OBVIOUS
  <2>1. Programmed(o)
    BY DEF Skeleton
  <2>2. /\ i \in Nat \ {0} /\ o[i].address \in Nat /\ o[i].kind \in {"init_write", "read", "write"}
        /\ i \in Reads(o) <=> o[i].kind = "read"
        /\ o[i] = Simple(o[i].kind, o[i].address, o[i].value, o[i].hart, o[i].index)
        /\ o[i].kind = "init_write" => o[i].hart = NoHart /\ o[i].index = 0
    BY <2>1, ProgrammedParts
  <2> QED
    BY <2>2 DEF Dynamic, DynamicReads
<1>3. \A e : e \in E <=> \/ \E w \in Ids(o) \ D : e = InitEvent(w)
                         \/ \E i \in D : e = ArchEvent(i)
                         \/ \E i \in L : e = CommitEvent(i)
  BY DEF RetiredEvents
<1> HIDE DEF D, L, E
<1>4. \A w : InitEvent(w).type = "init" /\ InitEvent(w).op = w /\ InitEvent(w).bytes = {0}
             /\ InitEvent(w).address = o[w].address
  BY DEF InitEvent, Event
<1>5. \A i : /\ ArchEvent(i).type = (IF i \in L THEN "load" ELSE "store") /\ ArchEvent(i).op = i
             /\ ArchEvent(i).bytes = {0} /\ ArchEvent(i).address = o[i].address
  BY DEF ArchEvent, Event, L
<1>6. \A i : CommitEvent(i).type = "commit" /\ CommitEvent(i).op = i /\ CommitEvent(i).value = o[i].value
  BY DEF CommitEvent, Event
<1>7. \A i : \A c : c \in Commits(E, i) <=> i \in L /\ c = CommitEvent(i)
  BY <1>3, <1>4, <1>5, <1>6 DEF Commits
<1>8. \A i \in L : Commits(E, i) = {CommitEvent(i)}
  <2> SUFFICES ASSUME NEW i \in L PROVE Commits(E, i) = {CommitEvent(i)}
    OBVIOUS
  <2> QED
    BY <1>7
<1>9. \A e : e \in Architectural(E) <=> (\E w \in Ids(o) \ D : e = InitEvent(w)) \/ \E i \in D : e = ArchEvent(i)
  <2> SUFFICES ASSUME NEW e
               PROVE  e \in Architectural(E) <=> (\E w \in Ids(o) \ D : e = InitEvent(w)) \/ \E i \in D : e = ArchEvent(i)
    OBVIOUS
  <2>1. e \in Architectural(E) <=>
            e \in E /\ (e.type \in {"init", "store", "sc"} \/ (e.type \in {"load", "lr", "amo"} /\ Commits(E, e.op) # {}))
    BY DEF Architectural, Reading
  <2>2. CASE \E w \in Ids(o) \ D : e = InitEvent(w)
    BY <1>3, <1>4, <2>1, <2>2
  <2>3. CASE \E i \in D : e = ArchEvent(i)
    <3>1. PICK i \in D : e = ArchEvent(i)
      BY <2>3
    <3>2. e \in E /\ e.op = i /\ e.type = IF i \in L THEN "load" ELSE "store"
      BY <1>3, <1>5, <3>1
    <3>3. i \in L => Commits(E, e.op) # {}
      BY <1>8, <3>2
    <3> QED
      BY <2>1, <2>3, <3>2, <3>3
  <2>4. CASE \E i \in L : e = CommitEvent(i)
    <3>1. e.type = "commit"
      BY <1>6, <2>4
    <3> QED
      BY <1>4, <1>5, <2>1, <3>1
  <2> QED
    BY <1>3, <2>1, <2>2, <2>3, <2>4
<1>10. \A e \in Architectural(E) : /\ e.op \in Ids(o) /\ e.type \in {"init", "load", "store"}
                                   /\ e.bytes = {0} /\ e.address = o[e.op].address
                                   /\ e = IF e.op \in D THEN ArchEvent(e.op) ELSE InitEvent(e.op)
  BY <1>1, <1>4, <1>5, <1>9
<1>17. o = [i \in Ids(o) |-> o[i]] /\ Ids(o) # {}
  BY DEF Skeleton, Programmed
<1>11. \A i \in Ids(o) : \E e \in Architectural(E) : e.op = i
  <2> TAKE i \in Ids(o)
  <2>1. CASE i \in D
    BY <1>5, <1>9, <2>1
  <2>2. CASE i \notin D
    BY <1>4, <1>9, <2>2
  <2> QED
    BY <2>1, <2>2
<1>12. ~ Unprojectable(E)
  <2>1. \A c : ~ Cardinality(Commits(E, c)) > 1
    <3> TAKE i
    <3>1. CASE i \in L
      <4>1. Cardinality(Commits(E, i)) = 1
        BY <1>8, <3>1, FS_Singleton
      <4> QED
        BY <4>1
    <3>2. CASE i \notin L
      <4>1. Commits(E, i) = {}
        BY <1>7, <3>2
      <4> QED
        BY <4>1, FS_EmptySet
    <3> QED
      BY <3>1, <3>2
  <2>2. \A e \in E : e.type \in Reading => Commits(E, e.op) # {}
    <3> SUFFICES ASSUME NEW e \in E, e.type \in Reading PROVE Commits(E, e.op) # {}
      OBVIOUS
    <3>1. PICK i \in L : e = ArchEvent(i)
      BY <1>3, <1>4, <1>5, <1>6 DEF Reading
    <3>2. Commits(E, e.op) = {CommitEvent(i)}
      BY <1>5, <1>8, <3>1
    <3> QED
      BY <3>2
  <2>3. \A e, f \in Architectural(E) : e.op = f.op => e = f
    BY <1>10
  <2>4. Architectural(E) # {}
    BY <1>11, <1>17
  <2> QED
    BY <2>1, <2>2, <2>3, <2>4 DEF Unprojectable
<1>13. \A i \in Ids(o) : Operation(E, CHOOSE e \in Architectural(E) : e.op = i) = o[i]
  <2> SUFFICES ASSUME NEW i \in Ids(o) PROVE Operation(E, CHOOSE e \in Architectural(E) : e.op = i) = o[i]
    OBVIOUS
  <2> DEFINE e == CHOOSE e \in Architectural(E) : e.op = i
  <2>1. e \in Architectural(E) /\ e.op = i
    BY <1>11
  <2> HIDE DEF e
  <2>2. CASE i \notin D
    <3>1. e = Event(<<"arch_init", i>>, "init", i, o[i].address, o[i].value, NoHart, 0)
      BY <1>10, <2>1, <2>2 DEF InitEvent
    <3>2. Operation(E, e) = Simple("init_write", o[i].address, o[i].value, NoHart, 0)
      BY <3>1, SimpleOperation
    <3> QED
      BY <1>2, <2>2, <3>2 DEF e
  <2>3. CASE i \in D /\ i \notin L
    <3>1. e = Event(<<"arch", i>>, "store", i, o[i].address, o[i].value, o[i].hart, o[i].index)
      BY <1>10, <2>1, <2>3 DEF ArchEvent, L
    <3>2. Operation(E, e) = Simple("write", o[i].address, o[i].value, o[i].hart, o[i].index)
      BY <3>1, SimpleOperation
    <3>3. o[i].kind = "write"
      BY <1>2, <2>3
    <3> QED
      BY <1>2, <3>2, <3>3 DEF e
  <2>4. CASE i \in D /\ i \in L
    <3>1. e = Event(<<"arch", i>>, "load", i, o[i].address, o[i].value, o[i].hart, o[i].index)
      BY <1>10, <2>1, <2>4 DEF ArchEvent, L
    <3>2. (CHOOSE c \in Commits(E, i) : TRUE).value = o[i].value
      <4>1. (CHOOSE c \in Commits(E, i) : TRUE) = CommitEvent(i)
        BY <1>8, <2>4
      <4> QED
        BY <1>6, <4>1
    <3>3. Operation(E, e) = Simple("read", o[i].address, o[i].value, o[i].hart, o[i].index)
      BY <3>1, <3>2, SimpleOperation
    <3>4. o[i].kind = "read"
      BY <1>2, <2>4
    <3> QED
      BY <1>2, <3>3, <3>4 DEF e
  <2> QED
    BY <2>2, <2>3, <2>4
<1>14. {e.op : e \in Architectural(E)} = Ids(o)
  BY <1>10, <1>11
<1>15. Operations(E) = o
  <2>1. Operations(E) = [i \in Ids(o) |-> Operation(E, CHOOSE e \in Architectural(E) : e.op = i)]
    BY <1>14 DEF Operations
  <2> QED
    BY <1>13, <1>17, <2>1
<1>16. \A e \in Architectural(E) : e.op \in Nat /\ e.type \in {"init", "load", "store"} /\ e.bytes = {0}
                                   /\ e.address \in Nat
  BY <1>2, <1>10
<1> QED
  BY <1>12, <1>15, <1>16 DEF E

-----------------------------------------------------------------------------
(* The trace of the core child. *)

OwnSlots(o) == Slots(o, o, graph.ops[o].value)

\* The internal path's evidence of its own.
PathEvent(e) ==
    /\ e.type \in {"tlb_miss", "mshr", "ldld", "recovery"}
    /\ \E k \in {"miss", "mshr", "ldld", "recovery"} : \E x : e.id = <<k, x>>

CoreInv ==
    core # {} =>
        /\ \A e \in core : \/ e \in CoreSource
                           \/ e \in child /\ e.type \in BridgeTypes
                           \/ \E o \in Dynamic(graph) \ Unretired : e \in OwnSlots(o)
                           \/ PathEvent(e)
        /\ CoreSource \subseteq core
        /\ \A o \in Dynamic(graph) \ Unretired : OwnSlots(o) \subseteq core

ArchTypes == {"init", "load", "store", "commit"}

SlotOf(prefix, o, as, value) ==
    [id |-> <<prefix, o>>, type |-> IF prefix = "commit" THEN "commit"
                                    ELSE IF o \in DynamicReads(graph) THEN "load" ELSE "store",
     cycle |-> Late, op |-> o, value |-> value, hart |-> graph.ops[as].hart,
     index |-> graph.ops[as].index, address |-> graph.ops[as].address]

\* The identifiers of the parts of the core's trace.
LEMMA CoreIds ==
    ASSUME Attempted, ChildInv, NEW e
    PROVE  /\ e \in CoreSource => /\ \E k \in SourceIds : e.id = <<k, e.id[2]>>
                                  /\ e.type \in {"init", "memory_instruction", "page_map"}
           /\ e \in child => \/ e.id = <<"line", e.op>> \/ e.id = <<"access", e.op>>
                             \/ \E o \in Performed : \/ e.id = <<"result", o>> \/ e.id = <<"acquire", o>>
                                                     \/ e.id = <<"grant", o>>
                                                     \/ \E h : e.id = <<"probe", <<o, h>> >>
           /\ e \in child => e.type \notin ArchTypes
<1>1. PICK order, c : order \in SetToSeqs(Dynamic(graph)) /\ InputOf(order, c)
  BY DEF Attempted, Scheduled
<1>2. Skeleton(graph) /\ stage \in Stages
  BY DEF Attempted
<1>3. e \in CoreSource => /\ \E k \in SourceIds : e.id = <<k, e.id[2]>>
                          /\ e.type \in {"init", "memory_instruction", "page_map"}
  BY <1>1, InputParts
<1>4. e \in child => \/ e.id = <<"line", e.op>> \/ e.id = <<"access", e.op>>
                     \/ \E o \in Performed : \/ e.id = <<"result", o>> \/ e.id = <<"acquire", o>>
                                             \/ e.id = <<"grant", o>>
                                             \/ \E h : e.id = <<"probe", <<o, h>> >>
  BY ChildEvents
<1>5. e \in child => e.type \notin ArchTypes
  <2> SUFFICES ASSUME e \in child PROVE e.type \notin ArchTypes
    OBVIOUS
  <2>1. e \in Lines(graph) \/ InjectedAccess(e) \/ AnsweredResult(e, Shift) \/ OwnTraffic(e, Shift, Performed)
    BY DEF ChildInv
  <2>2. e.type \in {"line_init", "access", "load_result", "store_result"} \cup Traffic
    BY <1>1, <1>2, <2>1, ChildShapes
  <2> QED
    BY <2>2 DEF ArchTypes, Traffic
<1> QED
  BY <1>3, <1>4, <1>5

\* What is known of the slots of an instruction, as one fact.
SlotFacts(o, as, value) ==
    \A e \in Slots(o, as, value) :
        /\ e.id = <<"arch", o>> \/ e.id = <<"commit", o>>
        /\ e.type \in {"load", "store", "commit"} /\ e.value = value
        /\ e.hart = graph.ops[as].hart /\ e.index = graph.ops[as].index /\ e.address = graph.ops[as].address

SlotMembers(o, as, value) ==
    \A e : e \in Slots(o, as, value) <=>
        (e = SlotOf("arch", o, as, value) \/ (o \in DynamicReads(graph) /\ e = SlotOf("commit", o, as, value)))

LEMMA SlotsAreKnown ==
    \A o, as, value :
        /\ SlotFacts(o, as, value) /\ SlotMembers(o, as, value)
        /\ SlotOf("arch", o, as, value) \in Slots(o, as, value)
        /\ SlotOf("arch", o, as, value).id = <<"arch", o>>
<1> SUFFICES ASSUME NEW o, NEW as, NEW value
             PROVE  /\ SlotFacts(o, as, value) /\ SlotMembers(o, as, value)
                    /\ SlotOf("arch", o, as, value) \in Slots(o, as, value)
                    /\ SlotOf("arch", o, as, value).id = <<"arch", o>>
  OBVIOUS
<1>1. \A e : e \in Slots(o, as, value) <=>
                \E prefix \in IF o \in DynamicReads(graph) THEN {"arch", "commit"} ELSE {"arch"} :
                    e = SlotOf(prefix, o, as, value)
  BY DEF Slots, SlotOf
<1>2. \A e : e \in Slots(o, as, value) <=>
        (e = SlotOf("arch", o, as, value) \/ (o \in DynamicReads(graph) /\ e = SlotOf("commit", o, as, value)))
  <2>1. CASE o \in DynamicReads(graph)
    BY <1>1, <2>1
  <2>2. CASE o \notin DynamicReads(graph)
    BY <1>1, <2>2
  <2> QED
    BY <2>1, <2>2
<1>3. ASSUME NEW e, e = SlotOf("arch", o, as, value) \/ e = SlotOf("commit", o, as, value)
      PROVE  /\ e.id = <<"arch", o>> \/ e.id = <<"commit", o>>
             /\ e.type \in {"load", "store", "commit"} /\ e.value = value
             /\ e.hart = graph.ops[as].hart /\ e.index = graph.ops[as].index /\ e.address = graph.ops[as].address
  <2>1. ASSUME NEW prefix \in {"arch", "commit"}, e = SlotOf(prefix, o, as, value)
        PROVE  /\ e.id = <<prefix, o>>
               /\ e.type \in {"load", "store", "commit"} /\ e.value = value
               /\ e.hart = graph.ops[as].hart /\ e.index = graph.ops[as].index /\ e.address = graph.ops[as].address
    BY <2>1 DEF SlotOf
  <2> QED
    BY <1>3, <2>1
<1>4. SlotFacts(o, as, value)
  BY <1>2, <1>3 DEF SlotFacts
<1>5. SlotOf("arch", o, as, value) \in Slots(o, as, value)
  BY <1>2
<1>6. SlotOf("arch", o, as, value).id = <<"arch", o>>
  BY DEF SlotOf
<1> QED
  BY <1>2, <1>4, <1>5, <1>6 DEF SlotMembers

LEMMA RetireKeepsCore ==
    ASSUME Attempted, ChildInv, CoreInv, Retire
    PROVE  CoreInv'
<1>1. /\ graph' = graph /\ stage' = stage /\ input' = input /\ child' = child
      /\ CoreSource' = CoreSource /\ Dynamic(graph)' = Dynamic(graph)
  BY DEF Retire, skeletonVars, CoreSource
<1> DEFINE o == CHOOSE p \in Unretired : \A q \in Unretired : p <= q
           base == IF core = {} THEN CoreInput(input, child) ELSE core
<1>2. PICK as \in Dynamic(graph), value \in 0 .. Bounds.values - 1 :
        core' = base \cup Slots(o, as, value) /\ Retirement(graph, o, core')
  BY DEF Retire
<1>3. o \in Unretired
  <2>1. Unretired \in SUBSET Nat /\ Unretired # {}
    <3>1. Dynamic(graph) \in SUBSET Nat
      BY SkeletonParts DEF Attempted
    <3> QED
      BY <3>1 DEF Retire, Unretired
  <2> QED
    BY <2>1, LeastNatural
<1> HIDE DEF o
<1>4. \A p : p \in Unretired <=> p \in Dynamic(graph) /\ \A e \in core : e.id # <<"arch", p>>
  BY DEF Unretired
<1>5. core = {} => Unretired = Dynamic(graph)
  BY <1>4
\* What is there before the step.
<1>6. \A e \in base : \/ e \in CoreSource
                      \/ e \in child /\ e.type \in BridgeTypes
                      \/ \E p \in Dynamic(graph) \ Unretired : e \in OwnSlots(p)
                      \/ PathEvent(e)
  BY DEF CoreInv, CoreInput, CoreSource
<1>7. CoreSource \subseteq base /\ \A p \in Dynamic(graph) \ Unretired : OwnSlots(p) \subseteq base
  <2>1. CASE core = {}
    BY <1>5, <2>1 DEF CoreInput, CoreSource
  <2>2. CASE core # {}
    BY <2>2 DEF CoreInv
  <2> QED
    BY <2>1, <2>2
<1> HIDE DEF base
<1>8. ASSUME NEW e \in base, NEW q, e.id = <<"arch", q>> \/ e.id = <<"commit", q>>
      PROVE  q \in Dynamic(graph) \ Unretired /\ e \in OwnSlots(q)
  <2>1. e \notin CoreSource
    BY <1>8, CoreIds DEF SourceIds
  <2>2. e \notin child
    BY <1>8, CoreIds
  <2>3. ~ PathEvent(e)
    BY <1>8 DEF PathEvent
  <2>4. PICK p \in Dynamic(graph) \ Unretired : e \in OwnSlots(p)
    BY <1>6, <2>1, <2>2, <2>3
  <2>5. e.id = <<"arch", p>> \/ e.id = <<"commit", p>>
    <3>1. SlotFacts(p, p, graph.ops[p].value)
      BY SlotsAreKnown, Zenon
    <3> QED
      BY <2>4, <3>1 DEF OwnSlots, SlotFacts
  <2>6. p = q
    BY <1>8, <2>5
  <2> QED
    BY <2>4, <2>6
<1>9. o \in Dynamic(graph)
  BY <1>3, <1>4
<1>10. graph.ops[as].hart = graph.ops[o].hart /\ graph.ops[as].index = graph.ops[o].index
       /\ graph.ops[as].address = graph.ops[o].address /\ value = graph.ops[o].value
  <2>1. PICK e \in core' : /\ e.id = <<"arch", o>>
                           /\ e.hart = graph.ops[o].hart /\ e.index = graph.ops[o].index
                           /\ e.address = graph.ops[o].address
                           /\ IF o \in DynamicReads(graph)
                              THEN \E c \in core' : c.id = <<"commit", o>> /\ c.value = graph.ops[o].value
                              ELSE e.value = graph.ops[o].value
    BY <1>2 DEF Retirement
  <2>2. e \in Slots(o, as, value)
    BY <1>2, <1>3, <1>8, <2>1
  <2>5. SlotFacts(o, as, value)
    BY SlotsAreKnown, Zenon
  <2>3. e.value = value /\ e.hart = graph.ops[as].hart /\ e.index = graph.ops[as].index /\ e.address = graph.ops[as].address
    BY <2>2, <2>5 DEF SlotFacts
  <2>4. value = graph.ops[o].value
    <3>1. CASE o \in DynamicReads(graph)
      <4>1. PICK c \in core' : c.id = <<"commit", o>> /\ c.value = graph.ops[o].value
        BY <2>1, <3>1
      <4>2. c \in Slots(o, as, value)
        BY <1>2, <1>3, <1>8, <4>1
      <4> QED
        BY <2>5, <4>1, <4>2 DEF SlotFacts
    <3>2. CASE o \notin DynamicReads(graph)
      BY <2>1, <2>3, <3>2
    <3> QED
      BY <3>1, <3>2
  <2> QED
    BY <2>1, <2>3, <2>4
<1>11. Slots(o, as, value) = OwnSlots(o)
  BY <1>10 DEF Slots, OwnSlots
<1>12. \A p : p \in Unretired' <=> p \in Unretired /\ p # o
  <2>1. \A p : p \in Unretired' <=> p \in Dynamic(graph) /\ \A e \in core' : e.id # <<"arch", p>>
    BY <1>1 DEF Unretired
  <2>2. SlotOf("arch", o, as, value) \in core' /\ SlotOf("arch", o, as, value).id = <<"arch", o>>
    <3>1. SlotOf("arch", o, as, value) \in Slots(o, as, value) /\ SlotOf("arch", o, as, value).id = <<"arch", o>>
      BY SlotsAreKnown, Zenon
    <3> QED
      BY <1>2, <3>1
  <2>3. ASSUME NEW p \in Unretired, p # o
        PROVE  p \in Unretired'
    <3>1. \A e \in base : e.id # <<"arch", p>>
      BY <1>8, <2>3
    <3>2. \A e \in Slots(o, as, value) : e.id # <<"arch", p>>
      <4>1. SlotFacts(o, as, value)
        BY SlotsAreKnown, Zenon
      <4>2. \A e \in Slots(o, as, value) : e.id = <<"arch", o>> \/ e.id = <<"commit", o>>
        BY <4>1 DEF SlotFacts
      <4>3. <<"commit", o>> # <<"arch", p>> /\ <<"arch", o>> # <<"arch", p>>
        BY <2>3
      <4> QED
        BY <4>2, <4>3
    <3> QED
      BY <1>2, <1>4, <2>1, <2>3, <3>1, <3>2
  <2>4. ASSUME NEW p \in Unretired'
        PROVE  p \in Unretired /\ p # o
    <3>1. p \in Dynamic(graph) /\ \A e \in core' : e.id # <<"arch", p>>
      BY <2>1, <2>4
    <3>2. p # o
      BY <2>2, <3>1
    <3>3. p \in Unretired
      <4> SUFFICES ASSUME p \notin Unretired PROVE FALSE
        OBVIOUS
      <4>1. OwnSlots(p) \subseteq core'
        BY <1>2, <1>7, <3>1
      <4>2. SlotOf("arch", p, p, graph.ops[p].value) \in OwnSlots(p)
            /\ SlotOf("arch", p, p, graph.ops[p].value).id = <<"arch", p>>
        BY SlotsAreKnown, Zenon DEF OwnSlots
      <4> QED
        BY <3>1, <4>1, <4>2
    <3> QED
      BY <3>2, <3>3
  <2> QED
    BY <2>3, <2>4
<1>13. \A p : OwnSlots(p)' = OwnSlots(p)
  BY <1>1 DEF OwnSlots, Slots, Late, RetimeOffset
<1>14. \A e : PathEvent(e)' <=> PathEvent(e)
  BY DEF PathEvent
<1>15. \A e \in core' : \/ e \in CoreSource
                        \/ e \in child /\ e.type \in BridgeTypes
                        \/ \E p \in Dynamic(graph) \ Unretired' : e \in OwnSlots(p)
                        \/ PathEvent(e)
  <2> SUFFICES ASSUME NEW e \in core'
               PROVE  \/ e \in CoreSource
                      \/ e \in child /\ e.type \in BridgeTypes
                      \/ \E p \in Dynamic(graph) \ Unretired' : e \in OwnSlots(p)
                      \/ PathEvent(e)
    OBVIOUS
  <2>1. CASE e \in base
    BY <1>6, <1>12, <2>1
  <2>2. CASE e \in Slots(o, as, value)
    BY <1>9, <1>11, <1>12, <2>2
  <2> QED
    BY <1>2, <2>1, <2>2
<1>16. CoreSource \subseteq core' /\ \A p \in Dynamic(graph) \ Unretired' : OwnSlots(p) \subseteq core'
  BY <1>2, <1>7, <1>11, <1>12
<1> QED
  BY <1>1, <1>13, <1>14, <1>15, <1>16 DEF CoreInv

LEMMA OptionalsAreOfThePath ==
    ASSUME NEW events \in Optional, NEW e \in events
    PROVE  PathEvent(e)
<1> DEFINE misses == {{[id |-> <<"miss", o>>, type |-> "tlb_miss", cycle |-> Late, op |-> o,
                        hart |-> graph.ops[o].hart, address |-> graph.ops[o].address] : o \in {p, q}} :
                             p \in Dynamic(graph), q \in Dynamic(graph)}
           mshrs == {{[id |-> <<"mshr", o>>, type |-> "mshr", cycle |-> Late, op |-> o]} : o \in DynamicReads(graph)}
           pairs == {{[id |-> <<"ldld", p>>, type |-> "ldld", cycle |-> Late, older |-> p[1], younger |-> p[2]]} :
                            p \in Dynamic(graph) \X Dynamic(graph)}
           recoveries == {{[id |-> <<"recovery", o>>, type |-> "recovery", cycle |-> Late, op |-> o]} : o \in Dynamic(graph)}
<1>1. CASE events \in misses
  <2>1. PICK o : e = [id |-> <<"miss", o>>, type |-> "tlb_miss", cycle |-> Late, op |-> o,
                      hart |-> graph.ops[o].hart, address |-> graph.ops[o].address]
    BY <1>1
  <2>2. e.type = "tlb_miss" /\ e.id = <<"miss", o>>
    BY <2>1
  <2> QED
    BY <2>2 DEF PathEvent
<1>2. CASE events \in mshrs
  <2>1. PICK o : e = [id |-> <<"mshr", o>>, type |-> "mshr", cycle |-> Late, op |-> o]
    BY <1>2
  <2>2. e.type = "mshr" /\ e.id = <<"mshr", o>>
    BY <2>1
  <2> QED
    BY <2>2 DEF PathEvent
<1>3. CASE events \in pairs
  <2>1. PICK p : e = [id |-> <<"ldld", p>>, type |-> "ldld", cycle |-> Late, older |-> p[1], younger |-> p[2]]
    BY <1>3
  <2>2. e.type = "ldld" /\ e.id = <<"ldld", p>>
    BY <2>1
  <2> QED
    BY <2>2 DEF PathEvent
<1>4. CASE events \in recoveries
  <2>1. PICK o : e = [id |-> <<"recovery", o>>, type |-> "recovery", cycle |-> Late, op |-> o]
    BY <1>4
  <2>2. e.type = "recovery" /\ e.id = <<"recovery", o>>
    BY <2>1
  <2> QED
    BY <2>2 DEF PathEvent
<1>5. Optional = misses \cup mshrs \cup pairs \cup recoveries
  BY DEF Optional
<1> HIDE DEF misses, mshrs, pairs, recoveries
<1> QED
  BY <1>1, <1>2, <1>3, <1>4, <1>5

LEMMA ShowKeepsCore ==
    ASSUME CoreInv, Show
    PROVE  CoreInv' /\ core' # {} /\ Unretired' = {}
<1>1. /\ graph' = graph /\ input' = input /\ child' = child /\ core # {} /\ Unretired = {}
  BY DEF Show, skeletonVars
<1>2. PICK events \in Optional \cup {{}} : core' = core \cup events
  BY DEF Show
<1>3. \A e \in events : PathEvent(e)
  BY OptionalsAreOfThePath
<1>4. core \subseteq core' /\ core' # {}
  BY <1>1, <1>2
<1>5. Unretired' = {}
  <2>1. \A p \in Dynamic(graph) : \E e \in core : e.id = <<"arch", p>>
    BY <1>1 DEF Unretired
  <2> QED
    BY <1>1, <1>4, <2>1 DEF Unretired
<1>6. \A p : OwnSlots(p)' = OwnSlots(p)
  BY <1>1 DEF OwnSlots, Slots, Late, RetimeOffset
<1>7. \A e : PathEvent(e)' <=> PathEvent(e)
  BY DEF PathEvent
<1>8. CoreSource' = CoreSource
  BY <1>1 DEF CoreSource
<1>9. \A e \in core' : \/ e \in CoreSource
                       \/ e \in child /\ e.type \in BridgeTypes
                       \/ \E p \in Dynamic(graph) \ Unretired' : e \in OwnSlots(p)
                       \/ PathEvent(e)
  BY <1>1, <1>2, <1>3, <1>5 DEF CoreInv
<1>10. CoreSource \subseteq core' /\ \A p \in Dynamic(graph) \ Unretired' : OwnSlots(p) \subseteq core'
  BY <1>1, <1>4, <1>5 DEF CoreInv
<1> QED
  BY <1>1, <1>4, <1>5, <1>6, <1>7, <1>8, <1>9, <1>10 DEF CoreInv

-----------------------------------------------------------------------------
(* The merge. *)

LEMMA ChildAndCoreAgree ==
    ASSUME Attempted, ChildInv, CoreInv, core # {}
    PROVE  Mergeable(child, core)
<1> SUFFICES ASSUME NEW e \in child, NEW f \in core, e.id = f.id PROVE e = f
  BY DEF Mergeable
<1>1. \/ e.id = <<"line", e.op>> \/ e.id = <<"access", e.op>>
      \/ \E o \in Performed : \/ e.id = <<"result", o>> \/ e.id = <<"acquire", o>> \/ e.id = <<"grant", o>>
                              \/ \E h : e.id = <<"probe", <<o, h>> >>
  BY CoreIds
<1>2. f \notin CoreSource
  <2> SUFFICES ASSUME f \in CoreSource PROVE FALSE
    OBVIOUS
  <2>1. \E k \in SourceIds : f.id = <<k, f.id[2]>>
    BY CoreIds
  <2> QED
    BY <1>1, <2>1 DEF SourceIds
<1>3. ~ PathEvent(f)
  BY <1>1 DEF PathEvent
<1>4. ASSUME NEW p, f \in OwnSlots(p) PROVE FALSE
  <2>1. SlotFacts(p, p, graph.ops[p].value)
    BY SlotsAreKnown, Zenon
  <2>2. f.id = <<"arch", p>> \/ f.id = <<"commit", p>>
    BY <1>4, <2>1 DEF OwnSlots, SlotFacts
  <2> QED
    BY <1>1, <2>2
<1>5. f \in child
  BY <1>2, <1>3, <1>4 DEF CoreInv
<1> QED
  BY <1>5 DEF ChildInv, Identified

\* The event that the checker is given for one of the merged trace.
Handed(e) ==
    SearchEvent(e.id, e.type, [address |-> e.address, value |-> e.value,
                hart |-> IF e.type = "init" THEN NoHart ELSE e.hart], e.op,
                IF e.type = "init" THEN 0 ELSE e.index)

LEMMA HandedEvents ==
    /\ \A w \in Ids(graph.ops) \ Dynamic(graph) : \A e :
        e = [id |-> <<"arch_init", w>>, type |-> "init", cycle |-> 0, op |-> w,
             address |-> graph.ops[w].address, value |-> graph.ops[w].value] =>
                Handed(e) = InitEvent(w) /\ e.type = "init"
    /\ \A o : /\ Handed(SlotOf("arch", o, o, graph.ops[o].value)) = ArchEvent(o)
              /\ SlotOf("arch", o, o, graph.ops[o].value).type \in {"load", "store"}
              /\ Handed(SlotOf("commit", o, o, graph.ops[o].value)) = CommitEvent(o)
              /\ SlotOf("commit", o, o, graph.ops[o].value).type = "commit"
<1>1. ASSUME NEW w, NEW e,
             e = [id |-> <<"arch_init", w>>, type |-> "init", cycle |-> 0, op |-> w,
                  address |-> graph.ops[w].address, value |-> graph.ops[w].value]
      PROVE  Handed(e) = InitEvent(w) /\ e.type = "init"
  <2>1. e.id = <<"arch_init", w>> /\ e.type = "init" /\ e.op = w /\ e.address = graph.ops[w].address
        /\ e.value = graph.ops[w].value
    BY <1>1
  <2> QED
    BY <2>1 DEF Handed, SearchEvent, InitEvent, Event
<1>2. ASSUME NEW o, NEW e, e = SlotOf("arch", o, o, graph.ops[o].value)
      PROVE  Handed(e) = ArchEvent(o) /\ e.type \in {"load", "store"}
  <2>1. /\ e.id = <<"arch", o>> /\ e.type = (IF o \in DynamicReads(graph) THEN "load" ELSE "store") /\ e.op = o
        /\ e.address = graph.ops[o].address /\ e.value = graph.ops[o].value
        /\ e.hart = graph.ops[o].hart /\ e.index = graph.ops[o].index
    BY <1>2 DEF SlotOf
  <2>2. e.type # "init" /\ e.type \in {"load", "store"}
    BY <2>1
  <2> QED
    BY <2>1, <2>2 DEF Handed, SearchEvent, ArchEvent, Event
<1>3. ASSUME NEW o, NEW e, e = SlotOf("commit", o, o, graph.ops[o].value)
      PROVE  Handed(e) = CommitEvent(o) /\ e.type = "commit"
  <2>1. /\ e.id = <<"commit", o>> /\ e.type = "commit" /\ e.op = o
        /\ e.address = graph.ops[o].address /\ e.value = graph.ops[o].value
        /\ e.hart = graph.ops[o].hart /\ e.index = graph.ops[o].index
    BY <1>3 DEF SlotOf
  <2> QED
    BY <2>1 DEF Handed, SearchEvent, CommitEvent, Event
<1> QED
  BY <1>1, <1>2, <1>3

LEMMA RetiredTraceParts ==
    ASSUME NEW events
    PROVE  /\ RetiredTrace(events).events = {Handed(e) : e \in {f \in events : f.type \in ArchTypes}}
           /\ Bare(RetiredTrace(events))
           /\ DOMAIN RetiredTrace(events).hints = HintNames
<1>1. RetiredTrace(events).events = {Handed(e) : e \in {f \in events : f.type \in ArchTypes}}
  BY DEF RetiredTrace, Handed, ArchTypes
<1>2. /\ RetiredTrace(events).hints = [name \in HintNames |-> {}]
      /\ RetiredTrace(events).rfHints = {} /\ RetiredTrace(events).coHints = {}
  BY DEF RetiredTrace, HintNames
<1> QED
  BY <1>1, <1>2 DEF Bare

\* The merged trace retires the skeleton, whatever else is in it.
LEMMA MergedEvents ==
    ASSUME Attempted, ChildInv, CoreInv, core # {}, Unretired = {}, stage.kind # "coherence"
    PROVE  RetiredTrace(child \cup core).events = RetiredEvents
<1> DEFINE A == {f \in child \cup core : f.type \in ArchTypes}
           G == RetiredTrace(child \cup core).events
<1>1. G = {Handed(e) : e \in A}
  BY RetiredTraceParts
<1>2. PICK order, c : order \in SetToSeqs(Dynamic(graph)) /\ InputOf(order, c)
  BY DEF Attempted, Scheduled
<1>3. \A e \in CoreSource : e.type = "init" => e \in InitWrites(graph)
  BY <1>2, InputParts
<1>4. InitWrites(graph) \subseteq CoreSource
  BY <1>2, InputParts
<1>5. \A e : e \in InitWrites(graph) <=> \E w \in Ids(graph.ops) \ Dynamic(graph) :
            e = [id |-> <<"arch_init", w>>, type |-> "init", cycle |-> 0, op |-> w,
                 address |-> graph.ops[w].address, value |-> graph.ops[w].value]
  BY DEF InitWrites
<1>6. \A p : SlotMembers(p, p, graph.ops[p].value)
  BY SlotsAreKnown, Zenon
<1>7. DynamicReads(graph) \subseteq Dynamic(graph)
  BY DEF DynamicReads
<1>8. ASSUME NEW e \in A
      PROVE  Handed(e) \in RetiredEvents
  <2>1. e \notin child
    BY <1>8, CoreIds
  <2>2. ~ PathEvent(e)
    BY <1>8 DEF PathEvent, ArchTypes
  <2>3. e \in CoreSource \/ \E p \in Dynamic(graph) : e \in OwnSlots(p)
    BY <1>8, <2>1, <2>2 DEF CoreInv
  <2>4. CASE e \in CoreSource
    <3>1. e.type \in {"init", "memory_instruction", "page_map"}
      BY <2>4, CoreIds
    <3>2. e.type = "init"
      BY <1>8, <3>1 DEF ArchTypes
    <3>3. PICK w \in Ids(graph.ops) \ Dynamic(graph) :
            e = [id |-> <<"arch_init", w>>, type |-> "init", cycle |-> 0, op |-> w,
                 address |-> graph.ops[w].address, value |-> graph.ops[w].value]
      BY <1>3, <1>5, <2>4, <3>2
    <3>4. Handed(e) = InitEvent(w)
      BY <3>3, HandedEvents
    <3> QED
      BY <3>4 DEF RetiredEvents
  <2>5. ASSUME NEW p \in Dynamic(graph), e \in OwnSlots(p)
        PROVE  Handed(e) \in RetiredEvents
    <3>1. \/ e = SlotOf("arch", p, p, graph.ops[p].value)
          \/ p \in DynamicReads(graph) /\ e = SlotOf("commit", p, p, graph.ops[p].value)
      BY <1>6, <2>5 DEF OwnSlots, SlotMembers
    <3>2. Handed(e) = ArchEvent(p) \/ (p \in DynamicReads(graph) /\ Handed(e) = CommitEvent(p))
      BY <3>1, HandedEvents, Zenon
    <3> QED
      BY <3>2 DEF RetiredEvents
  <2> QED
    BY <2>3, <2>4, <2>5
<1>9. ASSUME NEW x \in RetiredEvents
      PROVE  \E e \in A : x = Handed(e)
  <2>1. CASE \E w \in Ids(graph.ops) \ Dynamic(graph) : x = InitEvent(w)
    <3>1. PICK w \in Ids(graph.ops) \ Dynamic(graph) : x = InitEvent(w)
      BY <2>1
    <3> DEFINE e == [id |-> <<"arch_init", w>>, type |-> "init", cycle |-> 0, op |-> w,
                     address |-> graph.ops[w].address, value |-> graph.ops[w].value]
    <3>2. e \in CoreSource
      BY <1>4, <1>5
    <3>3. Handed(e) = InitEvent(w) /\ e.type = "init"
      BY HandedEvents
    <3> HIDE DEF e
    <3>4. e \in core
      BY <3>2 DEF CoreInv
    <3>5. e \in A
      BY <3>3, <3>4 DEF ArchTypes
    <3> QED
      BY <3>1, <3>3, <3>5
  <2>2. CASE \E o \in Dynamic(graph) : x = ArchEvent(o)
    <3>1. PICK o \in Dynamic(graph) : x = ArchEvent(o)
      BY <2>2
    <3> DEFINE e == SlotOf("arch", o, o, graph.ops[o].value)
    <3>2. e \in OwnSlots(o)
      BY <1>6 DEF OwnSlots, SlotMembers
    <3>3. Handed(e) = ArchEvent(o) /\ e.type \in {"load", "store"}
      BY HandedEvents
    <3> HIDE DEF e
    <3>4. e \in core
      BY <3>2 DEF CoreInv
    <3>5. e \in A
      BY <3>3, <3>4 DEF ArchTypes
    <3> QED
      BY <3>1, <3>3, <3>5
  <2>3. CASE \E o \in DynamicReads(graph) : x = CommitEvent(o)
    <3>1. PICK o \in DynamicReads(graph) : x = CommitEvent(o)
      BY <2>3
    <3> DEFINE e == SlotOf("commit", o, o, graph.ops[o].value)
    <3>2. e \in OwnSlots(o) /\ o \in Dynamic(graph)
      BY <1>6, <1>7, <3>1 DEF OwnSlots, SlotMembers
    <3>3. Handed(e) = CommitEvent(o) /\ e.type = "commit"
      BY HandedEvents
    <3> HIDE DEF e
    <3>4. e \in core
      BY <3>2 DEF CoreInv
    <3>5. e \in A
      BY <3>3, <3>4 DEF ArchTypes
    <3> QED
      BY <3>1, <3>3, <3>5
  <2> QED
    BY <2>1, <2>2, <2>3 DEF RetiredEvents
<1> HIDE DEF A, G
<1>10. G = RetiredEvents
  BY <1>1, <1>8, <1>9
<1> QED
  BY <1>10 DEF G

\* The second check starts from a trace without evidence, of the operations of the skeleton.
LEMMA MergeConfirms ==
    ASSUME CInv, Attempted, Settled(model, graph), ChildInv, CoreInv, core # {}, Unretired = {},
           stage.kind # "coherence", Merge
    PROVE  Confirmed' /\ step' = "retired"
<1>1. /\ trace' = RetiredTrace(child \cup core) /\ phase' = "project" /\ step' = "retired"
      /\ ops' = << >> /\ pending' = {} /\ checked' = {} /\ status' = "none"
      /\ model' = model /\ graph' = graph
  BY ChildAndCoreAgree DEF Merge, skeletonVars
<1> DEFINE t == RetiredTrace(child \cup core)
<1>2. t.events = RetiredEvents /\ Bare(t) /\ DOMAIN t.hints = HintNames
  BY MergedEvents, RetiredTraceParts
<1> HIDE DEF t
<1>3. Skeleton(graph)
  BY DEF Attempted
<1>4. /\ ~ Unprojectable(t.events) /\ Operations(t.events) = graph.ops
      /\ \A e \in Architectural(t.events) :
            e.op \in Nat /\ e.type \in {"init", "load", "store"} /\ e.bytes = {0} /\ e.address \in Nat
      /\ IsFiniteSet(t.events)
  BY <1>2, <1>3, RetiredAreSkeleton, RetiredAreFinite
<1>5. ASSUME NEW e \in Architectural(t.events), NEW f \in Architectural(t.events)
      PROVE  SameLocation(e, f) <=> e.address = f.address
  <2>1. Footprint(e) = {e.address} /\ Footprint(f) = {f.address}
    BY <1>4 DEF Footprint
  <2> QED
    BY <2>1 DEF SameLocation
<1>6. Supported(t)
  BY <1>2, <1>4, <1>5 DEF Supported
<1>7. trace' = t
  BY <1>1 DEF t
<1>8. SInv'
  BY <1>1, <1>6, <1>7 DEF SInv, Typed, Projected, Fresh, Enumerated, Concluded
<1>9. Bare(trace') /\ ProjectedWell' /\ ChosenWell'
  BY <1>1, <1>2, <1>7 DEF ProjectedWell, ChosenWell
<1>10. CInv'
  BY <1>8, <1>9 DEF CInv, Bare
<1>11. Settled(model, graph)'
  <2>1. Settled(model', graph')
    BY <1>1
  <2> QED
    BY <2>1 DEF Settled
<1> QED
  BY <1>1, <1>4, <1>7, <1>10, <1>11 DEF Confirmed, Unprojectable

-----------------------------------------------------------------------------
(* The first schedule. *)

LEMMA Positions ==
    ASSUME NEW S, IsFiniteSet(S), NEW order \in SetToSeqs(S), NEW i \in DOMAIN order
    PROVE  Position(order, order[i]) = i
<1>1. /\ order \in [1 .. Cardinality(S) -> S]
      /\ \A j, k \in 1 .. Cardinality(S) : j # k => order[j] # order[k]
  BY OrderingsOf
<1>2. DOMAIN order = 1 .. Cardinality(S)
  BY <1>1
<1>3. \A j, k \in DOMAIN order : j # k => order[j] # order[k]
  BY <1>1, <1>2
<1> QED
  BY <1>3 DEF Position

LEMMA PositionOf ==
    ASSUME NEW S, IsFiniteSet(S), NEW order \in SetToSeqs(S), NEW s \in S
    PROVE  /\ Position(order, s) \in DOMAIN order /\ order[Position(order, s)] = s
           /\ Position(order, s) \in Nat
<1>1. /\ order \in [1 .. Cardinality(S) -> S] /\ Cardinality(S) \in Nat
      /\ \E i \in 1 .. Cardinality(S) : order[i] = s
  BY OrderingsOf
<1>2. PICK i \in 1 .. Cardinality(S) : order[i] = s
  BY <1>1
<1>3. DOMAIN order = 1 .. Cardinality(S)
  BY <1>1
<1>4. Position(order, s) = i
  BY <1>2, <1>3, Positions
<1> QED
  BY <1>1, <1>2, <1>3, <1>4

\* Communication within a skeleton runs from one write to the next: it has no cycle.
LEMMA PreferredIsAcyclic ==
    ASSUME NEW g, Skeleton(g)
    PROVE  ~ Cyclic(Dynamic(g), Preferred(g))
<1> DEFINE o == g.ops
           W == Writes(o)
<1>1. /\ g.rf \subseteq W \X Reads(o)
      /\ \A r \in Reads(o) : \E w \in W : <<w, r>> \in g.rf /\ \A v \in W : <<v, r>> \in g.rf => v = w
      /\ g.co \subseteq W \X W
      /\ ~ Cyclic(Ids(o), g.co)
  BY SkeletonParts
<1>2. Reads(o) \cap W = {}
  <2>1. \A i \in Ids(o) : (i \in Reads(o) <=> o[i].kind = "read") /\ (i \in W <=> o[i].kind # "read")
    BY ProgrammedParts DEF Skeleton
  <2> QED
    BY <2>1 DEF Reads
<1>3. Dynamic(g) \subseteq Ids(o) /\ W \subseteq Ids(o) /\ \A i \in Dynamic(g) : i \in W \/ i \in Reads(o)
  BY ProgrammedParts DEF Skeleton, Dynamic, Writes
<1> SUFFICES ASSUME NEW S \in SUBSET Dynamic(g), S # {}, PredecessorClosed(S, Preferred(g)) PROVE FALSE
  BY DEF Cyclic
<1>4. \A n \in S : \E m \in S : <<m, n>> \in g.rf \/ <<m, n>> \in g.co \/ <<m, n>> \in Fr(o, g)
  <2> TAKE n \in S
  <2>1. PICK m \in S : <<m, n>> \in Preferred(g)
    BY DEF PredecessorClosed
  <2> QED
    BY <2>1 DEF Preferred
<1>5. \A m, n : <<m, n>> \in Fr(o, g) => /\ m \in Reads(o) /\ n \in W
                                         /\ \E w \in W : <<w, m>> \in g.rf /\ <<w, n>> \in g.co
  BY DEF Fr
<1>6. \A m, n : (<<m, n>> \in g.rf => n \in Reads(o)) /\ (<<m, n>> \in g.co => n \in W /\ m \in W)
  BY <1>1
<1>7. ASSUME NEW r \in S, r \in Reads(o)
      PROVE  \E w \in S : w \in W /\ <<w, r>> \in g.rf
  <2>1. PICK m \in S : <<m, r>> \in g.rf \/ <<m, r>> \in g.co \/ <<m, r>> \in Fr(o, g)
    BY <1>4
  <2>2. r \notin W
    BY <1>2, <1>7
  <2>3. <<m, r>> \in g.rf
    BY <1>5, <1>6, <2>1, <2>2
  <2> QED
    BY <1>1, <2>3
<1>8. ASSUME NEW w \in S, w \in W
      PROVE  \E v \in S : v \in W /\ <<v, w>> \in g.co
  <2>1. PICK m \in S : <<m, w>> \in g.rf \/ <<m, w>> \in g.co \/ <<m, w>> \in Fr(o, g)
    BY <1>4
  <2>2. w \notin Reads(o)
    BY <1>2, <1>8
  <2>3. CASE <<m, w>> \in g.co
    BY <1>6, <2>3
  <2>4. CASE <<m, w>> \in Fr(o, g)
    <3>1. PICK u \in W : m \in Reads(o) /\ <<u, m>> \in g.rf /\ <<u, w>> \in g.co
      BY <1>5, <2>4
    <3>2. PICK v \in S : v \in W /\ <<v, m>> \in g.rf
      BY <1>7, <3>1
    <3>3. u = v
      BY <1>1, <3>1, <3>2
    <3> QED
      BY <3>1, <3>2, <3>3
  <2> QED
    BY <1>6, <2>1, <2>2, <2>3, <2>4
<1> DEFINE T == S \cap W
<1>9. T # {}
  <2>1. PICK n \in S : TRUE
    OBVIOUS
  <2>2. n \in W \/ n \in Reads(o)
    BY <1>3
  <2> QED
    BY <1>7, <2>2
<1>10. PredecessorClosed(T, g.co)
  BY <1>8 DEF PredecessorClosed
<1>11. T \in SUBSET Ids(o)
  BY <1>3
<1> QED
  BY <1>1, <1>9, <1>10, <1>11 DEF Cyclic

Respects(order, edges) == \A e \in edges : Position(order, e[1]) < Position(order, e[2])

LEMMA SomeOrderRespects ==
    ASSUME NEW S, IsFiniteSet(S), NEW edges \in SUBSET (S \X S), ~ Cyclic(S, edges)
    PROVE  \E order \in SetToSeqs(S) : Respects(order, edges)
<1>1. PICK R : StrictTotal(S, R) /\ \A i, j \in S : <<i, j>> \in edges => <<i, j>> \in R
  BY AcyclicIsOrdered
<1> DEFINE place == [s \in S |-> 1 + Cardinality({t \in S : <<t, s>> \in R})]
           n == Cardinality(S)
<1>2. /\ place \in Surjection(S, 1 .. n)
      /\ \A s, t \in S : place[s] = place[t] => s = t
      /\ \A s, t \in S : <<s, t>> \in R <=> place[s] < place[t]
  BY <1>1, Placing
<1> HIDE DEF place
<1> DEFINE order == [i \in 1 .. n |-> CHOOSE s \in S : place[s] = i]
<1>3. \A i \in 1 .. n : order[i] \in S /\ place[order[i]] = i
  <2> TAKE i \in 1 .. n
  <2>1. \E s \in S : place[s] = i
    BY <1>2 DEF Surjection
  <2> QED
    BY <2>1
<1>4. order \in [1 .. n -> S] /\ DOMAIN order = 1 .. n
  BY <1>3
<1> HIDE DEF order
<1>5. order \in SetToSeqs(S)
  <2>1. \A i, j \in 1 .. n : i # j => order[i] # order[j]
    BY <1>3
  <2> QED
    BY <1>4, <2>1, OrderingsOf
<1>6. ASSUME NEW s \in S PROVE Position(order, s) = place[s]
  <2>1. place[s] \in 1 .. n
    BY <1>2 DEF Surjection
  <2>2. order[place[s]] = s
    BY <1>2, <1>3, <2>1
  <2> QED
    BY <1>4, <1>5, <2>1, <2>2, Positions
<1>7. Respects(order, edges)
  <2> SUFFICES ASSUME NEW e \in edges PROVE Position(order, e[1]) < Position(order, e[2])
    BY DEF Respects
  <2>1. e = <<e[1], e[2]>> /\ e[1] \in S /\ e[2] \in S
    OBVIOUS
  <2>2. place[e[1]] < place[e[2]]
    BY <1>1, <1>2, <2>1
  <2> QED
    BY <1>6, <2>1, <2>2
<1> QED
  BY <1>5, <1>7

\* The first schedule violates no communication edge.
LEMMA FirstRespects ==
    ASSUME NEW g, Skeleton(g), NEW limit \in Nat \ {0},
           NEW schedules, schedules = CandidateSchedules(g, limit), NEW i \in DOMAIN schedules, i = 1
    PROVE  Respects(schedules[i], Preferred(g))
<1> DEFINE S == Dynamic(g)
           P == Preferred(g)
           bad(order) == {e \in P : Position(order, e[1]) >= Position(order, e[2])}
<1>1. /\ S \in SUBSET (Nat \ {0}) /\ IsFiniteSet(S) /\ PreferredPairs(g)
  BY SkeletonParts
<1>2. S \in SUBSET Nat
  BY <1>1
<1>3. P \in SUBSET (S \X S)
  BY <1>1 DEF PreferredPairs
<1>4. IsFiniteSet(P)
  <2>1. IsFiniteSet(S \X S)
    BY <1>1, FS_Product
  <2> QED
    BY <1>3, <2>1, FS_Subset
<1>5. /\ schedules[i] \in SetToSeqs(S)
      /\ \A o \in SetToSeqs(S) : Violations(P, schedules[i]) <= Violations(P, o)
  BY <1>1, <1>2, SchedulesAreOrders
<1>6. PICK o \in SetToSeqs(S) : Respects(o, P)
  BY <1>1, <1>3, PreferredIsAcyclic, SomeOrderRespects
<1>7. \A order \in SetToSeqs(S) : \A e \in P : Position(order, e[1]) \in Nat /\ Position(order, e[2]) \in Nat
  <2> SUFFICES ASSUME NEW order \in SetToSeqs(S), NEW s \in S PROVE Position(order, s) \in Nat
    BY <1>3
  <2> HIDE DEF S
  <2> QED
    BY <1>1, PositionOf
<1>8. bad(o) = {}
  BY <1>6, <1>7 DEF Respects
<1>9. \A order : Violations(P, order) = Cardinality(bad(order))
  BY DEF Violations
<1>10. Violations(P, o) = 0
  BY <1>8, <1>9, FS_EmptySet
<1>11. IsFiniteSet(bad(schedules[i]))
  BY <1>4, FS_Subset
<1>12. Cardinality(bad(schedules[i])) \in Nat
  BY <1>11, FS_CardinalityType
<1>13. Cardinality(bad(schedules[i])) = 0
  BY <1>5, <1>9, <1>10, <1>12
<1>14. bad(schedules[i]) = {}
  BY <1>11, <1>13, FS_EmptySet
<1> QED
  BY <1>5, <1>7, <1>14 DEF Respects

-----------------------------------------------------------------------------
(* The first step of an attempt. *)

\* What the coherence child is given: the lines, and an access per operation.
LEMMA ChildInputParts ==
    ASSUME NEW g, NEW st, NEW order, NEW c, NEW events, events = CoherenceChildInput(InputTrace(g, st, order, c))
    PROVE  events = Lines(g) \cup Accesses(g, st, order)
<1> DEFINE X == Accesses(g, st, order)
           N == Instructions(g)
           P == Pages(g, c)
           I == InitWrites(g)
           L == Lines(g)
<1>1. \A e \in X : e.type = "access"
  BY DEF Accesses
<1>2. \A e \in N : e.type = "memory_instruction"
  BY DEF Instructions
<1>3. \A e \in P : e.type = "page_map"
  BY DEF Pages
<1>4. \A e \in I : e.type = "init"
  BY DEF InitWrites
<1>5. \A e \in L : e.type = "line_init"
  BY DEF Lines
<1>6. \A e : e \in InputTrace(g, st, order, c) <=>
            e \in L \/ e \in X \/ (st.kind # "coherence" /\ (e \in I \/ e \in N \/ e \in P))
  BY DEF InputTrace
<1> HIDE DEF X, N, P, I, L
<1>7. \A e : e \in events <=> e \in L \/ e \in X
  BY <1>1, <1>2, <1>3, <1>4, <1>5, <1>6 DEF CoherenceChildInput
<1>8. events = L \cup X
  BY <1>7
<1> QED
  BY <1>8 DEF L, X

\* No two of them have one identifier, and an access is what its fields say.
LEMMA ChildInputIdentified ==
    ASSUME NEW g, NEW st, IsFiniteSet(Dynamic(g)), NEW order \in SetToSeqs(Dynamic(g))
    PROVE  /\ Identified(Lines(g) \cup Accesses(g, st, order))
           /\ \A e \in Accesses(g, st, order) : e.type = "access" /\ e = [e EXCEPT !.cycle = e.cycle]
           /\ \A e \in Lines(g) : e.type = "line_init"
<1> DEFINE D == 1 .. Cardinality(Dynamic(g))
           A(i) == [id |-> <<"access", order[i]>>, type |-> "access",
                    cycle |-> st.cycle_start + (i - 1) * st.cycle_stride, op |-> order[i],
                    hart |-> g.ops[order[i]].hart, address |-> g.ops[order[i]].address, kind |-> g.ops[order[i]].kind,
                    write_value |-> IF order[i] \in DynamicReads(g)
                                    THEN g.ops[InitialOf(g, g.ops[order[i]].address)].value
                                    ELSE g.ops[order[i]].value,
                    after |-> IF i = 1 THEN NoAccess ELSE order[i - 1]]
           L(w) == [id |-> <<"line", w>>, type |-> "line_init", cycle |-> 0, op |-> w,
                    address |-> g.ops[w].address, value |-> g.ops[w].value]
<1>1. order \in [D -> Dynamic(g)] /\ \A i, j \in D : i # j => order[i] # order[j]
  BY OrderingsOf
<1>2. DOMAIN order = D
  BY <1>1
<1>3. \A e : e \in Accesses(g, st, order) <=> \E i \in D : e = A(i)
  BY <1>2 DEF Accesses
<1>4. \A e : e \in Lines(g) <=> \E w \in Ids(g.ops) \ Dynamic(g) : e = L(w)
  BY DEF Lines
<1>5. \A i : A(i).id = <<"access", order[i]>> /\ A(i).type = "access" /\ A(i) = [A(i) EXCEPT !.cycle = A(i).cycle]
  OBVIOUS
<1>6. \A w : L(w).id = <<"line", w>> /\ L(w).type = "line_init"
  OBVIOUS
<1> HIDE DEF A, L, D
<1>7. \A e, f \in Accesses(g, st, order) : e.id = f.id => e = f
  BY <1>1, <1>3, <1>5
<1>8. \A e, f \in Lines(g) : e.id = f.id => e = f
  BY <1>4, <1>6
<1>9. \A e \in Accesses(g, st, order), f \in Lines(g) : e.id # f.id
  BY <1>3, <1>4, <1>5, <1>6
<1>10. Identified(Lines(g) \cup Accesses(g, st, order))
  BY <1>7, <1>8, <1>9 DEF Identified
<1> QED
  BY <1>3, <1>4, <1>5, <1>6, <1>10

Searched == \E raw \in RawPrograms : trace = ArchitectureTrace(raw)

LEMMA BeginIsAttempted ==
    ASSUME CInv, Searched, stage \in Stages, coherence = "none", Begin
    PROVE  /\ Attempted' /\ ChildInv' /\ Settled(model, graph)'
           /\ \E order \in SetToSeqs(Dynamic(graph')) : \E c :
                /\ input' = InputTrace(graph', stage', order, c)
                /\ number' = 1 => Respects(order, Preferred(graph'))
                /\ child' = Lines(graph') \cup Accesses(graph', stage', order)
           /\ Results(child') = {} /\ graph'.ops = ops
           /\ cache'.writer = [a \in {graph'.ops[o].address : o \in Ids(graph'.ops)} |-> InitialOf(graph', a)]
<1>1. /\ phase = "done" /\ stage' = stage /\ coherence' = coherence /\ model' = model
  BY DEF Begin, checkVars
<1>2. PICK k \in checked :
        LET g == [ops |-> ops, rf |-> k.candidate.rf, co |-> k.candidate.co, verdict |-> status]
            schedules == CandidateSchedules(g, stage.max_schedules)
        IN  /\ graph' = g
            /\ \E i \in DOMAIN schedules, c \in Configurations(g) :
                /\ number' = i
                /\ input' = InputTrace(g, stage, schedules[i], c)
                /\ cache' = [writer |-> [a \in {g.ops[o].address : o \in Ids(g.ops)} |-> InitialOf(g, a)],
                             perm |-> [h \in UsedHarts(g) |->
                                        [a \in {g.ops[o].address : o \in Ids(g.ops)} |-> Permission(c, h)]]]
                /\ child' = CoherenceChildInput(input')
  BY DEF Begin
<1> DEFINE g == [ops |-> ops, rf |-> k.candidate.rf, co |-> k.candidate.co, verdict |-> status]
<1>3. /\ g.ops = ops /\ g.verdict = status /\ g.rf = k.candidate.rf /\ g.co = k.candidate.co
  OBVIOUS
<1>4. graph' = g
  BY <1>2
<1> HIDE DEF g
<1>5. Settled(model, g) /\ k.candidate \in ExecutionsOf(ops)
  BY <1>1, <1>3, DoneIsSettled
<1>6. ExecutionOf(g) = k.candidate
  <2>1. k.candidate = [rf |-> k.candidate.rf, co |-> k.candidate.co]
    BY <1>5, ExecutionsAreRecords
  <2> QED
    BY <1>3, <2>1 DEF ExecutionOf
<1>7. Programmed(ops)
  <2>1. ops = Operations(trace.events) /\ ~ Unprojectable(trace.events)
    BY <1>1 DEF CInv, SInv, Projected, ProjectedWell
  <2> QED
    BY <2>1, ProgramIsProgrammed DEF Searched
<1>8. Skeleton(g)
  BY <1>3, <1>5, <1>6, <1>7 DEF Skeleton
<1>9. /\ Dynamic(g) \in SUBSET Nat /\ IsFiniteSet(Dynamic(g)) /\ PreferredPairs(g)
  <2>1. Dynamic(g) \in SUBSET (Nat \ {0}) /\ IsFiniteSet(Dynamic(g)) /\ PreferredPairs(g)
    BY <1>8, SkeletonParts
  <2> QED
    BY <2>1
<1>10. stage.max_schedules \in Nat \ {0}
  BY StagesAssumption
<1> DEFINE schedules == CandidateSchedules(g, stage.max_schedules)
<1>11. PICK i \in DOMAIN schedules, c \in Configurations(g) :
            /\ number' = i
            /\ input' = InputTrace(g, stage, schedules[i], c) /\ child' = CoherenceChildInput(input')
            /\ cache'.writer = [a \in {g.ops[o].address : o \in Ids(g.ops)} |-> InitialOf(g, a)]
  BY <1>2 DEF g
<1>12. schedules[i] \in SetToSeqs(Dynamic(g))
  BY <1>9, <1>10, SchedulesAreOrders
<1> DEFINE order == schedules[i]
<1>22. number' = 1 => Respects(order, Preferred(g))
  BY <1>8, <1>10, <1>11, FirstRespects
<1> HIDE DEF schedules
<1>13. input' = InputTrace(g, stage, order, c) /\ child' = CoherenceChildInput(InputTrace(g, stage, order, c))
       /\ order \in SetToSeqs(Dynamic(g))
  BY <1>11, <1>12
<1> HIDE DEF order
<1>14. Attempted'
  <2>1. Scheduled'
    BY <1>1, <1>4, <1>13 DEF Scheduled, InputOf
  <2>2. Skeleton(graph')
    BY <1>4, <1>8
  <2> QED
    BY <1>1, <2>1, <2>2 DEF Attempted, Skeleton, ExecutionOf
<1>15. child' = Lines(g) \cup Accesses(g, stage, order)
  BY <1>13, ChildInputParts
<1>16. /\ Identified(child')
       /\ \A e \in Accesses(g, stage, order) : e.type = "access" /\ e = [e EXCEPT !.cycle = e.cycle]
  BY <1>9, <1>13, <1>15, ChildInputIdentified
<1>17. Shift' = 0
  BY <1>1 DEF Shift
<1>18. \A e \in Accesses(g, stage, order) : e \in input'
  BY <1>13 DEF InputTrace
<1>19. \A e \in Accesses(g, stage, order) : InjectedAccess(e)'
  <2> SUFFICES ASSUME NEW e \in Accesses(g, stage, order) PROVE InjectedAccess(e)'
    OBVIOUS
  <2>1. e \in InputAccesses'
    BY <1>16, <1>18 DEF InputAccesses
  <2>2. e = [e EXCEPT !.cycle = e.cycle]
    BY <1>16
  <2> QED
    BY <1>17, <2>1, <2>2 DEF InjectedAccess
<1>20. ChildInv'
  BY <1>4, <1>15, <1>16, <1>19 DEF ChildInv, Identified
<1>21. Settled(model, graph)'
  <2>1. Settled(model', graph')
    BY <1>1, <1>4, <1>5
  <2> QED
    BY <2>1 DEF Settled
<1>23. Results(child') = {}
  <2>1. \A e \in Lines(g) : e.type = "line_init"
    BY <1>9, <1>13, ChildInputIdentified
  <2> QED
    BY <1>15, <1>16, <2>1 DEF Results
<1>24. \E ord \in SetToSeqs(Dynamic(graph')) : \E d :
                /\ input' = InputTrace(graph', stage', ord, d)
                /\ number' = 1 => Respects(ord, Preferred(graph'))
                /\ child' = Lines(graph') \cup Accesses(graph', stage', ord)
  <2>1. /\ input' = InputTrace(graph', stage', order, c)
        /\ number' = 1 => Respects(order, Preferred(graph'))
        /\ child' = Lines(graph') \cup Accesses(graph', stage', order)
        /\ order \in SetToSeqs(Dynamic(graph'))
    BY <1>1, <1>4, <1>13, <1>15, <1>22 DEF order
  <2> QED
    BY <2>1, Zenon
<1>25. cache'.writer = [a \in {graph'.ops[o].address : o \in Ids(graph'.ops)} |-> InitialOf(graph', a)]
  BY <1>4, <1>11
<1>26. graph'.ops = ops
  BY <1>3, <1>4
<1> QED
  BY <1>14, <1>20, <1>21, <1>23, <1>24, <1>25, <1>26, Zenon

-----------------------------------------------------------------------------
(* The invariant of an attempt. *)

Answered == Performed = Dynamic(graph) /\ CoherenceObligations(graph, child)

AInv ==
    /\ CInv /\ stage \in Stages
    /\ step \in {"search", "access", "core", "merge", "retired", "realized", "failed"}
    /\ step = "search" => Searched /\ core = {} /\ coherence = "none"
    /\ step # "search" => Attempted /\ ChildInv /\ Settled(model, graph)
    /\ step = "access" => core = {} /\ coherence = "none"
    /\ step \in {"core", "merge"} => stage.kind # "coherence" /\ CoreInv
    /\ step = "merge" => core # {} /\ Unretired = {}
    /\ step = "retired" => Confirmed
    /\ coherence = "feasible" => Answered

SameChild == graph' = graph /\ stage' = stage /\ input' = input /\ coherence' = coherence /\ child' = child

LEMMA SameChildKeeps ==
    ASSUME SameChild
    PROVE  /\ Attempted => Attempted'
           /\ ChildInv => ChildInv'
           /\ Answered => Answered'
           /\ CoreInv /\ core' = core => CoreInv'
           /\ Unretired = {} /\ core' = core => Unretired' = {}
<1>1. Attempted => Attempted'
  BY DEF SameChild, Attempted, Skeleton, ExecutionOf, Scheduled, InputOf
<1>2. Shift' = Shift /\ InputAccesses' = InputAccesses /\ Lines(graph)' = Lines(graph) /\ Performed' = Performed
  BY DEF SameChild, Shift, InputAccesses, Performed, Results
<1>3. /\ \A e : InjectedAccess(e) => InjectedAccess(e)'
      /\ \A e, shift : AnsweredResult(e, shift) => AnsweredResult(e, shift)'
      /\ \A e, shift, performed : OwnTraffic(e, shift, performed) => OwnTraffic(e, shift, performed)'
  BY <1>2 DEF SameChild, InjectedAccess, AnsweredResult, OwnTraffic
<1>4. ASSUME ChildInv PROVE ChildInv'
  <2>1. child' = child
    BY DEF SameChild
  <2>2. Identified(child') /\ Lines(graph') \subseteq child'
    BY <1>2, <1>4, <2>1 DEF ChildInv
  <2>3. ASSUME NEW e \in child
        PROVE  e \in Lines(graph)' \/ InjectedAccess(e)' \/ AnsweredResult(e, Shift)' \/ OwnTraffic(e, Shift, Performed)'
    <3>1. e \in Lines(graph) \/ InjectedAccess(e) \/ AnsweredResult(e, Shift) \/ OwnTraffic(e, Shift, Performed)
      BY <1>4 DEF ChildInv
    <3>2. AnsweredResult(e, Shift) => AnsweredResult(e, Shift)'
      BY <1>2 DEF SameChild, AnsweredResult
    <3>3. OwnTraffic(e, Shift, Performed) => OwnTraffic(e, Shift, Performed)'
      BY <1>2 DEF OwnTraffic
    <3> QED
      BY <1>2, <1>3, <3>1, <3>2, <3>3
  <2> QED
    BY <2>1, <2>2, <2>3 DEF ChildInv, Identified
<1>5. Answered => Answered'
  BY <1>2 DEF SameChild, Answered
<1>6. ASSUME core' = core, CoreInv PROVE CoreInv'
  <2>1. Unretired' = Unretired /\ CoreSource' = CoreSource /\ child' = child /\ graph' = graph
    BY <1>6 DEF SameChild, Unretired, CoreSource
  <2>2. \A p : OwnSlots(p)' = OwnSlots(p)
    BY <2>1 DEF OwnSlots, Slots, Late, RetimeOffset
  <2>3. \A e : PathEvent(e)' <=> PathEvent(e)
    BY DEF PathEvent
  <2> QED
    BY <1>6, <2>1, <2>2, <2>3 DEF CoreInv
<1>7. Unretired = {} /\ core' = core => Unretired' = {}
  BY DEF SameChild, Unretired
<1> QED
  BY <1>1, <1>4, <1>5, <1>6, <1>7

LEMMA SettledIsKept ==
    ASSUME Settled(model, graph), model' = model, graph' = graph
    PROVE  Settled(model, graph)'
<1>1. Settled(model', graph')
  OBVIOUS
<1> QED
  BY <1>1 DEF Settled

LEMMA CheckStutters ==
    ASSUME UNCHANGED vars
    PROVE  CInv => CInv'
<1>1. SInv => SInv'
  BY StutterKeepsSInv
<1> QED
  BY <1>1 DEF CInv, Bare, ProjectedWell, ChosenWell, Unprojectable, vars

LEMMA ConfirmedStutters ==
    ASSUME UNCHANGED vars, graph' = graph
    PROVE  Confirmed => Confirmed'
<1>1. CInv => CInv'
  BY CheckStutters
<1>2. Settled(model, graph) => Settled(model, graph)'
  BY SettledIsKept DEF vars
<1> QED
  BY <1>1, <1>2 DEF Confirmed, Unprojectable, vars

\* The answer is the same with the cycles moved.
LEMMA AnswerStands ==
    ASSUME Attempted, ChildInv, coherence = "none", AnswerCoherence, coherence' = "feasible"
    PROVE  Answered'
<1>1. graph' = graph /\ stage' = stage /\ Shift = 0 /\ Performed = Dynamic(graph)
  BY DEF AnswerCoherence, skeletonVars, Shift
<1>2. CoherenceObligations(graph, child)
  BY DEF AnswerCoherence
<1>3. CASE child' = child
  BY <1>1, <1>2, <1>3 DEF Answered, Performed
<1>4. CASE child' = Retime(child)
  <2>1. child' = {Retimed(e) : e \in child}
    BY <1>4 DEF Retime, Retimed
  <2>2. ASSUME NEW e \in Results(child)
        PROVE  /\ Retimed(e) \in Results(child')
               /\ Retimed(e).op = e.op /\ Retimed(e).address = e.address /\ Retimed(e).value = e.value
               /\ Retimed(e).type = e.type /\ Retimed(e).source = e.source
    <3>1. e \in child /\ e.type \in {"load_result", "store_result"} /\ AnsweredResult(e, 0)
      BY <1>1, ChildEvents DEF Results
    <3>2. PICK a, source, value, path : e = ResultOf(a, source, value, path, a.cycle + 1 + 0)
      BY <3>1 DEF AnsweredResult
    <3>3. /\ Retimed(e).op = e.op /\ Retimed(e).address = e.address /\ Retimed(e).value = e.value
          /\ Retimed(e).type = e.type /\ Retimed(e).source = e.source
      <4> DEFINE d == IF e.cycle > 0 THEN e.cycle + RetimeOffset ELSE e.cycle
      <4>1. Retimed(e) = [e EXCEPT !.cycle = d]
        BY DEF Retimed
      <4> HIDE DEF d
      <4> QED
        BY <3>2, <4>1 DEF ResultOf
    <3> QED
      BY <2>1, <3>1, <3>3 DEF Results
  <2>3. CoherenceObligations(graph, child')
    <3> SUFFICES ASSUME NEW o \in Dynamic(graph)
                 PROVE  \E e \in Results(child') :
                            /\ e.op = o /\ e.address = graph.ops[o].address /\ e.value = graph.ops[o].value
                            /\ IF o \in DynamicReads(graph) THEN e.type = "load_result" /\ <<e.source, o>> \in graph.rf
                               ELSE e.type = "store_result" /\ e.source = o
      BY DEF CoherenceObligations
    <3>1. PICK e \in Results(child) :
            /\ e.op = o /\ e.address = graph.ops[o].address /\ e.value = graph.ops[o].value
            /\ IF o \in DynamicReads(graph) THEN e.type = "load_result" /\ <<e.source, o>> \in graph.rf
               ELSE e.type = "store_result" /\ e.source = o
      BY <1>2 DEF CoherenceObligations
    <3> QED
      BY <2>2, <3>1
  <2>4. Performed' = Performed
    <3>1. \A x \in Results(child') : \E e \in Results(child) : x = Retimed(e)
      <4> SUFFICES ASSUME NEW x \in Results(child') PROVE \E e \in Results(child) : x = Retimed(e)
        OBVIOUS
      <4>1. PICK e \in child : x = Retimed(e)
        BY <2>1 DEF Results
      <4>2. x.type = e.type
        BY <1>1, <4>1, RetimedShapes
      <4> QED
        BY <4>1, <4>2 DEF Results
    <3>2. Performed' = {e.op : e \in Results(child')} /\ Performed = {e.op : e \in Results(child)}
      BY DEF Performed, Results
    <3> QED
      BY <2>2, <3>1, <3>2
  <2> QED
    BY <1>1, <2>3, <2>4 DEF Answered
<1> QED
  BY <1>3, <1>4 DEF AnswerCoherence

LEMMA CheckingKeepsAInv ==
    ASSUME AInv, Next \/ UNCHANGED vars, UNCHANGED attemptVars
    PROVE  AInv'
<1>1. trace' = trace /\ model' = model
  BY DEF Next, Project, Choose, Judge, Conclude, Fail, vars
<1>2. SameChild /\ step' = step /\ core' = core /\ graph' = graph /\ stage' = stage /\ coherence' = coherence
  BY DEF attemptVars, SameChild
<1>3. CInv'
  BY NextKeepsCInv, CheckStutters DEF AInv
<1>4. step = "retired" => Confirmed'
  BY <1>2, NextConfirms, ConfirmedStutters DEF AInv
<1>5. Searched => Searched'
  BY <1>1 DEF Searched
<1>6. Settled(model, graph) => Settled(model, graph)'
  BY <1>1, <1>2, SettledIsKept
<1>7. /\ Attempted => Attempted'
      /\ ChildInv => ChildInv'
      /\ Answered => Answered'
      /\ CoreInv => CoreInv'
      /\ Unretired = {} => Unretired' = {}
  BY <1>2, SameChildKeeps
<1> QED
  BY <1>2, <1>3, <1>4, <1>5, <1>6, <1>7 DEF AInv

LEMMA AttemptKeepsAInv ==
    ASSUME AInv, AttemptNext
    PROVE  AInv'
<1>1. CASE Checking
  BY <1>1, CheckingKeepsAInv DEF Checking
<1>2. CASE Begin
  <2>1. /\ step = "search" /\ step' = "access" /\ stage' = stage /\ coherence' = coherence /\ core' = core
        /\ UNCHANGED vars
    BY <1>2 DEF Begin, checkVars, vars
  <2>2. Attempted' /\ ChildInv' /\ Settled(model, graph)'
    BY <1>2, <2>1, BeginIsAttempted DEF AInv
  <2>3. CInv'
    BY <2>1, CheckStutters DEF AInv
  <2> QED
    BY <2>1, <2>2, <2>3 DEF AInv
<1>3. CASE Perform
  <2>1. /\ step = "access" /\ step' = step /\ coherence' = coherence /\ core' = core
        /\ graph' = graph /\ stage' = stage /\ input' = input /\ UNCHANGED vars
    BY <1>3 DEF Perform, checkVars, skeletonVars, vars
  <2>2. ChildInv'
    BY <1>3, <2>1, PerformKeepsChild DEF AInv
  <2>3. Attempted'
    BY <2>1 DEF AInv, Attempted, Skeleton, ExecutionOf, Scheduled, InputOf
  <2>4. CInv' /\ Settled(model, graph)'
    BY <2>1, CheckStutters, SettledIsKept DEF AInv, vars
  <2> QED
    BY <2>1, <2>2, <2>3, <2>4 DEF AInv
<1>4. CASE AnswerCoherence
  <2>1. /\ step = "access" /\ core' = core /\ coherence = "none" /\ core = {}
        /\ graph' = graph /\ stage' = stage /\ input' = input /\ UNCHANGED vars
        /\ step' \in {"failed", "realized", "core"}
        /\ step' = "core" => stage.kind # "coherence"
    BY <1>4 DEF AnswerCoherence, AInv, checkVars, skeletonVars, vars
  <2>2. ChildInv'
    BY <1>4, <2>1, AnswerKeepsChild DEF AInv
  <2>3. Attempted'
    BY <2>1 DEF AInv, Attempted, Skeleton, ExecutionOf, Scheduled, InputOf
  <2>4. CInv' /\ Settled(model, graph)'
    BY <2>1, CheckStutters, SettledIsKept DEF AInv, vars
  <2>5. coherence' = "feasible" => Answered'
    BY <1>4, <2>1, AnswerStands DEF AInv
  <2>6. CoreInv'
    BY <2>1 DEF CoreInv
  <2> QED
    BY <2>1, <2>2, <2>3, <2>4, <2>5, <2>6 DEF AInv
<1>5. CASE CoreFails
  <2>1. SameChild /\ step' = "failed" /\ step = "core" /\ UNCHANGED vars
    BY <1>5 DEF CoreFails, checkVars, skeletonVars, vars, SameChild
  <2>2. CInv' /\ Settled(model, graph)'
    BY <2>1, CheckStutters, SettledIsKept DEF AInv, vars, SameChild
  <2> QED
    BY <2>1, <2>2, SameChildKeeps DEF AInv, SameChild
<1>6. CASE Retire
  <2>1. SameChild /\ step' = step /\ step = "core" /\ UNCHANGED vars
    BY <1>6 DEF Retire, checkVars, skeletonVars, vars, SameChild
  <2>2. CInv' /\ Settled(model, graph)'
    BY <2>1, CheckStutters, SettledIsKept DEF AInv, vars, SameChild
  <2>3. CoreInv'
    BY <1>6, <2>1, RetireKeepsCore DEF AInv
  <2> QED
    BY <2>1, <2>2, <2>3, SameChildKeeps DEF AInv, SameChild
<1>7. CASE Show
  <2>1. SameChild /\ step' = "merge" /\ step = "core" /\ UNCHANGED vars
    BY <1>7 DEF Show, checkVars, skeletonVars, vars, SameChild
  <2>2. CInv' /\ Settled(model, graph)'
    BY <2>1, CheckStutters, SettledIsKept DEF AInv, vars, SameChild
  <2>3. CoreInv' /\ core' # {} /\ Unretired' = {}
    BY <1>7, <2>1, ShowKeepsCore DEF AInv
  <2> QED
    BY <2>1, <2>2, <2>3, SameChildKeeps DEF AInv, SameChild
<1>8. CASE Merge
  <2>1. SameChild /\ step = "merge"
    BY <1>8 DEF Merge, skeletonVars, SameChild
  <2>2. Confirmed' /\ step' = "retired"
    BY <1>8, <2>1, MergeConfirms DEF AInv
  <2>3. CInv' /\ Settled(model, graph)'
    BY <2>2 DEF Confirmed
  <2> QED
    BY <2>1, <2>2, <2>3, SameChildKeeps DEF AInv, SameChild
<1>9. CASE Conclusion
  <2>1. SameChild /\ step = "retired" /\ UNCHANGED vars
    BY <1>9 DEF Conclusion, checkVars, skeletonVars, vars, SameChild
  <2>2. phase # "error" /\ step' \in {"realized", "failed"}
    BY <1>9, <2>1 DEF AInv, Confirmed, Conclusion
  <2>3. CInv' /\ Settled(model, graph)'
    BY <2>1, CheckStutters, SettledIsKept DEF AInv, vars, SameChild
  <2> QED
    BY <2>1, <2>2, <2>3, SameChildKeeps DEF AInv, SameChild
<1> QED
  BY <1>1, <1>2, <1>3, <1>4, <1>5, <1>6, <1>7, <1>8, <1>9 DEF AttemptNext

LEMMA AInvariance ==
    ASSUME \A c \in Checks : \E raw \in RawPrograms : c.trace = ArchitectureTrace(raw)
    PROVE  AttemptSpec => []AInv
<1>1. ASSUME AttemptInit PROVE AInv
  <2>1. PICK c \in Checks : trace = c.trace
    BY <1>1 DEF AttemptInit, Init
  <2>2. PICK raw \in RawPrograms : trace = ArchitectureTrace(raw)
    BY <2>1
  <2>3. Supported(trace)
    BY <2>2, ProgramsAreOrdinary
  <2>4. Bare(trace)
    BY <2>2 DEF Bare, ArchitectureTrace, HintNames
  <2>5. CInv
    BY <1>1, <2>3, <2>4 DEF AttemptInit, Init, CInv, SInv, Typed, Projected, Fresh, Enumerated, Concluded,
                             ProjectedWell, ChosenWell
  <2>6. Searched
    BY <2>2 DEF Searched
  <2> QED
    BY <1>1, <2>5, <2>6 DEF AttemptInit, AInv
<1>2. ASSUME AInv, [AttemptNext]_allVars PROVE AInv'
  BY <1>2, AttemptKeepsAInv, CheckingKeepsAInv DEF allVars
<1> QED
  BY <1>1, <1>2, PTL DEF AttemptSpec

\* Whatever the children answer and the core adds, the adapter merges what retires without a
\* conflict and the second check, _check_completed_architecture, refuses nothing and confirms the
\* verdict, for every bound, stage and memory model.
THEOREM RetiredIsTheSkeleton ==
    ASSUME \A c \in Checks : \E raw \in RawPrograms : c.trace = ArchitectureTrace(raw)
    PROVE  AttemptSpec => []RetiresTheSkeleton
<1>1. ASSUME AInv PROVE RetiresTheSkeleton
  BY <1>1, ConfirmedIsSame DEF AInv, RetiresTheSkeleton, Confirmed
<1> QED
  BY <1>1, AInvariance, PTL

\* The order in which the memory performs the stores is constrained by nothing and is an
\* execution of the program with the reads the skeleton wants: when the verdict is forbidden,
\* what the coherence child of _realize_coherence performed is forbidden too.
THEOREM PerformedIsForbidden ==
    ASSUME \A c \in Checks : \E raw \in RawPrograms : c.trace = ArchitectureTrace(raw)
    PROVE  AttemptSpec => []RealizedIsForbidden
<1>1. ASSUME AInv PROVE RealizedIsForbidden
  <2> SUFFICES ASSUME coherence = "feasible", step \in {"core", "realized"}, graph.verdict = "forbidden",
                      ops = graph.ops
               PROVE  ~ Passes(Execution)
    BY DEF RealizedIsForbidden
  <2>1. Execution \in ExecutionsOf(graph.ops)
    BY <1>1, ExecutionIsOne DEF AInv, Answered
  <2>2. ~ PassesOf(NoHints, model, graph.ops, Execution)
    BY <1>1, <2>1 DEF AInv, Settled
  <2>3. \A c : Passes(c) <=> PassesOf(NoHints, model, ops, c)
    BY <1>1, BareMeaning DEF AInv, CInv
  <2> QED
    BY <2>2, <2>3
<1> QED
  BY <1>1, AInvariance, PTL

-----------------------------------------------------------------------------
(* The coherent memory. *)

\* What is performed is a prefix of the order, and the memory holds the last write of it.
MemoryOf(order) ==
    /\ \A i, j \in DOMAIN order : j < i /\ order[i] \in Performed => order[j] \in Performed
    /\ DOMAIN cache.writer = {graph.ops[o].address : o \in Ids(graph.ops)}
    /\ \A w \in Writes(graph.ops) :
        LET last == cache.writer[graph.ops[w].address] IN
        /\ last \in Writes(graph.ops) /\ graph.ops[last].address = graph.ops[w].address
        /\ last \in Dynamic(graph) => last \in Performed
        /\ w \in Performed => last \in Dynamic(graph) /\ Position(order, w) <= Position(order, last)

ReadsRight == \A e \in Results(child) : e.type = "load_result" => <<e.source, e.op>> \in graph.rf

LEMMA ReadsTheSource ==
    ASSUME Skeleton(graph), NEW order \in SetToSeqs(Dynamic(graph)), Respects(order, Preferred(graph)),
           MemoryOf(order), NEW i \in DOMAIN order, order[i] \in Reads(graph.ops),
           \A k \in DOMAIN order : order[k] \in Performed <=> k < i
    PROVE  <<cache.writer[graph.ops[order[i]].address], order[i]>> \in graph.rf
<1> DEFINE o == graph.ops
           r == order[i]
           A == o[r].address
           w == cache.writer[A]
<1>1. /\ IsFiniteSet(Dynamic(graph))
      /\ \A e \in graph.rf : o[e[1]].address = o[e[2]].address
      /\ \A v \in Reads(o) : \E u \in Writes(o) : <<u, v>> \in graph.rf
      /\ \A u, v \in Writes(o) : u # v /\ o[u].address = o[v].address =>
            (<<u, v>> \in graph.co <=> <<v, u>> \notin graph.co)
      /\ \A u, v \in Writes(o) : o[u].kind = "init_write" /\ u # v /\ o[u].address = o[v].address => <<u, v>> \in graph.co
  BY SkeletonParts
<1>2. r \in Dynamic(graph) /\ Position(order, r) = i
  <2>1. r \in Dynamic(graph)
    BY <1>1, OrderingsOf
  <2> QED
    BY <1>1, <2>1, Positions
<1>3. PICK s \in Writes(o) : <<s, r>> \in graph.rf
  BY <1>1
<1>4. o[s].address = A
  BY <1>1, <1>3
<1>5. /\ w \in Writes(o) /\ o[w].address = A
      /\ w \in Dynamic(graph) => w \in Performed
      /\ s \in Performed => w \in Dynamic(graph) /\ Position(order, s) <= Position(order, w)
  BY <1>3, <1>4 DEF MemoryOf
<1> HIDE DEF r, A, w
<1>6. \A u \in Writes(o) : u \notin Dynamic(graph) => o[u].kind = "init_write"
  BY DEF Writes, Dynamic
<1>7. ASSUME NEW u \in Dynamic(graph)
      PROVE  /\ Position(order, u) \in Nat
             /\ u \in Performed <=> Position(order, u) < i
  <2>1. Position(order, u) \in DOMAIN order /\ order[Position(order, u)] = u /\ Position(order, u) \in Nat
    BY <1>1, PositionOf
  <2> QED
    BY <2>1
<1>8. CASE w = s
  BY <1>3, <1>8 DEF r, w, A
<1>9. CASE w # s
  <2>1. CASE <<s, w>> \in graph.co
    <3>1. w \in Dynamic(graph)
      BY <1>1, <1>3, <1>4, <1>5, <1>6, <1>9, <2>1
    <3>2. <<r, w>> \in Fr(o, graph)
      <4>1. r \in Reads(o) /\ r # w
        BY <1>5, <1>7, <3>1, <1>2 DEF r
      <4> QED
        BY <1>3, <1>5, <2>1, <4>1 DEF Fr
    <3>3. <<r, w>> \in Preferred(graph)
      BY <1>2, <3>1, <3>2 DEF Preferred
    <3>4. Position(order, r) < Position(order, w)
      BY <3>3 DEF Respects
    <3> QED
      BY <1>2, <1>5, <1>7, <3>1, <3>4
  <2>2. CASE <<w, s>> \in graph.co
    <3>1. s \in Dynamic(graph)
      BY <1>1, <1>3, <1>4, <1>5, <1>6, <1>9, <2>2
    <3>2. <<s, r>> \in Preferred(graph)
      BY <1>2, <1>3, <3>1 DEF Preferred
    <3>3. Position(order, s) < i
      BY <1>2, <3>2 DEF Respects
    <3>4. w \in Dynamic(graph) /\ Position(order, s) <= Position(order, w)
      BY <1>5, <1>7, <3>1, <3>3
    <3>5. <<w, s>> \in Preferred(graph)
      BY <2>2, <3>1, <3>4 DEF Preferred
    <3>6. Position(order, w) < Position(order, s)
      BY <3>5 DEF Respects
    <3> QED
      BY <1>7, <3>1, <3>4, <3>6
  <2> QED
    BY <1>1, <1>3, <1>4, <1>5, <1>9, <2>1, <2>2
<1> QED
  BY <1>8, <1>9

\* A step of the memory, as it is seen by the memory alone.
LEMMA PerformParts ==
    ASSUME Attempted, ChildInv, coherence = "none", Perform,
           NEW order \in SetToSeqs(Dynamic(graph)), NEW c, InputOf(order, c), MemoryOf(order)
    PROVE  \E i, a :
            /\ i \in DOMAIN order
            /\ a.op = order[i] /\ a.op \in Dynamic(graph)
            /\ a.address = graph.ops[a.op].address /\ a.kind = graph.ops[a.op].kind
            /\ \A k \in DOMAIN order : order[k] \in Performed <=> k < i
            /\ Results(child') = Results(child) \cup {Result(a)}
            /\ Performed' = Performed \cup {a.op}
            /\ cache'.writer = (IF a.kind = "read" THEN cache.writer ELSE [cache.writer EXCEPT ![a.address] = a.op])
<1>1. PICK a \in {e \in child : e.type = "access"} :
        /\ a.op \notin Performed
        /\ a.after \in Performed \cup {NoAccess}
        /\ \E spurious \in SUBSET {Acquire(a), Probe(a, a.hart)} :
            child' = child \cup {Result(a)} \cup spurious
                     \cup (IF Hit(a) THEN {} ELSE {Acquire(a), Grant(a)} \cup {Probe(a, h) : h \in Probed(a)})
        /\ cache'.writer = (IF a.kind = "read" THEN cache.writer ELSE [cache.writer EXCEPT ![a.address] = a.op])
  <2> DEFINE perm(a) == [h \in DOMAIN cache.perm |-> [cache.perm[h] EXCEPT ![a.address] =
                                CASE h = a.hart -> IF a.kind = "write" THEN "T" ELSE IF @ = "N" THEN "B" ELSE @
                                  [] h \in Probed(a) -> IF a.kind = "read" THEN "B" ELSE "N"
                                  [] OTHER -> @]]
             writer(a) == IF a.kind = "read" THEN cache.writer ELSE [cache.writer EXCEPT ![a.address] = a.op]
  <2>1. PICK a \in {e \in child : e.type = "access"} :
        /\ a.op \notin Performed
        /\ a.after \in Performed \cup {NoAccess}
        /\ \E spurious \in SUBSET {Acquire(a), Probe(a, a.hart)} :
            child' = child \cup {Result(a)} \cup spurious
                     \cup (IF Hit(a) THEN {} ELSE {Acquire(a), Grant(a)} \cup {Probe(a, h) : h \in Probed(a)})
        /\ cache' = [writer |-> writer(a), perm |-> perm(a)]
    BY Zenon DEF Perform
  <2> HIDE DEF perm, writer
  <2>2. cache'.writer = writer(a)
    BY <2>1
  <2> QED
    BY <2>1, <2>2 DEF writer
<1>2. Shift = 0
  BY DEF Shift
<1>3. a \in InputAccesses
  <2>1. InjectedAccess(a)
    BY <1>1, ChildEvents
  <2> QED
    BY <1>2, <2>1 DEF InjectedAccess
<1>4. Skeleton(graph) /\ stage \in Stages
  BY DEF Attempted
<1>5. PICK i \in DOMAIN order : /\ a = AccessOf(order, i) /\ a.op = order[i] /\ a.op \in Dynamic(graph)
                                /\ a.address = graph.ops[a.op].address /\ a.kind = graph.ops[a.op].kind
  BY <1>3, <1>4, AccessParts
<1>6. /\ DOMAIN order = 1 .. Cardinality(Dynamic(graph)) /\ Cardinality(Dynamic(graph)) \in Nat
      /\ \A j, k \in DOMAIN order : order[j] = order[k] => j = k
      /\ \A k \in DOMAIN order : order[k] \in Dynamic(graph)
  BY <1>4, AccessParts
<1>7. Dynamic(graph) \in SUBSET (Nat \ {0})
  BY <1>4, SkeletonParts
<1>8. i = 1 \/ order[i - 1] \in Performed
  <2> SUFFICES ASSUME i # 1 PROVE order[i - 1] \in Performed
    OBVIOUS
  <2>1. a.after = order[i - 1]
    BY <1>5 DEF AccessOf
  <2>2. i - 1 \in DOMAIN order
    BY <1>6
  <2>3. order[i - 1] # 0
    BY <1>6, <1>7, <2>2
  <2> QED
    BY <1>1, <2>1, <2>3 DEF NoAccess
<1>9. ASSUME NEW k \in DOMAIN order
      PROVE  order[k] \in Performed <=> k < i
  <2>1. CASE k < i
    <3>1. i # 1 /\ i - 1 \in DOMAIN order /\ (k = i - 1 \/ k < i - 1)
      BY <1>6, <2>1
    <3> QED
      BY <1>8, <2>1, <3>1 DEF MemoryOf
  <2>2. CASE k = i
    BY <1>1, <1>5, <1>6, <2>2
  <2>3. CASE i < k
    BY <1>1, <1>5, <1>6, <2>3 DEF MemoryOf
  <2> QED
    BY <1>6, <2>1, <2>2, <2>3
<1>10. Results(child') = Results(child) \cup {Result(a)}
  <2>1. Acquire(a).type = "acquire" /\ Grant(a).type = "grant" /\ \A h : Probe(a, h).type = "probe"
    BY DEF Acquire, Grant, Probe
  <2>2. Result(a).type \in {"load_result", "store_result"}
    BY DEF Result
  <2>3. \A e : e \in child' <=> \/ e \in child \/ e = Result(a)
                                \/ e \in child' /\ (e = Acquire(a) \/ e = Grant(a) \/ \E h : e = Probe(a, h))
    BY <1>1
  <2>4. \A e : e \in Results(child') <=> e \in Results(child) \/ e = Result(a)
    BY <2>1, <2>2, <2>3 DEF Results
  <2> QED
    BY <2>4
<1>11. Performed' = Performed \cup {a.op}
  <2>1. Result(a).op = a.op
    BY DEF Result
  <2>2. Performed' = {e.op : e \in Results(child')} /\ Performed = {e.op : e \in Results(child)}
    BY DEF Performed, Results
  <2> QED
    BY <1>10, <2>1, <2>2
<1> QED
  BY <1>1, <1>5, <1>9, <1>10, <1>11

LEMMA PerformKeepsMemory ==
    ASSUME Attempted, ChildInv, coherence = "none", Perform,
           NEW order \in SetToSeqs(Dynamic(graph)), NEW c, InputOf(order, c), MemoryOf(order)
    PROVE  /\ MemoryOf(order)'
           /\ Respects(order, Preferred(graph)) /\ ReadsRight => ReadsRight'
<1>1. PICK i, a :
            /\ i \in DOMAIN order
            /\ a.op = order[i] /\ a.op \in Dynamic(graph)
            /\ a.address = graph.ops[a.op].address /\ a.kind = graph.ops[a.op].kind
            /\ \A k \in DOMAIN order : order[k] \in Performed <=> k < i
            /\ Results(child') = Results(child) \cup {Result(a)}
            /\ Performed' = Performed \cup {a.op}
            /\ cache'.writer = (IF a.kind = "read" THEN cache.writer ELSE [cache.writer EXCEPT ![a.address] = a.op])
  BY PerformParts, Zenon
<1>2. graph' = graph /\ Skeleton(graph) /\ stage \in Stages
  BY DEF Attempted, Perform, skeletonVars
<1>3. /\ IsFiniteSet(Dynamic(graph)) /\ Dynamic(graph) \subseteq Ids(graph.ops)
      /\ \A j, k \in DOMAIN order : order[j] = order[k] => j = k
  <2>1. \A j, k \in DOMAIN order : order[j] = order[k] => j = k
    BY <1>2, AccessParts
  <2> QED
    BY <1>2, <2>1, SkeletonParts DEF Dynamic
<1>4. \A u \in Dynamic(graph) : /\ Position(order, u) \in DOMAIN order /\ order[Position(order, u)] = u
                                /\ Position(order, u) \in Nat
  BY <1>3, PositionOf
<1>5. Position(order, a.op) = i
  BY <1>1, <1>3, Positions
<1>6. \A u \in Dynamic(graph) : u \in Performed <=> Position(order, u) < i
  BY <1>1, <1>4
<1>7. /\ Writes(graph.ops) \subseteq Ids(graph.ops) /\ Reads(graph.ops) \subseteq Ids(graph.ops)
      /\ \A o \in Ids(graph.ops) : (o \in Reads(graph.ops) <=> graph.ops[o].kind = "read")
                                   /\ (o \in Writes(graph.ops) <=> graph.ops[o].kind # "read")
  BY <1>2, ProgrammedParts DEF Skeleton, Writes, Reads
<1>8. Performed \subseteq Dynamic(graph)
  <2> SUFFICES ASSUME NEW e \in Results(child) PROVE e.op \in Dynamic(graph)
    BY DEF Performed
  <2>1. AnsweredResult(e, Shift)
    BY ChildEvents DEF Results
  <2> QED
    BY <1>2, <2>1, ChildShapes
<1>9. \A k, j \in DOMAIN order : j < k /\ order[k] \in Performed' => order[j] \in Performed'
  <2> SUFFICES ASSUME NEW k \in DOMAIN order, NEW j \in DOMAIN order, j < k, order[k] \in Performed'
               PROVE  order[j] \in Performed'
    BY Zenon
  <2>1. CASE order[k] \in Performed
    BY <1>1, <2>1 DEF MemoryOf
  <2>2. CASE order[k] = a.op
    BY <1>1, <1>3, <2>2
  <2> QED
    BY <1>1, <2>1, <2>2
<1>10. DOMAIN cache'.writer = {graph.ops[o].address : o \in Ids(graph.ops)}
  BY <1>1 DEF MemoryOf
<1>11. ASSUME NEW w \in Writes(graph.ops)
       PROVE  LET last == cache'.writer[graph.ops[w].address] IN
                /\ last \in Writes(graph.ops) /\ graph.ops[last].address = graph.ops[w].address
                /\ last \in Dynamic(graph) => last \in Performed'
                /\ w \in Performed' => last \in Dynamic(graph) /\ Position(order, w) <= Position(order, last)
  <2> DEFINE old == cache.writer[graph.ops[w].address]
             last == cache'.writer[graph.ops[w].address]
  <2>1. /\ old \in Writes(graph.ops) /\ graph.ops[old].address = graph.ops[w].address
        /\ old \in Dynamic(graph) => old \in Performed
        /\ w \in Performed => old \in Dynamic(graph) /\ Position(order, w) <= Position(order, old)
    BY DEF MemoryOf
  <2>2. CASE a.kind = "read" \/ a.address # graph.ops[w].address
    <3>1. last = old
      BY <1>1, <2>2
    <3>2. w # a.op
      BY <1>1, <1>7, <2>2
    <3> QED
      BY <1>1, <2>1, <3>1, <3>2
  <2>3. CASE a.kind # "read" /\ a.address = graph.ops[w].address
    <3>1. graph.ops[w].address \in DOMAIN cache.writer
      BY <1>7 DEF MemoryOf
    <3>2. last = a.op
      BY <1>1, <2>3, <3>1
    <3>3. a.op \in Writes(graph.ops)
      BY <1>1, <1>3, <1>7, <2>3
    <3>4. w \in Performed' => Position(order, w) <= i
      <4>1. CASE w = a.op
        BY <1>1, <1>4, <1>5, <4>1
      <4>2. CASE w \in Performed
        <5>1. w \in Dynamic(graph) /\ Position(order, w) < i
          BY <1>6, <1>8, <4>2
        <5>2. Position(order, w) \in Nat /\ i \in Nat
          BY <1>1, <1>4, <1>5, <5>1
        <5> QED
          BY <5>1, <5>2
      <4> QED
        BY <1>1, <4>1, <4>2
    <3> QED
      BY <1>1, <1>5, <2>3, <3>2, <3>3, <3>4
  <2> QED
    BY <2>2, <2>3
<1>12. MemoryOf(order)'
  BY <1>2, <1>9, <1>10, <1>11 DEF MemoryOf
<1>13. ASSUME Respects(order, Preferred(graph)), ReadsRight
       PROVE  ReadsRight'
  <2>1. Result(a).type = "load_result" => a.kind = "read" /\ Result(a).source = cache.writer[a.address]
    BY DEF Result
  <2>2. Result(a).op = a.op
    BY DEF Result
  <2>3. a.kind = "read" => <<cache.writer[a.address], a.op>> \in graph.rf
    <3> SUFFICES ASSUME a.kind = "read" PROVE <<cache.writer[a.address], a.op>> \in graph.rf
      OBVIOUS
    <3>1. order[i] \in Reads(graph.ops)
      BY <1>1, <1>3, <1>7
    <3> QED
      BY <1>1, <1>2, <1>13, <3>1, ReadsTheSource
  <2>4. Result(a).type = "load_result" => <<Result(a).source, Result(a).op>> \in graph.rf
    BY <2>1, <2>2, <2>3
  <2> QED
    BY <1>1, <1>2, <1>13, <2>4 DEF ReadsRight
<1> QED
  BY <1>12, <1>13

\* An attempt with its memory: the order of the accesses is the schedule's.
Ordered(order, c) == InputOf(order, c) /\ (number = 1 => Respects(order, Preferred(graph))) /\ MemoryOf(order)

FInv ==
    /\ AInv
    /\ step = "access" => \E order \in SetToSeqs(Dynamic(graph)) : \E c : Ordered(order, c)
    /\ step = "access" /\ number = 1 => ReadsRight
    /\ coherence = "infeasible" => number # 1

LEMMA BeginIsOrdered ==
    ASSUME AInv, Begin
    PROVE  (\E order \in SetToSeqs(Dynamic(graph)) : \E c : Ordered(order, c))' /\ ReadsRight'
<1>1. /\ CInv /\ Searched /\ stage \in Stages /\ coherence = "none"
  BY DEF AInv, Begin
<1>2. /\ Attempted' /\ Results(child') = {}
      /\ cache'.writer = [a \in {graph'.ops[o].address : o \in Ids(graph'.ops)} |-> InitialOf(graph', a)]
  BY <1>1, BeginIsAttempted
<1>3. PICK order, c :
            /\ order \in SetToSeqs(Dynamic(graph'))
            /\ input' = InputTrace(graph', stage', order, c)
            /\ number' = 1 => Respects(order, Preferred(graph'))
  BY <1>1, BeginIsAttempted
<1> DEFINE o == graph'.ops
           A == {o[i].address : i \in Ids(o)}
<1>4. Programmed(o)
  BY <1>2 DEF Attempted, Skeleton
<1>5. ASSUME NEW a \in A
      PROVE  /\ InitialOf(graph', a) \in Writes(o) /\ o[InitialOf(graph', a)].address = a
             /\ InitialOf(graph', a) \notin Dynamic(graph')
  <2>1. \E w \in Ids(o) : o[w].kind = "init_write" /\ o[w].address = a
    BY <1>4 DEF Programmed
  <2> DEFINE w == InitialOf(graph', a)
  <2>2. w \in Ids(o) /\ o[w].kind = "init_write" /\ o[w].address = a
    BY <2>1 DEF InitialOf
  <2> HIDE DEF w
  <2>3. w \in Writes(o) /\ w \notin Dynamic(graph')
    BY <2>2 DEF Writes, IsWrite, Dynamic
  <2> QED
    BY <2>2, <2>3 DEF w
<1>6. Performed' = {}
  BY <1>2 DEF Performed
<1>7. MemoryOf(order)'
  <2>1. ASSUME NEW w \in Writes(o)
        PROVE  LET last == cache'.writer[o[w].address] IN
                /\ last \in Writes(o) /\ o[last].address = o[w].address /\ last \notin Dynamic(graph')
    <3>1. o[w].address \in A
      BY DEF Writes
    <3>2. cache'.writer[o[w].address] = InitialOf(graph', o[w].address)
      BY <1>2, <3>1
    <3> QED
      BY <1>5, <3>1, <3>2
  <2>2. DOMAIN cache'.writer = A
    BY <1>2
  <2> QED
    BY <1>6, <2>1, <2>2 DEF MemoryOf
<1>8. Ordered(order, c)'
  BY <1>3, <1>7 DEF Ordered, InputOf
<1>9. ReadsRight'
  BY <1>2 DEF ReadsRight
<1> QED
  BY <1>3, <1>8, <1>9

\* What the memory of the first schedule answers is what the skeleton wants.
LEMMA FirstIsAnswered ==
    ASSUME Attempted, ChildInv, Performed = Dynamic(graph), ReadsRight
    PROVE  CoherenceObligations(graph, child)
<1> SUFFICES ASSUME NEW o \in Dynamic(graph)
             PROVE  \E e \in Results(child) :
                        /\ e.op = o /\ e.address = graph.ops[o].address /\ e.value = graph.ops[o].value
                        /\ IF o \in DynamicReads(graph) THEN e.type = "load_result" /\ <<e.source, o>> \in graph.rf
                           ELSE e.type = "store_result" /\ e.source = o
  BY DEF CoherenceObligations
<1> DEFINE e == ResultAt(o)
<1>1. /\ e \in Results(child) /\ e.op = o /\ AnsweredResult(e, Shift)
      /\ e.type = "load_result" <=> graph.ops[o].kind = "read"
      /\ e.type \in {"load_result", "store_result"}
      /\ e.address = graph.ops[o].address
  BY ResultsAreOne
<1> HIDE DEF e
<1>2. Skeleton(graph)
  BY DEF Attempted
<1>3. /\ e.type = "store_result" => e.source = e.op /\ e.value = graph.ops[e.op].value
      /\ e.type = "load_result" => e.value = StoredValue(graph.ops[e.source])
  BY <1>1, <1>2, ChildShapes DEF Attempted, Scheduled
<1>4. o \in DynamicReads(graph) <=> graph.ops[o].kind = "read"
  BY <1>2, ProgrammedParts DEF Skeleton, Dynamic, DynamicReads
<1>5. CASE o \in DynamicReads(graph)
  <2>1. e.type = "load_result" /\ <<e.source, o>> \in graph.rf
    BY <1>1, <1>4, <1>5 DEF ReadsRight
  <2>2. e.source \in Writes(graph.ops) /\ graph.ops[e.source].value = graph.ops[o].value
    <3>1. \A x \in graph.rf : x \in Writes(graph.ops) \X Reads(graph.ops) /\ graph.ops[x[1]].value = graph.ops[x[2]].value
      BY <1>2, SkeletonParts
    <3> QED
      BY <2>1, <3>1
  <2>3. StoredValue(graph.ops[e.source]) = graph.ops[e.source].value
    BY <1>2, <2>2, ProgrammedParts DEF Skeleton, Writes
  <2> QED
    BY <1>1, <1>3, <1>5, <2>1, <2>2, <2>3
<1>6. CASE o \notin DynamicReads(graph)
  BY <1>1, <1>3, <1>4, <1>6
<1> QED
  BY <1>5, <1>6

LEMMA AttemptKeepsFInv ==
    ASSUME FInv, [AttemptNext]_allVars
    PROVE  FInv'
<1>1. AInv /\ AInv'
  BY AttemptKeepsAInv, CheckingKeepsAInv DEF FInv, allVars
<1>2. CASE Begin
  BY <1>1, <1>2, BeginIsOrdered DEF FInv, AInv, Begin
<1>3. CASE Perform
  <2>1. /\ step = "access" /\ step' = step /\ coherence' = coherence /\ coherence = "none"
        /\ graph' = graph /\ stage' = stage /\ input' = input /\ number' = number
        /\ Attempted /\ ChildInv
    BY <1>1, <1>3 DEF Perform, skeletonVars, AInv
  <2>2. PICK order, c : order \in SetToSeqs(Dynamic(graph)) /\ Ordered(order, c)
    BY <2>1 DEF FInv
  <2>3. /\ MemoryOf(order)'
        /\ Respects(order, Preferred(graph)) /\ ReadsRight => ReadsRight'
    BY <1>3, <2>1, <2>2, PerformKeepsMemory DEF Ordered
  <2>4. Ordered(order, c)'
    BY <2>1, <2>2, <2>3 DEF Ordered, InputOf
  <2>5. (\E ord \in SetToSeqs(Dynamic(graph)) : \E d : Ordered(ord, d))'
    BY <2>1, <2>2, <2>4
  <2>6. number' = 1 => ReadsRight'
    BY <2>1, <2>2, <2>3 DEF FInv, Ordered
  <2> QED
    BY <1>1, <2>1, <2>5, <2>6 DEF FInv
<1>4. CASE AnswerCoherence
  <2>1. /\ step = "access" /\ step' # "access" /\ number' = number /\ Attempted /\ ChildInv
    BY <1>1, <1>4 DEF AnswerCoherence, skeletonVars, AInv
  <2>2. number = 1 => CoherenceObligations(graph, child)
    BY <1>4, <2>1, FirstIsAnswered DEF FInv, AnswerCoherence
  <2>3. coherence' = "infeasible" => number' # 1
    BY <1>4, <2>1, <2>2 DEF AnswerCoherence
  <2> QED
    BY <1>1, <2>1, <2>3 DEF FInv
<1>5. CASE CoreFails \/ Retire \/ Show \/ Merge \/ Conclusion
  <2>1. step' # "access" /\ coherence' = coherence /\ number' = number
    BY <1>5 DEF CoreFails, Retire, Show, Merge, Conclusion, skeletonVars
  <2> QED
    BY <1>1, <2>1 DEF FInv
<1>6. CASE UNCHANGED attemptVars
  <2>1. /\ step' = step /\ coherence' = coherence /\ number' = number /\ graph' = graph /\ child' = child
        /\ input' = input /\ stage' = stage /\ cache' = cache
    BY <1>6 DEF attemptVars
  <2>2. Performed' = Performed /\ (ReadsRight => ReadsRight')
    BY <2>1 DEF Performed, ReadsRight
  <2>3. ASSUME NEW order, NEW c, Ordered(order, c) PROVE Ordered(order, c)'
    BY <2>1, <2>2, <2>3 DEF Ordered, InputOf, MemoryOf
  <2>4. (\E order \in SetToSeqs(Dynamic(graph)) : \E c : Ordered(order, c)) =>
            (\E order \in SetToSeqs(Dynamic(graph)) : \E c : Ordered(order, c))'
    BY <2>1, <2>3
  <2> QED
    BY <1>1, <2>1, <2>2, <2>4 DEF FInv
<1> QED
  BY <1>2, <1>3, <1>4, <1>5, <1>6 DEF AttemptNext, Checking, allVars

\* The first of the candidate schedules needs no second one: it violates no communication edge
\* (_candidate_schedules puts the orders with the fewest first, and one without any exists), so a
\* coherent memory that performs it answers every read as the skeleton wants, whatever the bounds.
THEOREM FirstScheduleSuffices ==
    ASSUME \A c \in Checks : \E raw \in RawPrograms : c.trace = ArchitectureTrace(raw)
    PROVE  AttemptSpec => []FirstScheduleExplains
<1>1. ASSUME AttemptInit, AInv PROVE FInv
  BY <1>1 DEF AttemptInit, FInv
<1>2. ASSUME FInv, [AttemptNext]_allVars PROVE FInv'
  BY <1>2, AttemptKeepsFInv
<1>3. FInv => FirstScheduleExplains
  BY DEF FInv, FirstScheduleExplains
<1> QED
  BY <1>1, <1>2, <1>3, AInvariance, PTL DEF AttemptSpec


-----------------------------------------------------------------------------
(* The report of a realized stage. *)

LEMMA AccessCycles ==
    ASSUME NEW g, IsFiniteSet(Dynamic(g)), NEW st \in Stages, st.cycle_start > 0,
           NEW order \in SetToSeqs(Dynamic(g)), NEW e \in Accesses(g, st, order)
    PROVE  e.type = "access" /\ e.cycle \in Nat /\ e.cycle > 0
<1>1. DOMAIN order = 1 .. Cardinality(Dynamic(g)) /\ Cardinality(Dynamic(g)) \in Nat
  BY OrderingsOf
<1>2. PICK i \in DOMAIN order : e.type = "access" /\ e.cycle = st.cycle_start + (i - 1) * st.cycle_stride
  BY DEF Accesses
<1>3. st.cycle_start \in Nat /\ st.cycle_stride \in Nat
  BY StagesAssumption
<1>4. i - 1 \in Nat
  BY <1>1
<1>5. (i - 1) * st.cycle_stride \in Nat
  BY <1>3, <1>4
<1> HIDE DEF Cardinality
<1> QED
  BY <1>2, <1>3, <1>5

LEMMA ChildTypes ==
    ASSUME Attempted, ChildInv, NEW e \in child
    PROVE  e.type \in {"line_init", "access", "load_result", "store_result"} \cup Traffic
<1>1. PICK order, c : order \in SetToSeqs(Dynamic(graph)) /\ InputOf(order, c)
  BY DEF Attempted, Scheduled
<1>2. Skeleton(graph) /\ stage \in Stages
  BY DEF Attempted
<1>3. e \in Lines(graph) \/ InjectedAccess(e) \/ AnsweredResult(e, Shift) \/ OwnTraffic(e, Shift, Performed)
  BY DEF ChildInv
<1> QED
  BY <1>1, <1>2, <1>3, ChildShapes

\* What the core's trace has of the child's and of the program.
LEMMA CoreTypes ==
    ASSUME Attempted, ChildInv, CoreInv, NEW e \in core
    PROVE  /\ e.type \in BridgeTypes => e \in child
           /\ e.type = "memory_instruction" => e \in input
<1>1. \/ e \in CoreSource
      \/ e \in child /\ e.type \in BridgeTypes
      \/ \E o \in Dynamic(graph) \ Unretired : e \in OwnSlots(o)
      \/ PathEvent(e)
  BY DEF CoreInv
<1>2. e \in CoreSource => e \in input /\ e.type \in {"init", "memory_instruction", "page_map"}
  BY DEF CoreSource
<1>3. ASSUME NEW o, e \in OwnSlots(o) PROVE e.type \in {"load", "store", "commit"}
  <2>1. SlotFacts(o, o, graph.ops[o].value)
    BY SlotsAreKnown, Zenon
  <2> QED
    BY <1>3, <2>1 DEF OwnSlots, SlotFacts
<1>4. PathEvent(e) => e.type \in {"tlb_miss", "mshr", "ldld", "recovery"}
  BY DEF PathEvent
<1> QED
  BY <1>1, <1>2, <1>3, <1>4 DEF BridgeTypes, Traffic

\* An instruction of the program, numbered within it.
LEMMA InstructionParts ==
    ASSUME Attempted, NEW i \in input, i.type = "memory_instruction"
    PROVE  /\ i.op \in Dynamic(graph) /\ i.hart = graph.ops[i.op].hart /\ i.index = graph.ops[i.op].index
           /\ i.cycle \in Nat /\ i.cycle <= Cardinality(Dynamic(graph))
<1>1. PICK order, c : order \in SetToSeqs(Dynamic(graph)) /\ InputOf(order, c)
  BY DEF Attempted, Scheduled
<1> DEFINE X == Accesses(graph, stage, order)
           P == Pages(graph, c)
<1>2. i \in Lines(graph) \cup X \cup InitWrites(graph) \cup Instructions(graph) \cup P
  BY <1>1 DEF InputOf, InputTrace
<1>3. i \notin X
  <2>1. \A e \in X : e.type = "access"
    BY DEF Accesses
  <2> HIDE DEF X
  <2> QED
    BY <2>1
<1>4. i \notin P
  <2>1. \A e \in P : e.type = "page_map"
    BY DEF Pages
  <2> HIDE DEF P
  <2> QED
    BY <2>1
<1>5. i \notin Lines(graph) /\ i \notin InitWrites(graph)
  <2>1. \A e \in Lines(graph) : e.type = "line_init"
    BY DEF Lines
  <2>2. \A e \in InitWrites(graph) : e.type = "init"
    BY DEF InitWrites
  <2> QED
    BY <2>1, <2>2
<1> HIDE DEF X, P
<1>6. i \in Instructions(graph)
  BY <1>2, <1>3, <1>4, <1>5
<1>7. PICK o \in Dynamic(graph) : /\ i.op = o /\ i.hart = graph.ops[o].hart /\ i.index = graph.ops[o].index
                                  /\ i.cycle = InstructionNumber(graph, o)
  BY <1>6 DEF Instructions
<1>8. IsFiniteSet(Dynamic(graph))
  BY SkeletonParts DEF Attempted
<1> DEFINE S == {p \in Dynamic(graph) : \/ graph.ops[p].hart < graph.ops[o].hart
                                        \/ graph.ops[p].hart = graph.ops[o].hart
                                            /\ graph.ops[p].index <= graph.ops[o].index}
<1>9. InstructionNumber(graph, o) = Cardinality(S)
  BY DEF InstructionNumber
<1>10. S \subseteq Dynamic(graph)
  OBVIOUS
<1> HIDE DEF S
<1>11. IsFiniteSet(S) /\ Cardinality(S) <= Cardinality(Dynamic(graph))
  BY <1>8, <1>10, FS_Subset
<1>12. Cardinality(S) \in Nat
  BY <1>11, FS_CardinalityType
<1> QED
  BY <1>7, <1>9, <1>11, <1>12

LEMMA MetByKind ==
    ASSUME NEW o, NEW events
    PROVE  /\ o.kind = "initial_value" /\ (\E e \in events : e.type = "line_init" /\ e.op = o.op /\ e.value = o.value) =>
                Met(o, events)
           /\ o.kind = "read_from" /\ (CHOOSE e \in Results(events) : e.op = o.op).source = o.source
                    /\ (CHOOSE e \in Results(events) : e.op = o.op).value = o.value => Met(o, events)
           /\ o.kind = "write_value" /\ (CHOOSE e \in Results(events) : e.op = o.op).value = o.value => Met(o, events)
           /\ /\ o.kind \in {"coherence_order", "from_read"}
              /\ \/ graph.ops[o.from].kind = "init_write"
                 \/ (CHOOSE e \in Results(events) : e.op = o.from).cycle < (CHOOSE e \in Results(events) : e.op = o.to).cycle
              => Met(o, events)
<1>1. CASE o.kind = "initial_value"
  BY <1>1, Zenon DEF Met
<1>2. CASE o.kind = "read_from"
  BY <1>2, Zenon DEF Met
<1>3. CASE o.kind = "write_value"
  BY <1>3, Zenon DEF Met
<1>4. CASE o.kind = "coherence_order"
  BY <1>4, Zenon DEF Met
<1>5. CASE o.kind = "from_read"
  BY <1>5, Zenon DEF Met
<1>6. CASE o.kind \notin {"initial_value", "read_from", "write_value", "coherence_order", "from_read"}
  BY <1>6
<1> QED
  BY <1>1, <1>2, <1>3, <1>4, <1>5, <1>6

\* The order in which an attempt performs the accesses.
Following(order, c) ==
    order \in SetToSeqs(Dynamic(graph)) /\ InputOf(order, c) /\ (number = 1 => Respects(order, Preferred(graph)))

\* Results come in the order of the accesses.
LEMMA ResultsFollow ==
    ASSUME Attempted, ChildInv, Performed = Dynamic(graph), NEW order, NEW c, Following(order, c),
           NEW o \in Dynamic(graph), NEW p \in Dynamic(graph), Position(order, o) < Position(order, p)
    PROVE  ResultAt(o).cycle < ResultAt(p).cycle
<1>1. Skeleton(graph) /\ stage \in Stages /\ order \in SetToSeqs(Dynamic(graph)) /\ InputOf(order, c)
  BY DEF Attempted, Following
<1>2. \A i, j \in DOMAIN order : Step(i) \in Nat /\ (order[i] = order[j] => i = j) /\ (i < j => Step(i) < Step(j))
  BY <1>1, AccessParts
<1>3. \A x \in Dynamic(graph) : Position(order, x) \in DOMAIN order /\ order[Position(order, x)] = x
  BY <1>1, SkeletonParts, PositionOf
<1>4. ASSUME NEW x \in Dynamic(graph)
      PROVE  ResultAt(x).cycle = Step(Position(order, x)) + 1 + Shift
  <2>1. ResultAt(x).op = x /\ AnsweredResult(ResultAt(x), Shift)
    BY ResultsAreOne
  <2> DEFINE r == ResultAt(x)
  <2>4. r.op = x /\ AnsweredResult(r, Shift)
    BY <2>1
  <2> HIDE DEF r
  <2>5. \E a \in InputAccesses : a.op = r.op /\ r.cycle = a.cycle + 1 + Shift
    BY <1>1, <2>4, ChildShapes
  <2>2. PICK a \in InputAccesses : a.op = x /\ ResultAt(x).cycle = a.cycle + 1 + Shift
    BY <2>4, <2>5 DEF r
  <2>3. PICK i \in DOMAIN order : a.op = order[i] /\ a.cycle = Step(i)
    BY <1>1, AccessParts
  <2>6. i = Position(order, x)
    BY <1>2, <1>3, <2>2, <2>3
  <2> QED
    BY <2>2, <2>3, <2>6
<1>5. Shift \in Nat
  BY DEF Shift, RetimeOffset
<1> DEFINE s == Step(Position(order, o))
           t == Step(Position(order, p))
<1>6. s \in Nat /\ t \in Nat /\ s < t
  BY <1>2, <1>3
<1> HIDE DEF s, t
<1>7. ResultAt(o).cycle = s + 1 + Shift /\ ResultAt(p).cycle = t + 1 + Shift
  BY <1>4 DEF s, t
<1> QED
  BY <1>5, <1>6, <1>7

LEMMA EdgesAreMet ==
    ASSUME Attempted, ChildInv, Answered, NEW order, NEW c, Following(order, c), number = 1,
           NEW e \in graph.co \cup Fr(graph.ops, graph)
    PROVE  graph.ops[e[1]].kind = "init_write" \/ ResultAt(e[1]).cycle < ResultAt(e[2]).cycle
<1> DEFINE o == graph.ops
<1>1. Skeleton(graph)
  BY DEF Attempted
<1>2. /\ graph.rf \subseteq Writes(o) \X Reads(o)
      /\ \A x \in graph.rf : o[x[1]].address = o[x[2]].address
      /\ graph.co \subseteq Writes(o) \X Writes(o)
      /\ \A x \in graph.co : x[1] # x[2] /\ o[x[1]].address = o[x[2]].address
      /\ \A v, w \in Writes(o) : v # w /\ o[v].address = o[w].address => (<<v, w>> \in graph.co <=> <<w, v>> \notin graph.co)
      /\ \A v, w \in Writes(o) :
            o[v].kind = "init_write" /\ v # w /\ o[v].address = o[w].address => <<v, w>> \in graph.co
  BY <1>1, SkeletonParts
<1>3. \A x \in graph.co : o[x[2]].kind # "init_write"
  <2> SUFFICES ASSUME NEW x \in graph.co, o[x[2]].kind = "init_write" PROVE FALSE
    OBVIOUS
  <2>1. /\ x[1] \in Writes(o) /\ x[2] \in Writes(o) /\ x = <<x[1], x[2]>>
        /\ x[1] # x[2] /\ o[x[1]].address = o[x[2]].address
    BY <1>2
  <2>2. <<x[2], x[1]>> \in graph.co /\ <<x[1], x[2]>> \in graph.co
    BY <1>2, <2>1
  <2> QED
    BY <1>2, <2>1, <2>2
<1>4. /\ e[1] \in Ids(o) /\ e[2] \in Ids(o) /\ o[e[2]].kind # "init_write"
  <2>1. CASE e \in graph.co
    BY <1>2, <1>3, <2>1 DEF Writes
  <2>2. CASE e \in Fr(o, graph)
    <3>1. PICK w : e[1] \in Reads(o) /\ e[2] \in Writes(o) /\ <<w, e[2]>> \in graph.co
      BY <2>2 DEF Fr
    <3>2. o[<<w, e[2]>>[2]].kind # "init_write"
      BY <1>3, <3>1
    <3> QED
      BY <3>1, <3>2 DEF Reads, Writes
  <2> QED
    BY <2>1, <2>2
<1>5. CASE o[e[1]].kind # "init_write"
  <2>1. e[1] \in Dynamic(graph) /\ e[2] \in Dynamic(graph)
    BY <1>4, <1>5 DEF Dynamic
  <2>2. e \in Preferred(graph)
    BY <2>1 DEF Preferred
  <2>3. Position(order, e[1]) < Position(order, e[2])
    BY <2>2 DEF Following, Respects
  <2> QED
    BY <2>1, <2>3, ResultsFollow DEF Answered
<1> QED
  BY <1>5

\* The obligations of the skeleton are met by what the memory performed.
LEMMA ObligationsAreMet ==
    ASSUME Attempted, ChildInv, Answered, NEW order, NEW c, Following(order, c), NEW x \in Obligations(graph),
           x.kind \in {"initial_value", "read_from", "write_value"} \/ number = 1
    PROVE  Met(x, child)
<1> DEFINE o == graph.ops
           initials == {[kind |-> "initial_value", op |-> w, value |-> o[w].value] : w \in Ids(o) \ Dynamic(graph)}
           sources == {[kind |-> "read_from", op |-> e[2], source |-> e[1], value |-> o[e[2]].value] : e \in graph.rf}
           values == {[kind |-> "write_value", op |-> w, value |-> o[w].value] : w \in Dynamic(graph) \ DynamicReads(graph)}
           orders == {[kind |-> "coherence_order", from |-> e[1], to |-> e[2]] : e \in graph.co}
           later == {[kind |-> "from_read", from |-> e[1], to |-> e[2]] : e \in Fr(o, graph)}
<1>1. Skeleton(graph) /\ Performed = Dynamic(graph) /\ CoherenceObligations(graph, child)
  BY DEF Attempted, Answered
<1>2. ASSUME NEW w \in Dynamic(graph)
      PROVE  /\ (CHOOSE e \in Results(child) : e.op = w) = ResultAt(w) /\ ResultAt(w).value = o[w].value
             /\ w \in DynamicReads(graph) => <<ResultAt(w).source, w>> \in graph.rf
  <2>1. PICK e \in Results(child) : /\ e.op = w /\ e.value = o[w].value
                                    /\ w \in DynamicReads(graph) => <<e.source, w>> \in graph.rf
    BY <1>1 DEF CoherenceObligations
  <2>2. e = ResultAt(w)
    BY <1>1, <2>1, ResultsAreOne
  <2> QED
    BY <2>1, <2>2 DEF ResultAt
<1>3. CASE x \in initials
  <2>1. PICK w \in Ids(o) \ Dynamic(graph) : x = [kind |-> "initial_value", op |-> w, value |-> o[w].value]
    BY <1>3
  <2> DEFINE l == [id |-> <<"line", w>>, type |-> "line_init", cycle |-> 0, op |-> w,
                   address |-> o[w].address, value |-> o[w].value]
  <2>2. l \in child
    <3>1. l \in Lines(graph)
      BY DEF Lines
    <3> QED
      BY <3>1 DEF ChildInv
  <2>3. l.type = "line_init" /\ l.op = x.op /\ l.value = x.value /\ x.kind = "initial_value"
    BY <2>1
  <2> HIDE DEF l
  <2> QED
    BY <2>2, <2>3, MetByKind
<1>4. CASE x \in sources
  <2>1. PICK e \in graph.rf : x = [kind |-> "read_from", op |-> e[2], source |-> e[1], value |-> o[e[2]].value]
    BY <1>4
  <2>2. x.kind = "read_from" /\ x.op = e[2] /\ x.source = e[1] /\ x.value = o[e[2]].value
    BY <2>1
  <2>3. /\ graph.rf \subseteq Writes(o) \X Reads(o)
        /\ \A r \in Reads(o) : \E w \in Writes(o) :
                <<w, r>> \in graph.rf /\ \A v \in Writes(o) : <<v, r>> \in graph.rf => v = w
    BY <1>1, SkeletonParts
  <2>4. e[1] \in Writes(o) /\ e[2] \in Reads(o) /\ e = <<e[1], e[2]>>
    BY <2>3
  <2>5. e[2] \in Dynamic(graph) /\ e[2] \in DynamicReads(graph)
    BY <2>4 DEF Dynamic, DynamicReads, Reads, IsRead
  <2>6. <<ResultAt(e[2]).source, e[2]>> \in graph.rf /\ ResultAt(e[2]).value = o[e[2]].value
    BY <1>2, <2>5
  <2>7. ResultAt(e[2]).source \in Writes(o)
    BY <2>3, <2>6
  <2>10. PICK w \in Writes(o) : \A v \in Writes(o) : <<v, e[2]>> \in graph.rf => v = w
    BY <2>3, <2>4
  <2>11. <<e[1], e[2]>> \in graph.rf
    BY <2>4
  <2>12. e[1] = w
    BY <2>4, <2>10, <2>11
  <2> DEFINE s == ResultAt(e[2]).source
  <2>13. s = w
    <3>1. s \in Writes(o) /\ <<s, e[2]>> \in graph.rf
      BY <2>6, <2>7
    <3> HIDE DEF s
    <3> QED
      BY <2>10, <3>1
  <2>8. ResultAt(e[2]).source = e[1]
    BY <2>12, <2>13
  <2>9. (CHOOSE r \in Results(child) : r.op = x.op) = ResultAt(e[2])
    BY <1>2, <2>2, <2>5
  <2> QED
    BY <2>2, <2>6, <2>8, <2>9, MetByKind
<1>5. CASE x \in values
  <2>1. PICK w \in Dynamic(graph) : x = [kind |-> "write_value", op |-> w, value |-> o[w].value]
    BY <1>5
  <2>2. x.kind = "write_value" /\ x.op = w /\ x.value = o[w].value
    BY <2>1
  <2>3. (CHOOSE r \in Results(child) : r.op = x.op) = ResultAt(w) /\ ResultAt(w).value = o[w].value
    BY <1>2, <2>2
  <2> QED
    BY <2>2, <2>3, MetByKind
<1>6. CASE x \in orders \cup later
  <2>1. PICK e \in graph.co \cup Fr(o, graph) : /\ x.kind \in {"coherence_order", "from_read"}
                                                /\ x.from = e[1] /\ x.to = e[2]
    BY <1>6
  <2>2. number = 1
    BY <2>1
  <2>3. o[e[1]].kind = "init_write" \/ ResultAt(e[1]).cycle < ResultAt(e[2]).cycle
    BY <2>2, EdgesAreMet
  <2>4. /\ (CHOOSE r \in Results(child) : r.op = x.from) = ResultAt(e[1])
        /\ (CHOOSE r \in Results(child) : r.op = x.to) = ResultAt(e[2])
    BY <2>1 DEF ResultAt
  <2> QED
    BY <2>1, <2>3, <2>4, MetByKind
<1>7. Obligations(graph) = initials \cup sources \cup values \cup orders \cup later
  BY DEF Obligations
<1> HIDE DEF initials, sources, values, orders, later
<1> QED
  BY <1>3, <1>4, <1>5, <1>6, <1>7

-----------------------------------------------------------------------------
(* What the report rests on. *)

\* Accesses come after the instructions of the program, and traffic belongs to misses.
Plausible ==
    /\ Cardinality(Dynamic(graph)) <= Bounds.memory_ops
    /\ \A a \in child : a.type = "access" => a.cycle \in Nat /\ a.cycle > Shift
    /\ stage.kind = "boom" => ProtocolWellFormed(child)

GInv ==
    /\ AInv
    /\ step # "search" => Plausible /\ \E order, c : Following(order, c)
    /\ step \in {"core", "merge", "retired", "realized"} => coherence = "feasible" /\ CoreInv
    /\ step \in {"merge", "retired", "realized"} => CoreWellFormed(core)
    /\ step \in {"search", "access"} => core = {}

LEMMA BeginIsPlausible ==
    ASSUME AInv, Begin, \A st \in Stages : st.cycle_start > 0
    PROVE  Plausible' /\ (\E order, c : Following(order, c))'
<1>1. /\ CInv /\ Searched /\ stage \in Stages /\ coherence = "none" /\ stage' = stage /\ coherence' = coherence
      /\ phase = "done"
  BY DEF AInv, Begin
<1>2. /\ Attempted' /\ graph'.ops = ops
  BY <1>1, BeginIsAttempted
<1>3. PICK order, c :
            /\ order \in SetToSeqs(Dynamic(graph'))
            /\ input' = InputTrace(graph', stage', order, c)
            /\ number' = 1 => Respects(order, Preferred(graph'))
            /\ child' = Lines(graph') \cup Accesses(graph', stage', order)
  BY <1>1, BeginIsAttempted
<1>4. Following(order, c)'
  BY <1>3 DEF Following, InputOf
<1>5. Cardinality(Dynamic(graph')) <= Bounds.memory_ops
  <2>1. ops = Operations(trace.events) /\ ~ Unprojectable(trace.events)
    BY <1>1 DEF CInv, SInv, Projected, ProjectedWell
  <2> QED
    BY <1>1, <1>2, <2>1, ProgramIsSmall DEF Searched
<1>6. IsFiniteSet(Dynamic(graph'))
  <2>1. Skeleton(graph')
    BY <1>2 DEF Attempted, Skeleton, ExecutionOf
  <2> QED
    BY <2>1, SkeletonParts
<1> DEFINE X == Accesses(graph', stage', order)
           L == Lines(graph')
<1>7. \A e \in L : e.type = "line_init"
  BY <1>3, <1>6, ChildInputIdentified
<1>8. \A e \in X : e.type = "access" /\ e.cycle \in Nat /\ e.cycle > 0
  BY <1>1, <1>3, <1>6, AccessCycles
<1>9. Shift' = 0 /\ child' = L \cup X
  BY <1>1, <1>3 DEF Shift
<1> HIDE DEF L, X
<1>10. \A a \in child' : a.type = "access" => a.cycle \in Nat /\ a.cycle > Shift'
  BY <1>7, <1>8, <1>9
<1>11. ProtocolWellFormed(child')
  BY <1>7, <1>8, <1>9 DEF ProtocolWellFormed, Traffic
<1> QED
  BY <1>4, <1>5, <1>10, <1>11 DEF Plausible

LEMMA PerformIsPlausible ==
    ASSUME Plausible, Perform
    PROVE  Plausible' /\ \A order, c : Following(order, c) => Following(order, c)'
<1>1. /\ graph' = graph /\ stage' = stage /\ input' = input /\ coherence' = coherence /\ number' = number
      /\ Shift' = Shift
  BY DEF Perform, skeletonVars, Shift
<1>2. PICK a \in {e \in child : e.type = "access"} : \E spurious \in SUBSET {Acquire(a), Probe(a, a.hart)} :
        /\ child' = child \cup {Result(a)} \cup spurious
                    \cup (IF Hit(a) THEN {} ELSE {Acquire(a), Grant(a)} \cup {Probe(a, h) : h \in Probed(a)})
        /\ stage.kind = "boom" => ProtocolWellFormed(child')
  BY DEF Perform
<1>3. \A e \in child' : e \in child \/ e = Result(a) \/ e = Acquire(a) \/ e = Grant(a) \/ \E h : e = Probe(a, h)
  BY <1>2
<1>4. /\ Acquire(a).type = "acquire" /\ Grant(a).type = "grant" /\ (\A h : Probe(a, h).type = "probe")
      /\ Result(a).type \in {"load_result", "store_result"}
  BY DEF Acquire, Grant, Probe, Result
<1>5. \A e \in child' : e.type = "access" => e \in child
  BY <1>3, <1>4
<1>6. Plausible'
  BY <1>1, <1>2, <1>5 DEF Plausible
<1> QED
  BY <1>1, <1>6 DEF Following, InputOf

\* The fields that moving an event in time keeps.
LEMMA RetimedFields ==
    ASSUME Attempted, ChildInv, Shift = 0, NEW e \in child
    PROVE  /\ Retimed(e).type = e.type
           /\ e.type \in {"load_result", "store_result"} => Retimed(e).op = e.op /\ Retimed(e).path = e.path
           /\ e.type \in Traffic => Retimed(e).txn = e.txn
           /\ e.type = "probe" => Retimed(e).requester = e.requester /\ Retimed(e).target = e.target
           /\ e.type = "access" /\ e.cycle > 0 => Retimed(e).cycle = e.cycle + RetimeOffset
<1> DEFINE d == IF e.cycle > 0 THEN e.cycle + RetimeOffset ELSE e.cycle
<1>1. Retimed(e) = [e EXCEPT !.cycle = d]
  BY DEF Retimed
<1>2. e.cycle > 0 => d = e.cycle + RetimeOffset
  OBVIOUS
<1>3. Retimed(e).type = e.type
  BY RetimedShapes
<1> HIDE DEF d
<1>4. CASE e.type \in {"load_result", "store_result"}
  <2>1. AnsweredResult(e, 0)
    BY <1>4, ChildEvents
  <2>2. PICK a, source, value, path : e = ResultOf(a, source, value, path, a.cycle + 1 + 0)
    BY <2>1 DEF AnsweredResult
  <2>3. Retimed(e).op = e.op /\ Retimed(e).path = e.path
    BY <1>1, <2>2 DEF ResultOf
  <2> QED
    BY <1>3, <1>4, <2>3 DEF Traffic
<1>5. CASE e.type \in Traffic
  <2>1. OwnTraffic(e, 0, Performed)
    BY <1>5, ChildEvents
  <2>2. PICK a \in InputAccesses : \/ e = AcquireOf(a, a.cycle + 1 + 0) \/ e = GrantOf(a, a.cycle + 1 + 0)
                                   \/ \E h : e = ProbeOf(a, h, a.cycle + 1 + 0)
    BY <2>1 DEF OwnTraffic
  <2>3. CASE e = AcquireOf(a, a.cycle + 1 + 0)
    BY <1>1, <1>3, <1>5, <2>3 DEF AcquireOf
  <2>4. CASE e = GrantOf(a, a.cycle + 1 + 0)
    BY <1>1, <1>3, <1>5, <2>4 DEF GrantOf
  <2>5. CASE \E h : e = ProbeOf(a, h, a.cycle + 1 + 0)
    BY <1>1, <1>3, <1>5, <2>5 DEF ProbeOf
  <2> QED
    BY <2>2, <2>3, <2>4, <2>5
<1>6. CASE e.type = "access"
  <2>1. InjectedAccess(e)
    BY <1>6, ChildEvents
  <2>2. e \in InputAccesses
    BY <2>1 DEF InjectedAccess
  <2>3. PICK order, i : e = AccessOf(order, i)
    BY <2>2, AccessParts DEF Attempted, Scheduled
  <2>4. Retimed(e).cycle = d
    BY <1>1, <2>3 DEF AccessOf
  <2> QED
    BY <1>2, <1>3, <1>6, <2>4 DEF Traffic
<1> QED
  BY <1>3, <1>4, <1>5, <1>6 DEF Traffic

LEMMA AnswerIsPlausible ==
    ASSUME Attempted, ChildInv, coherence = "none", Plausible, AnswerCoherence
    PROVE  Plausible' /\ \A order, c : Following(order, c) => Following(order, c)'
<1>1. graph' = graph /\ stage' = stage /\ input' = input /\ number' = number /\ Shift = 0
  BY DEF AnswerCoherence, skeletonVars, Shift
<1>2. \A order, c : Following(order, c) => Following(order, c)'
  BY <1>1 DEF Following, InputOf
<1>3. CASE stage.kind = "boom" /\ coherence' = "feasible"
  <2>1. child' = {Retimed(e) : e \in child}
    BY <1>3 DEF AnswerCoherence, Retime, Retimed
  <2>2. Shift' = 20 /\ RetimeOffset = 20
    BY <1>1, <1>3 DEF Shift, RetimeOffset
  <2>3. ASSUME NEW f \in child', f.type = "access"
        PROVE  f.cycle \in Nat /\ f.cycle > Shift'
    <3>1. PICK e \in child : f = Retimed(e)
      BY <2>1
    <3>2. e.type = "access" /\ e.cycle \in Nat /\ e.cycle > 0
      BY <1>1, <2>3, <3>1, RetimedFields DEF Plausible
    <3>3. f.cycle = e.cycle + RetimeOffset
      BY <1>1, <3>1, <3>2, RetimedFields
    <3> QED
      BY <2>2, <3>2, <3>3
  <2>4. ASSUME NEW f \in child', f.type \in Traffic
        PROVE  Refilled(child', f.txn)
    <3>1. PICK e \in child : f = Retimed(e)
      BY <2>1
    <3>2. e.type \in Traffic /\ f.txn = e.txn
      BY <1>1, <2>4, <3>1, RetimedFields
    <3>3. PICK r \in Results(child) : r.op = e.txn /\ r.path = "refill"
      BY <1>3, <3>2 DEF Plausible, ProtocolWellFormed, Refilled
    <3>4. r \in child /\ r.type \in {"load_result", "store_result"}
      BY DEF Results
    <3>5. Retimed(r).type = r.type /\ Retimed(r).op = r.op /\ Retimed(r).path = r.path
      BY <1>1, <3>4, RetimedFields
    <3>6. Retimed(r) \in Results(child')
      BY <2>1, <3>4, <3>5 DEF Results
    <3> QED
      BY <3>2, <3>3, <3>5, <3>6 DEF Refilled
  <2>5. ASSUME NEW f \in child', f.type = "probe"
        PROVE  f.requester # f.target
    <3>1. PICK e \in child : f = Retimed(e)
      BY <2>1
    <3>2. e.type = "probe" /\ f.requester = e.requester /\ f.target = e.target
      BY <1>1, <2>5, <3>1, RetimedFields
    <3> QED
      BY <1>3, <3>2 DEF Plausible, ProtocolWellFormed
  <2>6. ProtocolWellFormed(child')
    BY <2>4, <2>5 DEF ProtocolWellFormed
  <2> QED
    BY <1>1, <1>2, <2>3, <2>6 DEF Plausible
<1>4. CASE ~ (stage.kind = "boom" /\ coherence' = "feasible")
  <2>1. child' = child /\ Shift' = 0
    BY <1>1, <1>4 DEF AnswerCoherence, Shift
  <2> QED
    BY <1>1, <1>2, <2>1 DEF Plausible
<1> QED
  BY <1>3, <1>4

LEMMA SameChildIsPlausible ==
    ASSUME SameChild, number' = number
    PROVE  /\ Plausible => Plausible'
           /\ (\E order, c : Following(order, c)) => (\E order, c : Following(order, c))'
<1>1. Shift' = Shift
  BY DEF SameChild, Shift
<1>2. Plausible => Plausible'
  BY <1>1 DEF SameChild, Plausible
<1>3. \A order, c : Following(order, c) => Following(order, c)'
  BY DEF SameChild, Following, InputOf
<1> QED
  BY <1>2, <1>3

LEMMA AttemptKeepsGInv ==
    ASSUME GInv, [AttemptNext]_allVars, \A st \in Stages : st.cycle_start > 0
    PROVE  GInv'
<1>1. AInv /\ AInv'
  BY AttemptKeepsAInv, CheckingKeepsAInv DEF GInv, allVars
<1>2. CASE Begin
  <2>1. step' = "access" /\ core' = core /\ step = "search"
    BY <1>2 DEF Begin
  <2>2. Plausible' /\ (\E order, c : Following(order, c))'
    BY <1>1, <1>2, BeginIsPlausible
  <2> QED
    BY <1>1, <2>1, <2>2 DEF GInv
<1>3. CASE Perform
  <2>1. step = "access" /\ step' = step /\ core' = core
    BY <1>3 DEF Perform
  <2>2. Plausible' /\ (\E order, c : Following(order, c))'
    BY <1>3, <2>1, PerformIsPlausible DEF GInv
  <2> QED
    BY <1>1, <2>1, <2>2 DEF GInv
<1>4. CASE AnswerCoherence
  <2>1. /\ step = "access" /\ coherence = "none" /\ Attempted /\ ChildInv /\ core = {} /\ core' = core
        /\ step' \in {"failed", "realized", "core"}
        /\ step' # "failed" => coherence' = "feasible"
    BY <1>1, <1>4 DEF AnswerCoherence, AInv
  <2>2. Plausible' /\ (\E order, c : Following(order, c))'
    BY <1>4, <2>1, AnswerIsPlausible DEF GInv
  <2>3. CoreInv' /\ CoreWellFormed(core')
    BY <2>1 DEF CoreInv, CoreWellFormed
  <2> QED
    BY <1>1, <2>1, <2>2, <2>3 DEF GInv
<1>5. CASE CoreFails \/ Retire \/ Show \/ Merge \/ Conclusion
  <2>1. /\ SameChild /\ number' = number /\ step \in {"core", "merge", "retired"}
        /\ step' \notin {"search", "access"}
    BY <1>5 DEF CoreFails, Retire, Show, Merge, Conclusion, skeletonVars, SameChild
  <2>2. Plausible' /\ (\E order, c : Following(order, c))'
    BY <2>1, SameChildIsPlausible DEF GInv
  <2>3. coherence = "feasible" /\ coherence' = "feasible"
    BY <2>1 DEF GInv, SameChild
  <2>4. CASE CoreFails
    BY <1>1, <2>1, <2>2, <2>3, <2>4 DEF GInv, CoreFails
  <2>5. CASE Retire \/ Show
    <3>1. step' \in {"core", "merge"} /\ (step' = "merge" => CoreWellFormed(core'))
      BY <2>5 DEF Retire, Show
    <3>2. CoreInv'
      BY <1>1, <3>1 DEF AInv
    <3> QED
      BY <1>1, <2>1, <2>2, <2>3, <3>1, <3>2 DEF GInv
  <2>6. CASE Merge \/ Conclusion
    <3>1. core' = core /\ CoreInv /\ CoreWellFormed(core)
      BY <2>6 DEF Merge, Conclusion, GInv
    <3>2. CoreInv' /\ CoreWellFormed(core')
      BY <2>1, <3>1, SameChildKeeps
    <3> QED
      BY <1>1, <2>1, <2>2, <2>3, <3>2 DEF GInv
  <2> QED
    BY <1>5, <2>4, <2>5, <2>6
<1>6. CASE UNCHANGED attemptVars
  <2>1. SameChild /\ number' = number /\ step' = step /\ core' = core /\ coherence' = coherence
    BY <1>6 DEF attemptVars, SameChild
  <2>2. /\ Plausible => Plausible'
        /\ (\E order, c : Following(order, c)) => (\E order, c : Following(order, c))'
        /\ CoreInv => CoreInv'
    BY <2>1, SameChildIsPlausible, SameChildKeeps
  <2>3. CoreWellFormed(core) => CoreWellFormed(core')
    BY <2>1
  <2> QED
    BY <1>1, <2>1, <2>2, <2>3 DEF GInv
<1> QED
  BY <1>2, <1>3, <1>4, <1>5, <1>6 DEF AttemptNext, Checking, allVars

\* What a completed attempt shows is not made up.
LEMMA EvidenceIsTrue ==
    ASSUME GInv, step = "realized", stage.kind = "boom", Bounds.memory_ops <= RetimeOffset
    PROVE  LET missed == {e.op : e \in {r \in Results(child) : r.path = "refill"}} IN
           /\ \A e \in WitnessEvents : e.type \in Traffic => e.txn \in missed
           /\ \A e \in WitnessEvents : e.type = "mshr" => e.op \in missed
           /\ \A e, f \in WitnessEvents : e.type = "tlb_miss" /\ f.type = "tlb_miss" /\ e.hart = f.hart =>
                e = f \/ e.address # f.address
           /\ \A e \in WitnessEvents : e.type = "ldld" => <<e.older, e.younger>> \in Po(graph.ops)
           /\ \A e \in WitnessEvents : e.type # "recovery"
           /\ \A a \in core : a.type = "access" =>
                \A i \in input : i.type = "memory_instruction" => i.cycle < a.cycle
<1> DEFINE missed == {e.op : e \in {r \in Results(child) : r.path = "refill"}}
<1>1. /\ Attempted /\ ChildInv /\ CoreInv /\ CoreWellFormed(core) /\ Plausible /\ coherence = "feasible"
      /\ Skeleton(graph)
  BY DEF GInv, AInv, Attempted
<1>2. Shift = 20 /\ RetimeOffset = 20
  BY <1>1 DEF Shift, RetimeOffset
<1>3. \A e \in child : e.type \in {"line_init", "access", "load_result", "store_result"} \cup Traffic
  BY <1>1, ChildTypes
<1>4. \A e \in core : /\ e.type \in BridgeTypes => e \in child
                      /\ e.type = "memory_instruction" => e \in input
  BY <1>1, CoreTypes
<1>5. \A e \in WitnessEvents : e \in child \/ e \in core
  BY DEF WitnessEvents
<1>6. ASSUME NEW e \in WitnessEvents, e.type \in Traffic PROVE e.txn \in missed
  <2>1. e \in child
    BY <1>4, <1>5, <1>6 DEF BridgeTypes
  <2>2. Refilled(child, e.txn)
    BY <1>1, <1>6, <2>1 DEF Plausible, ProtocolWellFormed
  <2> QED
    BY <2>2 DEF Refilled
<1>7. ASSUME NEW e \in WitnessEvents, e.type = "mshr" PROVE e.op \in missed
  <2>1. e \in core
    BY <1>3, <1>5, <1>7 DEF Traffic
  <2>2. PICK r \in core : r.type = "load_result" /\ r.op = e.op /\ r.path = "refill"
    BY <1>1, <1>7, <2>1 DEF CoreWellFormed
  <2>3. r \in Results(child)
    BY <1>4, <2>2 DEF BridgeTypes, Results
  <2> QED
    BY <2>2, <2>3
<1>8. ASSUME NEW e \in WitnessEvents, NEW f \in WitnessEvents, e.type = "tlb_miss", f.type = "tlb_miss",
             e.hart = f.hart
      PROVE  e = f \/ e.address # f.address
  <2>1. e \in core /\ f \in core
    BY <1>3, <1>5, <1>8 DEF Traffic
  <2> QED
    BY <1>1, <1>8, <2>1 DEF CoreWellFormed
<1>9. ASSUME NEW e \in WitnessEvents, e.type = "ldld" PROVE <<e.older, e.younger>> \in Po(graph.ops)
  <2>1. e \in core
    BY <1>3, <1>5, <1>9 DEF Traffic
  <2>2. PICK s \in core, t \in core :
            /\ s.type = "memory_instruction" /\ t.type = "memory_instruction"
            /\ e.older = s.op /\ e.younger = t.op /\ s.hart = t.hart /\ s.index < t.index
    BY <1>1, <1>9, <2>1 DEF CoreWellFormed
  <2>3. /\ s.op \in Dynamic(graph) /\ s.hart = graph.ops[s.op].hart /\ s.index = graph.ops[s.op].index
        /\ t.op \in Dynamic(graph) /\ t.hart = graph.ops[t.op].hart /\ t.index = graph.ops[t.op].index
    BY <1>1, <1>4, <2>2, InstructionParts
  <2>4. s.op \in Ids(graph.ops) /\ t.op \in Ids(graph.ops) /\ graph.ops[s.op].hart # NoHart
    BY <1>1, <2>3, ProgrammedParts DEF Skeleton, Dynamic
  <2> QED
    BY <2>2, <2>3, <2>4 DEF Po, Before
<1>10. ASSUME NEW e \in WitnessEvents PROVE e.type # "recovery"
  <2>1. e \in child => e.type # "recovery"
    BY <1>3 DEF Traffic
  <2>2. e \in core => e.type # "recovery"
    BY <1>1 DEF CoreWellFormed
  <2> QED
    BY <1>5, <2>1, <2>2
<1>11. ASSUME NEW a \in core, a.type = "access", NEW i \in input, i.type = "memory_instruction"
       PROVE  i.cycle < a.cycle
  <2>1. a.cycle \in Nat /\ a.cycle > 20
    BY <1>1, <1>2, <1>4, <1>11 DEF BridgeTypes, Plausible
  <2>2. i.cycle \in Nat /\ i.cycle <= Cardinality(Dynamic(graph))
    BY <1>1, <1>11, InstructionParts
  <2>3. Cardinality(Dynamic(graph)) <= Bounds.memory_ops /\ Cardinality(Dynamic(graph)) \in Nat
    BY <1>1, SkeletonParts, FS_CardinalityType DEF Plausible
  <2>4. Bounds.memory_ops \in Nat
    BY BoundsAssumption
  <2> QED
    BY <1>2, <2>1, <2>2, <2>3, <2>4
<1> HIDE DEF missed
<1>12. /\ \A e \in WitnessEvents : e.type \in Traffic => e.txn \in missed
       /\ \A e \in WitnessEvents : e.type = "mshr" => e.op \in missed
       /\ \A e, f \in WitnessEvents : e.type = "tlb_miss" /\ f.type = "tlb_miss" /\ e.hart = f.hart =>
            e = f \/ e.address # f.address
       /\ \A e \in WitnessEvents : e.type = "ldld" => <<e.older, e.younger>> \in Po(graph.ops)
       /\ \A e \in WitnessEvents : e.type # "recovery"
       /\ \A a \in core : a.type = "access" =>
            \A i \in input : i.type = "memory_instruction" => i.cycle < a.cycle
  BY <1>6, <1>7, <1>8, <1>9, <1>10, <1>11
<1> QED
  BY <1>12 DEF missed

\* What _realize_boom_end_to_end and _realize_coherence report of a realized stage is so, for
\* programs of at most as many operations as _retime_trace moves the answer of the coherence child
\* (offset=20) and stages that do not start in cycle 0, which it would leave where it is; for every
\* core child and any traffic that the added constraints permit.
THEOREM ReportsAreTrue ==
    ASSUME \A c \in Checks : \E raw \in RawPrograms : c.trace = ArchitectureTrace(raw),
           \A st \in Stages : st.cycle_start > 0, Bounds.memory_ops <= RetimeOffset
    PROVE  AttemptSpec => []ReportIsTrue
<1>1. ASSUME AttemptInit, AInv PROVE GInv
  BY <1>1 DEF AttemptInit, GInv
<1>2. ASSUME GInv, [AttemptNext]_allVars PROVE GInv'
  BY <1>2, AttemptKeepsGInv
<1>3. ASSUME GInv PROVE ReportIsTrue
  <2> SUFFICES ASSUME step = "realized" PROVE ReportIsTrue
    BY DEF ReportIsTrue
  <2>1. /\ Attempted /\ ChildInv /\ Answered /\ \E order, c : Following(order, c)
    BY <1>3 DEF GInv, AInv
  <2>2. \A o \in Obligations(graph) :
            o.kind \in {"initial_value", "read_from", "write_value"} \/ number = 1 => Met(o, child)
    BY <2>1, ObligationsAreMet
  <2>3. stage.kind = "boom" =>
            LET missed == {e.op : e \in {r \in Results(child) : r.path = "refill"}} IN
            /\ \A e \in WitnessEvents : e.type \in Traffic => e.txn \in missed
            /\ \A e \in WitnessEvents : e.type = "mshr" => e.op \in missed
            /\ \A e, f \in WitnessEvents : e.type = "tlb_miss" /\ f.type = "tlb_miss" /\ e.hart = f.hart =>
                e = f \/ e.address # f.address
            /\ \A e \in WitnessEvents : e.type = "ldld" => <<e.older, e.younger>> \in Po(graph.ops)
            /\ \A e \in WitnessEvents : e.type # "recovery"
            /\ \A a \in core : a.type = "access" =>
                \A i \in input : i.type = "memory_instruction" => i.cycle < a.cycle
    BY <1>3, EvidenceIsTrue, Zenon
  <2> QED
    BY <2>2, <2>3, Zenon DEF ReportIsTrue
<1> QED
  BY <1>1, <1>2, <1>3, AInvariance, PTL DEF AttemptSpec
=============================================================================
