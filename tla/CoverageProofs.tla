--------------------------- MODULE CoverageProofs ---------------------------
(***************************************************************************)
(* Proofs about Coverage: what a covered and an uncovered goal mean.       *)
(***************************************************************************)
EXTENDS Coverage, FiniteSetTheorems, TLAPS

-----------------------------------------------------------------------------
(* Sequences built step by step. *)

\* A non-empty set of naturals has a least element: the intervals up to its elements
\* are finite sets, and strict inclusion of finite sets is well-founded.
LEMMA LeastNatural ==
    ASSUME NEW S \in SUBSET Nat, S # {}
    PROVE  \E n \in S : \A m \in S : n <= m
<1> DEFINE T == {0 .. n : n \in S}
<1>1. T # {} /\ T \subseteq FiniteSubsetsOf(Nat)
  <2>1. \A n \in S : IsFiniteSet(0 .. n) /\ 0 .. n \in SUBSET Nat
    BY FS_Interval
  <2> QED
    BY <2>1, Zenon DEF FiniteSubsetsOf
<1>2. PICK t \in T : \A u \in T : ~ (<<u, t>> \in StrictSubsetOrdering(Nat))
  <2> HIDE DEF T
  <2> QED
    BY <1>1, WFMin, FS_StrictSubsetOrderingWellFounded
<1>3. PICK n \in S : t = 0 .. n
  OBVIOUS
<1>4. ASSUME NEW m \in S, m < n PROVE <<0 .. m, 0 .. n>> \in StrictSubsetOrdering(Nat)
  <2>1. 0 .. m \subseteq 0 .. n /\ 0 .. n \subseteq Nat /\ n \in 0 .. n /\ n \notin 0 .. m
    BY <1>4
  <2> QED
    BY <2>1 DEF StrictSubsetOrdering
<1>5. \A m \in S : ~ (m < n)
  BY <1>2, <1>3, <1>4, Zenon
<1> QED
  BY <1>5

IsSeq(s) == s \in Seq(ToSet(s))

LEMMA SeqIsSeq ==
    ASSUME NEW S, NEW s \in Seq(S)
    PROVE  IsSeq(s) /\ ToSet(s) \subseteq S /\ Len(s) \in Nat /\ DOMAIN s = 1 .. Len(s)
BY DEF IsSeq, ToSet

LEMMA Appending ==
    ASSUME NEW s, IsSeq(s), NEW e
    PROVE  /\ IsSeq(Append(s, e)) /\ Len(Append(s, e)) = Len(s) + 1
           /\ \A i \in DOMAIN s : i \in DOMAIN Append(s, e) /\ Append(s, e)[i] = s[i]
           /\ Append(s, e)[Len(s) + 1] = e
           /\ \A i \in DOMAIN Append(s, e) : i \in DOMAIN s \/ i = Len(s) + 1
           /\ ToSet(Append(s, e)) = ToSet(s) \cup {e}
<1> DEFINE S == ToSet(s) \cup {e}
           t == Append(s, e)
<1>1. s \in Seq(S) /\ e \in S /\ Len(s) \in Nat /\ DOMAIN s = 1 .. Len(s)
  BY DEF IsSeq
<1> HIDE DEF S
<1>2. t \in Seq(S) /\ Len(t) = Len(s) + 1 /\ DOMAIN t = 1 .. Len(s) + 1
  BY <1>1
<1>3. IsSeq(t)
  BY <1>2, SeqIsSeq
<1>4. \A i \in DOMAIN s : i \in DOMAIN t /\ t[i] = s[i]
  BY <1>1, <1>2
<1>5. t[Len(s) + 1] = e /\ Len(s) + 1 \in DOMAIN t
  BY <1>1, <1>2
<1>6. \A i \in DOMAIN t : i \in DOMAIN s \/ i = Len(s) + 1
  BY <1>1, <1>2
<1>7. ToSet(t) = ToSet(s) \cup {e}
  BY <1>4, <1>5, <1>6 DEF ToSet
<1> QED
  BY <1>2, <1>3, <1>4, <1>5, <1>6, <1>7

Wanted(c, model, inputs) == c.model = model /\ (inputs = {} \/ c.name \in inputs)

\* The cases kept of the first ones, from none to n of them.
Kept(h, n, cases, model, inputs) ==
    h = [i \in 0 .. n |->
            IF i = 0 THEN << >>
            ELSE IF Wanted(cases[i], model, inputs) THEN Append(h[i - 1], cases[i]) ELSE h[i - 1]]

LEMMA KeptExists ==
    ASSUME NEW cases, NEW model, NEW inputs, NEW n \in Nat
    PROVE  \E h : Kept(h, n, cases, model, inputs)
<1> DEFINE K(h, k) == Kept(h, k, cases, model, inputs)
           W(i) == Wanted(cases[i], model, inputs)
           Bad == {k \in Nat : \A h : ~ K(h, k)}
<1> SUFFICES ASSUME Bad # {} PROVE FALSE
  OBVIOUS
<1>1. PICK k \in Bad : \A j \in Bad : k <= j
  <2> HIDE DEF K
  <2> QED
    BY LeastNatural
<1>2. k # 0
  <2> SUFFICES ASSUME k = 0 PROVE FALSE
    OBVIOUS
  <2> DEFINE h == [i \in 0 .. 0 |-> << >>]
  <2>1. K(h, 0)
    BY DEF Kept
  <2> QED
    BY <1>1, <2>1
<1>3. k - 1 \in Nat /\ k - 1 \notin Bad
  <2> HIDE DEF K
  <2> QED
    BY <1>1, <1>2
<1>4. PICK h : K(h, k - 1)
  <2> HIDE DEF K
  <2> QED
    BY <1>3
<1> DEFINE last == IF W(k) THEN Append(h[k - 1], cases[k]) ELSE h[k - 1]
           g == [i \in 0 .. k |-> IF i = k THEN last ELSE h[i]]
<1>5. \A i \in 0 .. k - 1 : g[i] = h[i]
  BY <1>1
<1>6. \A i \in 0 .. k - 1 : h[i] = IF i = 0 THEN << >>
                                   ELSE IF W(i) THEN Append(h[i - 1], cases[i]) ELSE h[i - 1]
  <2> HIDE DEF W
  <2>1. h = [i \in 0 .. k - 1 |-> IF i = 0 THEN << >>
                                  ELSE IF W(i) THEN Append(h[i - 1], cases[i]) ELSE h[i - 1]]
    BY <1>4 DEF Kept, W
  <2> QED
    BY <2>1, Zenon
<1>7. ASSUME NEW i \in 0 .. k
      PROVE  g[i] = IF i = 0 THEN << >> ELSE IF W(i) THEN Append(g[i - 1], cases[i]) ELSE g[i - 1]
  <2> HIDE DEF W
  <2>1. CASE i = k
    <3>1. g[i] = last /\ i # 0 /\ g[i - 1] = h[k - 1]
      BY <1>2, <1>3, <1>5, <2>1
    <3> QED
      BY <2>1, <3>1
  <2>2. CASE i # k
    <3>1. i \in 0 .. k - 1
      BY <2>2, <1>1
    <3>2. i # 0 => i - 1 \in 0 .. k - 1
      BY <3>1, <1>1
    <3> HIDE DEF g
    <3> QED
      BY <1>5, <1>6, <3>1, <3>2
  <2> QED
    BY <2>1, <2>2
<1>8. g = [i \in 0 .. k |-> g[i]]
  OBVIOUS
<1> HIDE DEF g
<1>9. K(g, k)
  BY <1>7, <1>8, Zenon DEF Kept
<1> QED
  BY <1>1, <1>9

LEMMA CasesOfIsSeq ==
    ASSUME NEW cases, IsSeq(cases), NEW model, NEW inputs
    PROVE  /\ IsSeq(CasesOf(cases, model, inputs))
           /\ ToSet(CasesOf(cases, model, inputs)) \subseteq ToSet(cases)
<1> DEFINE n == Len(cases)
           S == ToSet(cases)
           kept == CHOOSE h : Kept(h, n, cases, model, inputs)
           Bad == {i \in Nat : i <= n /\ kept[i] \notin Seq(S)}
<1>1. n \in Nat /\ \A i \in 1 .. n : cases[i] \in S
  BY DEF IsSeq, ToSet
<1>2. Kept(kept, n, cases, model, inputs)
  BY <1>1, KeptExists
<1>3. CasesOf(cases, model, inputs) = kept[n]
  BY DEF CasesOf, Kept, Wanted
<1> HIDE DEF kept, n, S
<1>4. Bad = {}
  <2> SUFFICES ASSUME Bad # {} PROVE FALSE
    OBVIOUS
  <2>1. PICK k \in Bad : \A j \in Bad : k <= j
    BY LeastNatural
  <2>2. k \in 0 .. n
    BY <1>1
  <2>3. kept[k] = IF k = 0 THEN << >>
                  ELSE IF Wanted(cases[k], model, inputs) THEN Append(kept[k - 1], cases[k]) ELSE kept[k - 1]
    BY <1>2, <2>2, Zenon DEF Kept
  <2>8. << >> \in Seq(S) /\ kept[k] \notin Seq(S)
    BY <2>1
  <2>4. k # 0
    BY <2>3, <2>8
  <2>5. k - 1 \in Nat /\ k - 1 <= n /\ k - 1 \notin Bad
    BY <1>1, <2>1, <2>4
  <2>6. kept[k - 1] \in Seq(S)
    BY <2>5
  <2>7. cases[k] \in S
    BY <1>1, <2>2, <2>4
  <2>9. Append(kept[k - 1], cases[k]) \in Seq(S)
    BY <2>6, <2>7
  <2> QED
    BY <2>3, <2>4, <2>6, <2>8, <2>9
<1>5. kept[n] \in Seq(S)
  BY <1>1, <1>4
<1> QED
  BY <1>3, <1>5, SeqIsSeq DEF S

\* The first sequences joined, from one to n of them.
Joined(h, n, seqs) ==
    h = [i \in 1 .. n |-> IF i = 1 THEN seqs[i] ELSE h[i - 1] \o seqs[i]]

LEMMA JoinedExists ==
    ASSUME NEW seqs, NEW n \in Nat
    PROVE  \E h : Joined(h, n, seqs)
<1> DEFINE K(h, k) == Joined(h, k, seqs)
           Bad == {k \in Nat : \A h : ~ K(h, k)}
<1> SUFFICES ASSUME Bad # {} PROVE FALSE
  OBVIOUS
<1>1. PICK k \in Bad : \A j \in Bad : k <= j
  <2> HIDE DEF K
  <2> QED
    BY LeastNatural
<1>2. k # 0
  <2> SUFFICES ASSUME k = 0 PROVE FALSE
    OBVIOUS
  <2> DEFINE h == [i \in 1 .. 0 |-> seqs]
  <2>1. K(h, 0)
    BY DEF Joined
  <2> QED
    BY <1>1, <2>1
<1>3. k - 1 \in Nat /\ k - 1 \notin Bad
  <2> HIDE DEF K
  <2> QED
    BY <1>1, <1>2
<1>4. PICK h : K(h, k - 1)
  <2> HIDE DEF K
  <2> QED
    BY <1>3
<1> DEFINE last == IF k = 1 THEN seqs[k] ELSE h[k - 1] \o seqs[k]
           g == [i \in 1 .. k |-> IF i = k THEN last ELSE h[i]]
<1>5. \A i \in 1 .. k - 1 : g[i] = h[i]
  BY <1>1
<1>6. \A i \in 1 .. k - 1 : h[i] = IF i = 1 THEN seqs[i] ELSE h[i - 1] \o seqs[i]
  BY <1>4, Zenon DEF Joined
<1>7. ASSUME NEW i \in 1 .. k
      PROVE  g[i] = IF i = 1 THEN seqs[i] ELSE g[i - 1] \o seqs[i]
  <2>1. CASE i = k
    <3>1. g[i] = last /\ (i # 1 => g[i - 1] = h[k - 1])
      BY <1>2, <1>3, <1>5, <2>1
    <3> HIDE DEF g
    <3> QED
      BY <2>1, <3>1
  <2>2. CASE i # k
    <3>1. i \in 1 .. k - 1
      BY <2>2, <1>1
    <3>2. i # 1 => i - 1 \in 1 .. k - 1
      BY <3>1, <1>1
    <3> HIDE DEF g
    <3> QED
      BY <1>5, <1>6, <3>1, <3>2
  <2> QED
    BY <2>1, <2>2
<1>8. g = [i \in 1 .. k |-> g[i]]
  OBVIOUS
<1> HIDE DEF g
<1>9. K(g, k)
  BY <1>7, <1>8, Zenon DEF Joined
<1> QED
  BY <1>1, <1>9

LEMMA FlattenIsSeq ==
    ASSUME NEW S, NEW n \in Nat, NEW seqs \in [1 .. n -> Seq(S)]
    PROVE  FlattenSeq(seqs) \in Seq(S)
<1> DEFINE flat == CHOOSE h : Joined(h, n, seqs)
           Bad == {i \in Nat : 1 <= i /\ i <= n /\ flat[i] \notin Seq(S)}
<1>1. Len(seqs) = n
  <2>1. seqs \in Seq(Seq(S)) /\ DOMAIN seqs = 1 .. n
    OBVIOUS
  <2> QED
    BY <2>1
<1>2. CASE n = 0
  <2>1. FlattenSeq(seqs) = seqs
    BY <1>1, <1>2 DEF FlattenSeq
  <2>2. seqs \in [1 .. 0 -> S]
    BY <1>2
  <2> QED
    BY <2>1, <2>2
<1>3. CASE n # 0
  <2>1. Joined(flat, n, seqs)
    BY JoinedExists
  <2>2. FlattenSeq(seqs) = flat[n]
    BY <1>1, <1>3 DEF FlattenSeq, Joined
  <2> HIDE DEF flat
  <2>3. Bad = {}
    <3> SUFFICES ASSUME Bad # {} PROVE FALSE
      OBVIOUS
    <3>1. PICK k \in Bad : \A j \in Bad : k <= j
      BY LeastNatural
    <3>2. k \in 1 .. n /\ flat[k] \notin Seq(S)
      BY <3>1
    <3>3. flat[k] = IF k = 1 THEN seqs[k] ELSE flat[k - 1] \o seqs[k]
      BY <2>1, <3>2, Zenon DEF Joined
    <3>4. k # 1
      BY <3>2, <3>3
    <3>5. k - 1 \in Nat /\ 1 <= k - 1 /\ k - 1 <= n /\ k - 1 \notin Bad
      BY <3>1, <3>2, <3>4
    <3>6. flat[k - 1] \in Seq(S) /\ seqs[k] \in Seq(S)
      BY <3>2, <3>5
    <3>7. flat[k - 1] \o seqs[k] \in Seq(S)
      BY <3>6
    <3> QED
      BY <3>2, <3>3, <3>4, <3>7
  <2>4. n \in Nat /\ 1 <= n /\ n <= n /\ n \notin Bad
    BY <1>3, <2>3
  <2>5. flat[n] \in Seq(S)
    BY <2>4
  <2> QED
    BY <2>2, <2>5
<1> QED
  BY <1>2, <1>3

-----------------------------------------------------------------------------
(* The query of a case asks for the goal. *)

\* What compiling the first n probes of a goal has put into the query.
Compiled(q, n, g, c) ==
    /\ IsSeq(q.constraints)
    /\ ToSet(q.constraints) = {g.probes[i] : i \in {j \in 1 .. n : Alternatives(c, g.probes[j]) # {}}}
    /\ Len(q.constraints) <= n
    /\ Len(q.constraints) = n <=> \A i \in 1 .. n : Alternatives(c, g.probes[i]) # {}
    /\ q.requirements = UNION {Requirements(c, g.probes[i]) : i \in 1 .. n}

LEMMA NothingCompiled ==
    ASSUME NEW g, NEW c
    PROVE  Compiled(Fresh, 0, g, c)
<1>1. << >> \in Seq({})
  OBVIOUS
<1>2. IsSeq(<< >>)
  BY <1>1, SeqIsSeq
<1>3. ToSet(<< >>) = {} /\ Len(<< >>) = 0
  BY DEF ToSet
<1>4. Fresh.constraints = << >> /\ Fresh.requirements = {}
  BY DEF Fresh
<1>5. 1 .. 0 = {}
  OBVIOUS
<1> QED
  BY <1>2, <1>3, <1>4, <1>5 DEF Compiled

LEMMA CompilingOne ==
    ASSUME NEW q, NEW r, NEW n \in Nat, NEW g, NEW c, Compiled(q, n, g, c),
           r.constraints = (IF Alternatives(c, g.probes[n + 1]) = {} THEN q.constraints
                            ELSE Append(q.constraints, g.probes[n + 1])),
           r.requirements = q.requirements \cup Requirements(c, g.probes[n + 1])
    PROVE  Compiled(r, n + 1, g, c)
<1> DEFINE p == g.probes[n + 1]
           A(i) == Alternatives(c, g.probes[i])
           Met(k) == {g.probes[i] : i \in {j \in 1 .. k : A(j) # {}}}
           All(k) == \A i \in 1 .. k : A(i) # {}
           cs == q.constraints
           ds == r.constraints
<1>1. 1 .. n + 1 = (1 .. n) \cup {n + 1}
  OBVIOUS
<1>2. r.requirements = UNION {Requirements(c, g.probes[i]) : i \in 1 .. n + 1}
  BY <1>1 DEF Compiled
<1>3. IsSeq(cs) /\ ToSet(cs) = Met(n) /\ Len(cs) <= n /\ (Len(cs) = n <=> All(n))
  BY DEF Compiled
<1>4. Len(cs) \in Nat
  BY <1>3 DEF IsSeq
<1>5. All(n + 1) <=> All(n) /\ A(n + 1) # {}
  BY <1>1
<1>6. ds = IF A(n + 1) = {} THEN cs ELSE Append(cs, p)
  OBVIOUS
<1>7. IsSeq(ds) /\ ToSet(ds) = Met(n + 1) /\ Len(ds) <= n + 1 /\ (Len(ds) = n + 1 <=> All(n + 1))
  <2>1. CASE A(n + 1) = {}
    <3>1. Met(n + 1) = Met(n)
      BY <1>1, <2>1
    <3> HIDE DEF cs, ds, Met, All, A
    <3> QED
      BY <1>3, <1>4, <1>5, <1>6, <2>1, <3>1
  <2>2. CASE A(n + 1) # {}
    <3>1. Met(n + 1) = Met(n) \cup {p}
      BY <1>1, <2>2
    <3> HIDE DEF cs, ds, Met, All, A, p
    <3>2. ds = Append(cs, p)
      BY <1>6, <2>2
    <3>3. IsSeq(ds) /\ Len(ds) = Len(cs) + 1 /\ ToSet(ds) = ToSet(cs) \cup {p}
      BY <1>3, <3>2, Appending
    <3> QED
      BY <1>3, <1>4, <1>5, <2>2, <3>1, <3>3
  <2> QED
    BY <2>1, <2>2
<1> QED
  BY <1>2, <1>7 DEF Compiled

\* Once every probe is compiled, the query accepts the traces that reach the goal, with
\* every alternative that matches permitted by the state.
LEMMA QueryIsStrict ==
    ASSUME NEW q, NEW g, NEW c, NEW w, IsSeq(g.probes), Compiled(q, Len(g.probes), g, c),
           Len(q.constraints) = Len(g.probes)
    PROVE  Accepts(w, c, q) <=> Strictly(w, c, g)
<1> DEFINE n == Len(g.probes)
           A(p) == Alternatives(c, p)
           Some(p) == \E a \in A(p) : Meets(w, p, a)
           Each(p) == \A a \in A(p) : Conditional(p, a) /\ Meets(w, p, a) => Permits(w, p, a)
<1>1. n \in Nat /\ DOMAIN g.probes = 1 .. n
  BY DEF IsSeq
<1>2. \A i \in 1 .. n : A(g.probes[i]) # {}
  BY DEF Compiled
<1>3. (\A i \in DOMAIN q.constraints : Some(q.constraints[i])) <=> \A p \in ToSet(q.constraints) : Some(p)
  <2> HIDE DEF Some
  <2> QED
    BY DEF ToSet
<1>4. ToSet(q.constraints) = {g.probes[i] : i \in 1 .. n}
  BY <1>2 DEF Compiled
<1>5. (\A i \in DOMAIN q.constraints : Some(q.constraints[i])) <=> \A i \in 1 .. n : Some(g.probes[i])
  <2> HIDE DEF Some
  <2> QED
    BY <1>3, <1>4
<1>6. q.requirements = UNION {Requirements(c, g.probes[i]) : i \in 1 .. n}
  BY DEF Compiled
<1>7. \A i \in 1 .. n : \A r \in Requirements(c, g.probes[i]) :
        r.probe = g.probes[i] /\ r.of \in A(g.probes[i]) /\ Conditional(g.probes[i], r.of)
  BY DEF Requirements
<1>8. \A i \in 1 .. n : \A a \in A(g.probes[i]) : Conditional(g.probes[i], a) =>
        \E r \in Requirements(c, g.probes[i]) : r.probe = g.probes[i] /\ r.of = a
  <2> SUFFICES ASSUME NEW i \in 1 .. n, NEW a \in A(g.probes[i]), Conditional(g.probes[i], a)
               PROVE  \E r \in Requirements(c, g.probes[i]) : r.probe = g.probes[i] /\ r.of = a
    OBVIOUS
  <2>1. [probe |-> g.probes[i], of |-> a] \in Requirements(c, g.probes[i])
    BY DEF Requirements
  <2> QED
    BY <2>1
<1>9. (\A r \in q.requirements : r.of \in Alternatives(c, r.probe) =>
          (Meets(w, r.probe, r.of) => Permits(w, r.probe, r.of)))
      <=> \A i \in 1 .. n : Each(g.probes[i])
  <2>1. ASSUME \A r \in q.requirements : r.of \in Alternatives(c, r.probe) =>
                   (Meets(w, r.probe, r.of) => Permits(w, r.probe, r.of)),
               NEW i \in 1 .. n, NEW a \in A(g.probes[i]),
               Conditional(g.probes[i], a), Meets(w, g.probes[i], a)
        PROVE  Permits(w, g.probes[i], a)
    <3>1. PICK r \in Requirements(c, g.probes[i]) : r.probe = g.probes[i] /\ r.of = a
      BY <1>8, <2>1
    <3>2. r \in q.requirements
      BY <1>6
    <3> QED
      BY <2>1, <3>1, <3>2
  <2>2. ASSUME \A i \in 1 .. n : Each(g.probes[i]), NEW r \in q.requirements,
               Meets(w, r.probe, r.of)
        PROVE  Permits(w, r.probe, r.of)
    <3>1. PICK i \in 1 .. n : r \in Requirements(c, g.probes[i])
      BY <1>6
    <3> QED
      BY <1>7, <2>2, <3>1
  <2> QED
    BY <2>1, <2>2
<1>10. Accepts(w, c, q) <=> \A i \in 1 .. n : Some(g.probes[i]) /\ Each(g.probes[i])
  <2> HIDE DEF Each
  <2> QED
    BY <1>5, <1>9 DEF Accepts
<1>11. Strictly(w, c, g) <=> \A i \in 1 .. n : Some(g.probes[i]) /\ Each(g.probes[i])
  BY <1>1 DEF Strictly, Achieves
<1> QED
  BY <1>10, <1>11

\* A case whose problem lacks a probe has no trace that reaches the goal.
LEMMA MissedIsRefuted ==
    ASSUME NEW q, NEW g, NEW c, NEW w, IsSeq(g.probes), Compiled(q, Len(g.probes), g, c),
           Len(q.constraints) < Len(g.probes)
    PROVE  ~ Strictly(w, c, g)
<1>1. Len(g.probes) \in Nat /\ DOMAIN g.probes = 1 .. Len(g.probes) /\ Len(q.constraints) \in Nat
  BY DEF IsSeq, Compiled
<1>2. PICK i \in 1 .. Len(g.probes) : Alternatives(c, g.probes[i]) = {}
  BY <1>1 DEF Compiled
<1> QED
  BY <1>1, <1>2 DEF Strictly, Achieves

LEMMA StrictlyAchieves ==
    ASSUME NEW w, NEW c, NEW g, Strictly(w, c, g)
    PROVE  Achieves(w, c, g)
BY DEF Strictly

-----------------------------------------------------------------------------
(* The witness of a goal is the best of the witnesses of its cases. *)

LEMMA SmallestExists ==
    ASSUME NEW D, D # {}, NEW f \in [D -> Nat]
    PROVE  \E i \in D : \A j \in D : f[i] <= f[j]
<1> DEFINE S == {f[i] : i \in D}
<1>1. S \in SUBSET Nat /\ S # {}
  OBVIOUS
<1>2. PICK n \in S : \A m \in S : n <= m
  <2> HIDE DEF S
  <2> QED
    BY <1>1, LeastNatural
<1> QED
  BY <1>2

\* Among finitely or infinitely many scores one has no better one.
LEMMA LeastScore ==
    ASSUME NEW D, D # {}, NEW s \in [D -> Nat \X Nat \X Nat]
    PROVE  \E i \in D : \A j \in D : ~ Precedes(s[j], s[i])
<1> DEFINE Is1(i) == \A j \in D : s[i][1] <= s[j][1]
           E == {i \in D : Is1(i)}
           Is2(i) == \A j \in E : s[i][2] <= s[j][2]
           F == {i \in E : Is2(i)}
<1>1. \A i \in D : s[i][1] \in Nat /\ s[i][2] \in Nat /\ s[i][3] \in Nat
  OBVIOUS
<1>2. E # {}
  <2> DEFINE f == [i \in D |-> s[i][1]]
  <2>1. f \in [D -> Nat]
    BY <1>1
  <2>2. \A i \in D : f[i] = s[i][1]
    OBVIOUS
  <2> HIDE DEF f
  <2>3. PICK i \in D : \A j \in D : f[i] <= f[j]
    BY <2>1, SmallestExists
  <2> QED
    BY <2>2, <2>3
<1>3. F # {}
  <2> DEFINE f == [i \in E |-> s[i][2]]
  <2>1. f \in [E -> Nat]
    BY <1>1
  <2>2. \A i \in E : f[i] = s[i][2]
    OBVIOUS
  <2> HIDE DEF f, E
  <2>3. PICK i \in E : \A j \in E : f[i] <= f[j]
    BY <1>2, <2>1, SmallestExists
  <2> QED
    BY <2>2, <2>3
<1>4. PICK i \in F : \A j \in F : s[i][3] <= s[j][3]
  <2> DEFINE f == [i \in F |-> s[i][3]]
  <2>1. f \in [F -> Nat]
    BY <1>1
  <2>2. \A i \in F : f[i] = s[i][3]
    OBVIOUS
  <2> HIDE DEF f, F
  <2>3. PICK i \in F : \A j \in F : f[i] <= f[j]
    BY <1>3, <2>1, SmallestExists
  <2> QED
    BY <2>2, <2>3
<1>5. ASSUME NEW j \in D, NEW k \in 1 .. 3, s[j][k] < s[i][k], \A l \in 1 .. k - 1 : s[j][l] = s[i][l]
      PROVE  FALSE
  <2>1. i \in D /\ Is1(i) /\ Is2(i)
    OBVIOUS
  <2>2. ~ (s[j][1] < s[i][1])
    BY <1>1, <2>1
  <2>3. k # 1
    BY <1>5, <2>2
  <2>4. s[j][1] = s[i][1]
    BY <1>5, <2>3
  <2>5. j \in E
    BY <2>1, <2>4
  <2>6. k # 2
    BY <1>1, <1>5, <2>1, <2>5
  <2>7. k = 3 /\ s[j][2] = s[i][2]
    BY <1>5, <2>3, <2>6
  <2>8. j \in F
    BY <2>1, <2>5, <2>7
  <2> QED
    BY <1>1, <1>4, <1>5, <2>1, <2>7, <2>8
<1>6. \A j \in D : ~ Precedes(s[j], s[i])
  BY <1>5 DEF Precedes
<1> QED
  BY <1>6

\* What is compared are numbers.
Scored(f) == Score(f) \in Nat \X Nat \X Nat

LEMMA BestIsLeast ==
    ASSUME NEW fs, IsSeq(fs), fs # << >>, \A i \in DOMAIN fs : Scored(fs[i])
    PROVE  \E i \in DOMAIN fs :
              /\ Best(fs) = fs[i]
              /\ \A j \in DOMAIN fs : Hidden(fs[i].of, fs[i].world) <= Hidden(fs[j].of, fs[j].world)
<1> DEFINE D == DOMAIN fs
           s == [i \in D |-> Score(fs[i])]
           M == {i \in D : \A j \in D : ~ Precedes(Score(fs[j]), Score(fs[i]))}
<1>1. D \subseteq Nat /\ D # {}
  BY DEF IsSeq
<1>2. \A i \in D : s[i] = Score(fs[i])
  OBVIOUS
<1>3. s \in [D -> Nat \X Nat \X Nat]
  BY DEF Scored
<1>4. M # {}
  <2> HIDE DEF s, D
  <2>1. PICK i \in D : \A j \in D : ~ Precedes(s[j], s[i])
    BY <1>1, <1>3, LeastScore
  <2> QED
    BY <1>2, <2>1 DEF D
<1>5. M \in SUBSET Nat
  BY <1>1
<1>6. PICK i \in M : \A j \in M : i <= j
  <2> HIDE DEF M
  <2> QED
    BY <1>4, <1>5, LeastNatural
<1>7. Min(M) \in M
  <2> HIDE DEF M
  <2> QED
    BY <1>6 DEF Min
<1>8. Best(fs) = fs[Min(M)]
  BY DEF Best
<1>9. \A j \in D : ~ (s[j][1] < s[Min(M)][1])
  <2>1. \A j \in D : ~ Precedes(s[j], s[Min(M)])
    BY <1>2, <1>7
  <2>2. 1 \in 1 .. 3 /\ 1 .. 1 - 1 = {}
    OBVIOUS
  <2> QED
    BY <2>1, <2>2 DEF Precedes
<1>10. \A j \in D : s[j][1] = Hidden(fs[j].of, fs[j].world) /\ s[j][1] \in Nat
  BY <1>3 DEF Score
<1>11. Min(M) \in D
  BY <1>7
<1> HIDE DEF s, M, D
<1>12. \A j \in D : Hidden(fs[Min(M)].of, fs[Min(M)].world) <= Hidden(fs[j].of, fs[j].world)
  BY <1>9, <1>10, <1>11
<1> QED
  BY <1>8, <1>11, <1>12 DEF D

-----------------------------------------------------------------------------
(* The inductive invariant. *)

Reaches(c, g) == {w \in c.worlds : Strictly(w, c, g)}

\* An outcome of a case is a trace of it that reaches the goal, with Z3 a minimal one.
Witness(f, g, backend) ==
    /\ f.world \in Reaches(f.of, g)
    /\ backend = "z3" =>
        \A v \in Reaches(f.of, g) : Hidden(f.of, f.world) <= Hidden(f.of, v)

\* The cases before the n-th are found, given up or without a trace that reaches the goal.
Handled(fs, n, cs, g, backend) ==
    /\ IsSeq(fs)
    /\ \A k \in DOMAIN fs : fs[k].of \in ToSet(cs) /\ Witness(fs[k], g, backend)
    /\ \A j \in 1 .. n - 1 :
        cs[j].hard \/ Reaches(cs[j], g) = {} \/ \E k \in DOMAIN fs : fs[k].of = cs[j]

\* What the two properties say of one result.
Claims(r, cs, g, backend) ==
    /\ r.status = "covered" =>
        /\ r.witness[1].of \in cs /\ r.witness[1].world \in r.witness[1].of.worlds
        /\ Achieves(r.witness[1].world, r.witness[1].of, g)
        /\ (\A c \in cs : ~ c.hard) /\ backend = "z3" =>
            \A c \in cs : \A w \in Reaches(c, g) :
                Hidden(r.witness[1].of, r.witness[1].world) <= Hidden(c, w)
    /\ r.status = "uncovered" /\ (\A c \in cs : ~ c.hard) => \A c \in cs : Reaches(c, g) = {}

AreGoals(gs) == IsSeq(gs) /\ \A i \in DOMAIN gs : IsSeq(gs[i].probes)

InvResults ==
    /\ IsSeq(results) /\ goal = Len(results) + 1
    /\ phase \in {"load", "prepare"} => results = << >>
    /\ \A i \in DOMAIN results : Claims(results[i], CasesFor(goals[i]), goals[i], suite.backend)

InvCases ==
    phase \in {"case", "compile"} =>
        /\ goal \in DOMAIN goals
        /\ case \in 1 .. Len(Cases) + 1
        /\ Handled(feasible, case, Cases, Goal, suite.backend)

InvQuery ==
    phase = "compile" =>
        /\ case \in DOMAIN Cases
        /\ probe \in 1 .. Len(Goal.probes) + 1
        /\ Compiled(query, probe - 1, Goal, Case)

TypeOK ==
    /\ suite \in Suite
    /\ phase \in {"load", "prepare", "goal", "case", "compile", "reported", "raised"}
    /\ IsSeq(prepared) /\ ToSet(prepared) \subseteq ToSet(suite.cases)
    /\ phase \in {"goal", "case", "compile", "reported"} => AreGoals(goals)

Inv == TypeOK /\ InvResults /\ InvCases /\ InvQuery

\* The score of an outcome consists of numbers.
LEMMA OutcomesAreScored ==
    ASSUME NEW s \in Suite, NEW f, f.of \in ToSet(s.cases), f.world \in f.of.worlds
    PROVE  Scored(f)
<1>1. IsFiniteSet(f.world.occurs) /\ f.world.last \in Nat
  BY SuiteAssumption
<1>2. IsFiniteSet(f.world.occurs \cap f.of.slots)
  BY <1>1, FS_Intersection
<1>3. Cardinality(f.world.occurs \cap f.of.slots) \in Nat /\ Cardinality(f.world.occurs) \in Nat
  BY <1>1, <1>2, FS_CardinalityType
<1> QED
  BY <1>1, <1>3 DEF Scored, Score, Hidden

LEMMA HiddenIsNumber ==
    ASSUME NEW s \in Suite, NEW c \in ToSet(s.cases), NEW w \in c.worlds
    PROVE  Hidden(c, w) \in Nat
<1>1. IsFiniteSet(w.occurs)
  BY SuiteAssumption
<1>2. IsFiniteSet(w.occurs \cap c.slots)
  BY <1>1, FS_Intersection
<1> QED
  BY <1>2, FS_CardinalityType DEF Hidden

LEMMA ImageIsFinite ==
    ASSUME NEW S, IsFiniteSet(S), NEW f, DOMAIN f = S
    PROVE  IsFiniteSet({f[x] : x \in S})
<1> DEFINE T == {f[x] : x \in S}
           g == [x \in S |-> f[x]]
<1>1. g \in Surjection(S, T)
  <2>1. g \in [S -> T] /\ \A t \in T : \E x \in S : g[x] = t
    OBVIOUS
  <2> HIDE DEF g, T
  <2> QED
    BY <2>1 DEF Surjection
<1> HIDE DEF g, T
<1>2. IsFiniteSet(T)
  BY <1>1, FS_Surjection
<1> QED
  BY <1>2 DEF T

LEMMA UnionIsFinite ==
    ASSUME NEW S, IsFiniteSet(S), NEW f, DOMAIN f = S, \A x \in S : IsFiniteSet(f[x])
    PROVE  IsFiniteSet(UNION {f[x] : x \in S})
<1> DEFINE T == {f[x] : x \in S}
<1>1. IsFiniteSet(T)
  BY ImageIsFinite
<1>2. \A t \in T : IsFiniteSet(t)
  OBVIOUS
<1> HIDE DEF T
<1>3. IsFiniteSet(UNION T)
  BY <1>1, <1>2, FS_UNION
<1> QED
  BY <1>3 DEF T

\* A generated goal has one probe, a list of them is finite.
LEMMA AutoGoalsAreGoals ==
    ASSUME NEW s \in Suite, NEW r \in ToSet(s.selectors), IsSeq(prepared),
           ToSet(prepared) \subseteq ToSet(s.cases)
    PROVE  /\ IsSeq(AutoGoals(r))
           /\ \A g \in ToSet(AutoGoals(r)) : IsSeq(g.probes)
<1> DEFINE chosen == (Selectable(r) \cap r.include) \ r.exclude
           inv == Inventory(r.model)
           goalOf(i) == AutoGoal(r, SetToSeq(chosen)[i])
           n == Cardinality(chosen)
<1>1. inv \subseteq ToSet(s.cases)
  BY CasesOfIsSeq DEF Inventory
<1>2. IsFiniteSet(ToSet(s.cases))
  <2>1. IsSeq(s.cases)
    BY SuiteAssumption DEF IsSeq
  <2>2. DOMAIN s.cases = 1 .. Len(s.cases) /\ Len(s.cases) \in Nat
    BY <2>1 DEF IsSeq
  <2>3. IsFiniteSet(DOMAIN s.cases)
    BY <2>2, FS_Interval
  <2> QED
    BY <2>3, ImageIsFinite DEF ToSet
<1>3. IsFiniteSet(inv)
  BY <1>1, <1>2, FS_Subset
<1>4. \A c \in inv : IsFiniteSet(c.rules) /\ IsFiniteSet(DOMAIN c.ports) /\ IsFiniteSet(c.private)
  BY <1>1, SuiteAssumption
<1> HIDE DEF inv
<1>5. IsFiniteSet(UNION {c.rules : c \in inv})
  <2> DEFINE f == [c \in inv |-> c.rules]
  <2>1. DOMAIN f = inv /\ \A c \in inv : f[c] = c.rules
    OBVIOUS
  <2>2. {f[c] : c \in inv} = {c.rules : c \in inv}
    OBVIOUS
  <2> HIDE DEF f
  <2>3. IsFiniteSet(UNION {f[c] : c \in inv})
    BY <1>3, <1>4, <2>1, UnionIsFinite
  <2> QED
    BY <2>2, <2>3
<1>6. IsFiniteSet(UNION {DOMAIN c.ports : c \in inv})
  <2> DEFINE f == [c \in inv |-> DOMAIN c.ports]
  <2>1. DOMAIN f = inv /\ \A c \in inv : f[c] = DOMAIN c.ports
    OBVIOUS
  <2>2. {f[c] : c \in inv} = {DOMAIN c.ports : c \in inv}
    OBVIOUS
  <2> HIDE DEF f
  <2>3. IsFiniteSet(UNION {f[c] : c \in inv})
    BY <1>3, <1>4, <2>1, UnionIsFinite
  <2> QED
    BY <2>2, <2>3
<1>7. IsFiniteSet(UNION {c.private : c \in inv})
  <2> DEFINE f == [c \in inv |-> c.private]
  <2>1. DOMAIN f = inv /\ \A c \in inv : f[c] = c.private
    OBVIOUS
  <2>2. {f[c] : c \in inv} = {c.private : c \in inv}
    OBVIOUS
  <2> HIDE DEF f
  <2>3. IsFiniteSet(UNION {f[c] : c \in inv})
    BY <1>3, <1>4, <2>1, UnionIsFinite
  <2> QED
    BY <2>2, <2>3
<1>8. IsFiniteSet(Selectable(r))
  <2>1. r.kind \in {"transformation", "public_interface", "private_event"}
    BY SuiteAssumption
  <2> QED
    BY <1>5, <1>6, <1>7, <2>1 DEF Selectable, Transformations, Interfaces, Private, inv
<1>9. n \in Nat
  <2>1. chosen \subseteq Selectable(r)
    OBVIOUS
  <2> HIDE DEF chosen
  <2> QED
    BY <1>8, <2>1, FS_Subset, FS_CardinalityType
<1> DEFINE T == {goalOf(i) : i \in 1 .. n}
<1>10. AutoGoals(r) = [i \in 1 .. n |-> goalOf(i)]
  BY DEF AutoGoals
<1>11. \A g \in T : IsSeq(g.probes)
  <2> SUFFICES ASSUME NEW i \in 1 .. n PROVE IsSeq(goalOf(i).probes)
    OBVIOUS
  <2> DEFINE p == [kind |-> ProbeKind(r), names |-> {SetToSeq(chosen)[i]}]
  <2>1. goalOf(i).probes = <<p>>
    BY DEF AutoGoal
  <2> HIDE DEF p
  <2>2. <<p>> \in Seq({p})
    OBVIOUS
  <2> QED
    BY <2>1, <2>2, SeqIsSeq
<1> HIDE DEF n, goalOf
<1>12. AutoGoals(r) \in Seq(T)
  BY <1>9, <1>10
<1> QED
  BY <1>11, <1>12, SeqIsSeq

LEMMA ExpandedAreGoals ==
    ASSUME NEW s \in Suite, IsSeq(prepared), ToSet(prepared) \subseteq ToSet(s.cases), NEW gs,
           gs = s.goals \o FlattenSeq([i \in DOMAIN s.selectors |-> AutoGoals(s.selectors[i])])
    PROVE  AreGoals(gs)
<1> DEFINE n == Len(s.selectors)
           auto == [i \in DOMAIN s.selectors |-> AutoGoals(s.selectors[i])]
           T == UNION {ToSet(AutoGoals(s.selectors[i])) : i \in DOMAIN s.selectors}
           S == ToSet(s.goals) \cup T
<1>1. IsSeq(s.selectors) /\ IsSeq(s.goals)
  BY SuiteAssumption DEF IsSeq
<1>2. n \in Nat /\ DOMAIN s.selectors = 1 .. n /\ \A i \in 1 .. n : s.selectors[i] \in ToSet(s.selectors)
  BY <1>1 DEF IsSeq, ToSet
<1>3. \A i \in 1 .. n : IsSeq(AutoGoals(s.selectors[i]))
                        /\ \A g \in ToSet(AutoGoals(s.selectors[i])) : IsSeq(g.probes)
  BY <1>2, AutoGoalsAreGoals
<1>4. \A g \in S : IsSeq(g.probes)
  <2>1. \A g \in T : IsSeq(g.probes)
    BY <1>2, <1>3
  <2>2. \A g \in ToSet(s.goals) : IsSeq(g.probes)
    BY SuiteAssumption DEF IsSeq
  <2> HIDE DEF T
  <2> QED
    BY <2>1, <2>2
<1>5. auto \in [1 .. n -> Seq(S)]
  <2>1. ASSUME NEW i \in 1 .. n PROVE AutoGoals(s.selectors[i]) \in Seq(S)
    <3> DEFINE a == AutoGoals(s.selectors[i])
    <3>1. a \in Seq(ToSet(a))
      BY <1>3 DEF IsSeq
    <3>2. ToSet(a) \subseteq S
      BY <1>2
    <3> HIDE DEF a, S
    <3> QED
      BY <3>1, <3>2 DEF a
  <2> HIDE DEF S
  <2> QED
    BY <1>2, <2>1
<1> HIDE DEF auto, n, T
<1>6. FlattenSeq(auto) \in Seq(S)
  <2> HIDE DEF S
  <2> QED
    BY <1>2, <1>5, FlattenIsSeq
<1>7. s.goals \in Seq(S)
  BY <1>1 DEF IsSeq
<1> HIDE DEF S
<1>8. gs \in Seq(S)
  BY <1>6, <1>7 DEF auto
<1>9. IsSeq(gs) /\ ToSet(gs) \subseteq S
  BY <1>8, SeqIsSeq
<1> QED
  BY <1>4, <1>9 DEF AreGoals, ToSet

-----------------------------------------------------------------------------
(* The steps. *)

\* What a solver returns reaches the goal, and Z3 returns a minimal trace.
LEMMA SolvedIsWitness ==
    ASSUME NEW g, NEW c, IsSeq(g.probes), Compiled(query, Len(g.probes), g, c),
           Len(query.constraints) = Len(g.probes)
    PROVE  /\ Solutions(c, query) = Reaches(c, g)
           /\ \A w \in Solved(c, query) : Witness([of |-> c, world |-> w], g, suite.backend)
<1>1. \A w \in c.worlds : Accepts(w, c, query) <=> Strictly(w, c, g)
  BY QueryIsStrict
<1>2. Solutions(c, query) = Reaches(c, g)
  BY <1>1 DEF Solutions, Reaches
<1>3. ASSUME NEW w \in Solved(c, query) PROVE Witness([of |-> c, world |-> w], g, suite.backend)
  <2>1. w \in Reaches(c, g)
    BY <1>2 DEF Solved
  <2>2. suite.backend = "z3" => \A v \in Reaches(c, g) : Hidden(c, w) <= Hidden(c, v)
    BY <1>2 DEF Solved
  <2> QED
    BY <2>1, <2>2 DEF Witness
<1> QED
  BY <1>2, <1>3

\* One more case is handled, with or without an outcome.
LEMMA HandledWithout ==
    ASSUME NEW fs, NEW n, NEW cs, NEW g, NEW b, n \in DOMAIN cs, IsSeq(cs), Handled(fs, n, cs, g, b),
           cs[n].hard \/ Reaches(cs[n], g) = {}
    PROVE  Handled(fs, n + 1, cs, g, b)
<1>1. n \in Nat /\ n >= 1
  BY DEF IsSeq
<1>2. 1 .. (n + 1) - 1 = (1 .. n - 1) \cup {n}
  BY <1>1
<1> QED
  BY <1>2 DEF Handled

LEMMA HandledWith ==
    ASSUME NEW fs, NEW n, NEW cs, NEW g, NEW b, n \in DOMAIN cs, IsSeq(cs), Handled(fs, n, cs, g, b),
           NEW f, f.of = cs[n], Witness(f, g, b)
    PROVE  Handled(Append(fs, f), n + 1, cs, g, b)
<1> DEFINE hs == Append(fs, f)
           Is(j) == cs[j].hard \/ Reaches(cs[j], g) = {}
<1>1. n \in Nat /\ n >= 1 /\ cs[n] \in ToSet(cs)
  BY DEF IsSeq, ToSet
<1>2. 1 .. (n + 1) - 1 = (1 .. n - 1) \cup {n}
  BY <1>1
<1>3. IsSeq(fs)
  BY DEF Handled
<1>4. /\ IsSeq(hs) /\ Len(fs) + 1 \in DOMAIN hs /\ hs[Len(fs) + 1] = f
      /\ \A i \in DOMAIN fs : i \in DOMAIN hs /\ hs[i] = fs[i]
      /\ \A i \in DOMAIN hs : i \in DOMAIN fs \/ i = Len(fs) + 1
  <2>1. IsSeq(hs) /\ Len(hs) = Len(fs) + 1 /\ hs[Len(fs) + 1] = f
    BY <1>3, Appending
  <2>2. \A i \in DOMAIN fs : i \in DOMAIN hs /\ hs[i] = fs[i]
    BY <1>3, Appending
  <2>3. \A i \in DOMAIN hs : i \in DOMAIN fs \/ i = Len(fs) + 1
    BY <1>3, Appending
  <2>4. Len(fs) \in Nat
    BY <1>3 DEF IsSeq
  <2> HIDE DEF hs
  <2>5. Len(fs) + 1 \in DOMAIN hs
    BY <2>1, <2>4 DEF IsSeq
  <2> QED
    BY <2>1, <2>2, <2>3, <2>5
<1> HIDE DEF hs, Is
<1>5. \A k \in DOMAIN hs : hs[k].of \in ToSet(cs) /\ Witness(hs[k], g, b)
  BY <1>1, <1>4 DEF Handled
<1>6. \A j \in 1 .. n - 1 : Is(j) \/ \E k \in DOMAIN fs : fs[k].of = cs[j]
  BY DEF Handled, Is
<1>7. \A j \in 1 .. (n + 1) - 1 : Is(j) \/ \E k \in DOMAIN hs : hs[k].of = cs[j]
  BY <1>2, <1>4, <1>6
<1> QED
  BY <1>4, <1>5, <1>7 DEF Handled, Is, hs

\* When every case is handled, the status and the witness say what they should.
LEMMA ConcludedClaims ==
    ASSUME NEW r, NEW fs, NEW cs, NEW g, NEW b, IsSeq(cs), Handled(fs, Len(cs) + 1, cs, g, b),
           r.status = "covered" => fs # << >>, r.status = "uncovered" => fs = << >>,
           fs # << >> => r.witness = <<Best(fs)>>,
           \A k \in DOMAIN fs : Scored(fs[k]), \A c \in ToSet(cs) : \A w \in c.worlds : Hidden(c, w) \in Nat
    PROVE  Claims(r, ToSet(cs), g, b)
<1> DEFINE Tried(c) == c.hard \/ Reaches(c, g) = {} \/ \E k \in DOMAIN fs : fs[k].of = c
           H(k) == Hidden(fs[k].of, fs[k].world)
<1>1. Len(cs) \in Nat /\ DOMAIN cs = 1 .. Len(cs)
  BY DEF IsSeq
<1>2. \A c \in ToSet(cs) : Tried(c)
  <2>1. 1 .. (Len(cs) + 1) - 1 = DOMAIN cs
    BY <1>1
  <2> QED
    BY <2>1 DEF Handled, ToSet
<1>3. CASE fs = << >>
  <2>1. \A c \in ToSet(cs) : ~ c.hard => Reaches(c, g) = {}
    BY <1>2, <1>3
  <2> QED
    BY <1>3, <2>1 DEF Claims
<1>4. CASE fs # << >>
  <2>1. PICK i \in DOMAIN fs : Best(fs) = fs[i] /\ \A j \in DOMAIN fs : H(i) <= H(j)
    BY <1>4, BestIsLeast DEF Handled
  <2>2. r.witness[1] = fs[i]
    BY <1>4, <2>1
  <2>3. fs[i].of \in ToSet(cs) /\ fs[i].world \in fs[i].of.worlds /\ Achieves(fs[i].world, fs[i].of, g)
    BY <2>1, StrictlyAchieves DEF Handled, Witness, Reaches
  <2>4. ASSUME \A c \in ToSet(cs) : ~ c.hard, b = "z3", NEW c \in ToSet(cs), NEW w \in Reaches(c, g)
        PROVE  H(i) <= Hidden(c, w)
    <3>1. PICK k \in DOMAIN fs : fs[k].of = c
      BY <1>2, <2>4
    <3>2. H(k) <= Hidden(c, w)
      BY <2>4, <3>1 DEF Handled, Witness
    <3>3. H(i) \in Nat /\ H(k) \in Nat /\ H(i) <= H(k)
      BY <2>1, <3>1 DEF Scored, Score
    <3>4. Hidden(c, w) \in Nat
      BY <2>4 DEF Reaches
    <3> QED
      BY <3>2, <3>3, <3>4
  <2> QED
    BY <1>4, <2>2, <2>3, <2>4 DEF Claims
<1> QED
  BY <1>3, <1>4

LEMMA InitInv == Init => Inv
<1> SUFFICES ASSUME Init PROVE Inv
  OBVIOUS
<1>1. << >> \in Seq({})
  OBVIOUS
<1>2. IsSeq(<< >>)
  BY <1>1, SeqIsSeq
<1>3. ToSet(<< >>) = {} /\ Len(<< >>) = 0 /\ DOMAIN << >> = {}
  BY DEF ToSet
<1>4. TypeOK
  BY <1>2, <1>3 DEF Init, TypeOK
<1>5. InvResults
  BY <1>2, <1>3 DEF Init, InvResults
<1>6. InvCases /\ InvQuery
  BY DEF Init, InvCases, InvQuery
<1> QED
  BY <1>4, <1>5, <1>6 DEF Inv

\* What the results say does not change while the cases and the goals do not.
LEMMA ResultsKept ==
    ASSUME InvResults, UNCHANGED <<suite, prepared, goals, goal, results>>,
           phase' \in {"load", "prepare"} => phase \in {"load", "prepare"}
    PROVE  InvResults'
<1>1. \A i \in DOMAIN results : CasesFor(goals[i])' = CasesFor(goals[i])
  BY DEF CasesFor
<1>2. \A i \in DOMAIN results : Claims(results[i], CasesFor(goals[i]), goals[i], suite.backend)
  BY DEF InvResults
<1>3. \A i \in DOMAIN results :
        Claims(results'[i], CasesFor(goals[i])', goals'[i], suite'.backend)
  BY <1>1, <1>2
<1>4. IsSeq(results) /\ goal = Len(results) + 1 /\ (phase \in {"load", "prepare"} => results = << >>)
  BY DEF InvResults
<1>5. IsSeq(results') /\ goal' = Len(results') + 1 /\ (phase' \in {"load", "prepare"} => results' = << >>)
  BY <1>4
<1>6. \A i \in DOMAIN results' :
        Claims(results'[i], CasesFor(goals[i])', goals'[i], suite'.backend)
  BY <1>3
<1> QED
  BY <1>5, <1>6 DEF InvResults, CasesFor

\* Until a goal is covered there are no results.
LEMMA NoResultsYet ==
    ASSUME InvResults, phase \in {"load", "prepare"}, UNCHANGED <<goal, results>>
    PROVE  InvResults'
<1>1. results = << >> /\ goal = Len(results) + 1 /\ IsSeq(results)
  BY DEF InvResults
<1>2. DOMAIN results' = {}
  BY <1>1
<1> QED
  BY <1>1, <1>2 DEF InvResults

LEMMA PreparationKeepsInv ==
    ASSUME Inv, Load \/ Prepare \/ Expand
    PROVE  Inv'
<1>1. InvResults /\ TypeOK
  BY DEF Inv
<1>2. phase \in {"load", "prepare"} /\ UNCHANGED <<suite, goal, results>>
  BY DEF Load, Prepare, Expand
<1>3. InvResults'
  BY <1>1, <1>2, NoResultsYet
<1>4. phase' \in {"prepare", "raised", "goal"}
  BY DEF Load, Prepare, Expand
<1>5. InvCases' /\ InvQuery'
  BY <1>4 DEF InvCases, InvQuery
<1>6. IsSeq(prepared') /\ ToSet(prepared') \subseteq ToSet(suite.cases)
  <2>1. CASE prepared' = prepared
    BY <1>1, <2>1 DEF TypeOK
  <2>2. CASE prepared' # prepared
    <3> DEFINE c == suite.cases[Len(prepared) + 1]
    <3>1. Prepare
      BY <2>2 DEF Load, Expand
    <3>2. prepared' = Append(prepared, c)
      BY <2>2, <3>1 DEF Prepare
    <3>3. IsSeq(prepared) /\ ToSet(prepared) \subseteq ToSet(suite.cases) /\ suite \in Suite
      BY <1>1 DEF TypeOK
    <3>4. IsSeq(suite.cases)
      BY <3>3, SuiteAssumption DEF IsSeq
    <3>5. Len(prepared) < Len(suite.cases) /\ Len(prepared) \in Nat
      BY <3>1, <3>3 DEF Prepare, IsSeq
    <3>6. c \in ToSet(suite.cases)
      BY <3>4, <3>5 DEF IsSeq, ToSet
    <3>7. IsSeq(prepared') /\ ToSet(prepared') = ToSet(prepared) \cup {c}
      <4> HIDE DEF c
      <4> QED
        BY <3>2, <3>3, Appending
    <3> QED
      BY <3>3, <3>6, <3>7
  <2> QED
    BY <2>1, <2>2
<1>7. phase' = "goal" => AreGoals(goals')
  <2> SUFFICES ASSUME phase' = "goal" PROVE AreGoals(goals')
    OBVIOUS
  <2>1. Expand
    BY DEF Load, Prepare
  <2> QED
    BY <1>1, <2>1, ExpandedAreGoals DEF Expand, TypeOK
<1>8. TypeOK'
  BY <1>1, <1>2, <1>4, <1>6, <1>7 DEF TypeOK
<1> QED
  BY <1>3, <1>5, <1>8 DEF Inv

\* The cases and the goal at hand do not change while a goal is covered.
Working ==
    /\ UNCHANGED <<suite, prepared, goals, goal, results>>
    /\ phase \in {"goal", "case", "compile"} /\ phase' \in {"goal", "case", "compile", "reported"}

LEMMA WorkingKeeps ==
    ASSUME Inv, Working
    PROVE  /\ TypeOK' /\ InvResults'
           /\ Goal' = Goal /\ Cases' = Cases /\ IsSeq(Cases) /\ ToSet(Cases) \subseteq ToSet(suite.cases)
           /\ AreGoals(goals)
<1>1. TypeOK /\ InvResults
  BY DEF Inv
<1>2. TypeOK'
  BY <1>1 DEF TypeOK, Working
<1>3. InvResults'
  BY <1>1, ResultsKept DEF Working
<1>4. Goal' = Goal /\ Cases' = Cases
  BY DEF Working, Goal, Cases
<1>5. IsSeq(Cases) /\ ToSet(Cases) \subseteq ToSet(suite.cases)
  BY <1>1, CasesOfIsSeq DEF TypeOK, Cases
<1>6. AreGoals(goals)
  BY <1>1 DEF TypeOK, Working
<1> QED
  BY <1>2, <1>3, <1>4, <1>5, <1>6

LEMMA CasesKeepInv ==
    ASSUME Inv, Begin \/ NextCase \/ Report
    PROVE  Inv'
<1>1. Working
  BY DEF Working, Begin, NextCase, Report
<1>2. /\ TypeOK' /\ InvResults'
      /\ Goal' = Goal /\ Cases' = Cases /\ IsSeq(Cases)
      /\ AreGoals(goals)
  BY <1>1, WorkingKeeps
<1>3. Len(Cases) \in Nat /\ DOMAIN Cases = 1 .. Len(Cases)
  BY <1>2 DEF IsSeq
<1>4. CASE Begin
  <2>1. InvCases'
    <3>1. goal \in DOMAIN goals
      <4>1. goal \in Nat \ {0}
        BY DEF Inv, InvResults, IsSeq
      <4>2. DOMAIN goals = 1 .. Len(goals)
        BY <1>2 DEF AreGoals, IsSeq
      <4> QED
        BY <1>4, <4>1, <4>2 DEF Begin
    <3>2. 1 \in 1 .. Len(Cases) + 1
      BY <1>3
    <3>3. Handled(<< >>, 1, Cases, Goal, suite.backend)
      <4>1. << >> \in Seq({})
        OBVIOUS
      <4>2. IsSeq(<< >>)
        BY <4>1, SeqIsSeq
      <4> QED
        BY <4>2 DEF Handled
    <3>4. case' = 1 /\ feasible' = << >> /\ UNCHANGED <<goal, goals, suite>>
      BY <1>4 DEF Begin
    <3> QED
      BY <1>2, <3>1, <3>2, <3>3, <3>4 DEF InvCases
  <2>2. InvQuery'
    BY <1>4 DEF Begin, InvQuery
  <2> QED
    BY <1>2, <2>1, <2>2 DEF Inv
<1>5. CASE NextCase
  <2>1. InvCases
    BY DEF Inv
  <2>2. goal \in DOMAIN goals /\ case \in 1 .. Len(Cases) + 1 /\ Handled(feasible, case, Cases, Goal, suite.backend)
    BY <1>5, <2>1 DEF InvCases, NextCase
  <2>3. UNCHANGED <<goal, goals, case, feasible, suite>>
    BY <1>5 DEF NextCase
  <2>4. InvCases'
    BY <1>2, <2>2, <2>3 DEF InvCases
  <2>5. case \in DOMAIN Cases
    BY <1>3, <1>5, <2>2 DEF NextCase
  <2>6. Case' = Case
    BY <1>2, <2>3 DEF Case
  <2>7. probe' = 1 /\ query' = Fresh /\ Len(Goal.probes) \in Nat
    BY <1>2, <1>5, <2>2 DEF NextCase, AreGoals, Goal, IsSeq
  <2>8. Compiled(Fresh, 0, Goal, Case)
    BY NothingCompiled
  <2>9. InvQuery'
    BY <1>2, <2>3, <2>5, <2>6, <2>7, <2>8 DEF InvQuery
  <2> QED
    BY <1>2, <2>4, <2>9 DEF Inv
<1>6. CASE Report
  BY <1>2, <1>6 DEF Inv, InvCases, InvQuery, Report
<1> QED
  BY <1>4, <1>5, <1>6

LEMMA CompileKeepsInv ==
    ASSUME Inv, Compile
    PROVE  Inv'
<1>1. Working
  BY DEF Working, Compile
<1>2. /\ TypeOK' /\ InvResults'
      /\ Goal' = Goal /\ Cases' = Cases /\ IsSeq(Cases)
      /\ AreGoals(goals)
  BY <1>1, WorkingKeeps
<1>3. InvCases /\ InvQuery /\ phase = "compile"
  BY DEF Inv, Compile
<1>4. UNCHANGED <<goal, goals, case, feasible, suite, phase>>
  BY DEF Compile
<1>5. Case' = Case
  BY <1>2, <1>4 DEF Case
<1>6. InvCases'
  BY <1>2, <1>3, <1>4 DEF InvCases
<1>7. Compiled(query, probe - 1, Goal, Case) /\ probe \in 1 .. Len(Goal.probes) + 1 /\ case \in DOMAIN Cases
  BY <1>3 DEF InvQuery
<1>8. Len(Goal.probes) \in Nat
  BY <1>2, <1>3 DEF AreGoals, Goal, InvCases, IsSeq
<1>9. probe' = probe + 1 /\ probe \in Nat /\ probe - 1 \in Nat /\ (probe - 1) + 1 = probe
      /\ probe + 1 \in 1 .. Len(Goal.probes) + 1 /\ (probe + 1) - 1 = probe
  BY <1>7, <1>8 DEF Compile
<1>10. Compiled(query', probe, Goal, Case)
  <2> DEFINE n == probe - 1
  <2>1. /\ query'.constraints = (IF Alternatives(Case, Goal.probes[n + 1]) = {} THEN query.constraints
                                 ELSE Append(query.constraints, Goal.probes[n + 1]))
        /\ query'.requirements = query.requirements \cup Requirements(Case, Goal.probes[n + 1])
    BY <1>9 DEF Compile
  <2> HIDE DEF n
  <2>2. n \in Nat /\ Compiled(query, n, Goal, Case)
    BY <1>7, <1>9 DEF n
  <2>3. Compiled(query', n + 1, Goal, Case)
    BY <2>1, <2>2, CompilingOne
  <2> QED
    BY <1>9, <2>3 DEF n
<1>11. InvQuery'
  BY <1>2, <1>4, <1>5, <1>7, <1>9, <1>10 DEF InvQuery
<1> QED
  BY <1>2, <1>6, <1>11 DEF Inv

\* A case is left with a missing probe, an outcome or none.
LEMMA CaseDoneKeepsInv ==
    ASSUME Inv, Miss \/ Found \/ Refuted \/ Undecided
    PROVE  Inv'
<1>1. Working /\ phase = "compile" /\ phase' = "case" /\ case' = case + 1 /\ probe > Len(Goal.probes)
  BY DEF Working, Miss, Found, Refuted, Undecided, Solving
<1>2. /\ TypeOK' /\ InvResults'
      /\ Goal' = Goal /\ Cases' = Cases /\ IsSeq(Cases)
      /\ AreGoals(goals)
  BY <1>1, WorkingKeeps
<1>3. InvCases /\ InvQuery
  BY DEF Inv
<1>4. /\ goal \in DOMAIN goals /\ case \in DOMAIN Cases
      /\ Handled(feasible, case, Cases, Goal, suite.backend)
      /\ Compiled(query, probe - 1, Goal, Case) /\ probe \in 1 .. Len(Goal.probes) + 1
  BY <1>1, <1>3 DEF InvCases, InvQuery
<1>5. IsSeq(Goal.probes) /\ Len(Goal.probes) \in Nat
  BY <1>2, <1>4 DEF AreGoals, Goal, IsSeq
<1>6. probe - 1 = Len(Goal.probes)
  BY <1>1, <1>4, <1>5
<1>7. Compiled(query, Len(Goal.probes), Goal, Case)
  BY <1>4, <1>6
<1>8. Case = Cases[case]
  BY DEF Case
<1>9. Handled(feasible', case + 1, Cases, Goal, suite.backend)
  <2>1. CASE Miss
    <3>1. Reaches(Case, Goal) = {}
      BY <1>5, <1>7, <2>1, MissedIsRefuted DEF Miss, Reaches
    <3>2. feasible' = feasible
      BY <2>1 DEF Miss
    <3> QED
      BY <1>2, <1>4, <1>8, <3>1, <3>2, HandledWithout
  <2>2. CASE Found
    <3>1. PICK w \in Solved(Case, query) : feasible' = Append(feasible, [of |-> Case, world |-> w])
      BY <2>2 DEF Found
    <3>2. Len(query.constraints) = Len(Goal.probes)
      BY <2>2 DEF Found, Solving
    <3>3. Witness([of |-> Case, world |-> w], Goal, suite.backend)
      BY <1>5, <1>7, <3>1, <3>2, SolvedIsWitness
    <3> DEFINE f == [of |-> Case, world |-> w]
    <3>4. f.of = Cases[case]
      BY <1>8
    <3> HIDE DEF f
    <3> QED
      BY <1>2, <1>4, <3>1, <3>3, <3>4, HandledWith DEF f
  <2>3. CASE Refuted
    <3>1. Len(query.constraints) = Len(Goal.probes) /\ Solutions(Case, query) = {} /\ feasible' = feasible
      BY <2>3 DEF Refuted, Solving
    <3>2. Reaches(Case, Goal) = {}
      BY <1>5, <1>7, <3>1, SolvedIsWitness
    <3> QED
      BY <1>2, <1>4, <1>8, <3>1, <3>2, HandledWithout
  <2>4. CASE Undecided
    BY <1>2, <1>4, <1>8, <2>4, HandledWithout DEF Undecided
  <2> QED
    BY <2>1, <2>2, <2>3, <2>4
<1>10. case + 1 \in 1 .. Len(Cases) + 1
  BY <1>2, <1>4 DEF IsSeq
<1>11. InvCases'
  BY <1>1, <1>2, <1>4, <1>9, <1>10 DEF InvCases, Working
<1>12. InvQuery'
  BY <1>1 DEF InvQuery
<1> QED
  BY <1>2, <1>11, <1>12 DEF Inv

LEMMA ConcludeKeepsInv ==
    ASSUME Inv, Conclude
    PROVE  Inv'
<1> DEFINE r == [status |-> Status, witness |-> IF feasible = << >> THEN << >> ELSE <<Best(feasible)>>]
<1>1. TypeOK /\ InvResults /\ InvCases
  BY DEF Inv
<1>2. /\ phase = "case" /\ phase' = "goal" /\ goal' = goal + 1 /\ results' = Append(results, r)
      /\ UNCHANGED <<suite, prepared, goals>> /\ case > Len(Cases)
  BY DEF Conclude
<1>3. TypeOK'
  BY <1>1, <1>2 DEF TypeOK
<1>4. InvCases' /\ InvQuery'
  BY <1>2 DEF InvCases, InvQuery
<1>5. IsSeq(Cases) /\ ToSet(Cases) \subseteq ToSet(suite.cases) /\ suite \in Suite
  BY <1>1, CasesOfIsSeq DEF TypeOK, Cases
<1>6. Handled(feasible, Len(Cases) + 1, Cases, Goal, suite.backend)
  <2>1. case \in 1 .. Len(Cases) + 1 /\ Handled(feasible, case, Cases, Goal, suite.backend)
    BY <1>1, <1>2 DEF InvCases
  <2>2. Len(Cases) \in Nat
    BY <1>5 DEF IsSeq
  <2>3. case = Len(Cases) + 1
    BY <1>2, <2>1, <2>2
  <2> QED
    BY <2>1, <2>3
<1>7. \A k \in DOMAIN feasible : Scored(feasible[k])
  BY <1>5, <1>6, OutcomesAreScored DEF Handled, Witness, Reaches
<1>8. \A c \in ToSet(Cases) : \A w \in c.worlds : Hidden(c, w) \in Nat
  BY <1>5, HiddenIsNumber
<1>9. (r.status = "covered" => feasible # << >>) /\ (r.status = "uncovered" => feasible = << >>)
  BY DEF Status
<1>10. feasible # << >> => r.witness = <<Best(feasible)>>
  OBVIOUS
<1>11. CasesFor(Goal) = ToSet(Cases)
  BY DEF CasesFor, Cases
<1> HIDE DEF r
<1>12. Claims(r, CasesFor(Goal), Goal, suite.backend)
  BY <1>5, <1>6, <1>7, <1>8, <1>9, <1>10, <1>11, ConcludedClaims
<1>13. IsSeq(results) /\ goal = Len(results) + 1
       /\ \A i \in DOMAIN results : Claims(results[i], CasesFor(goals[i]), goals[i], suite.backend)
  BY <1>1 DEF InvResults
<1>14. IsSeq(results') /\ Len(results') = Len(results) + 1
  BY <1>2, <1>13, Appending
<1>15. ASSUME NEW i \in DOMAIN results'
       PROVE  Claims(results'[i], CasesFor(goals[i]), goals[i], suite.backend)
  <2>1. (i \in DOMAIN results /\ results'[i] = results[i]) \/ (i = goal /\ results'[i] = r)
    <3>1. i \in DOMAIN results \/ i = Len(results) + 1
      BY <1>2, <1>13, <1>15, Appending
    <3>2. \A k \in DOMAIN results : results'[k] = results[k]
      BY <1>2, <1>13, Appending
    <3>3. results'[Len(results) + 1] = r
      BY <1>2, <1>13, Appending
    <3> QED
      BY <1>13, <3>1, <3>2, <3>3
  <2>2. i = goal => goals[i] = Goal
    BY DEF Goal
  <2> QED
    BY <1>12, <1>13, <2>1, <2>2
<1>16. \A i \in DOMAIN results' :
         Claims(results'[i], CasesFor(goals[i])', goals'[i], suite'.backend)
  BY <1>2, <1>15 DEF CasesFor
<1>17. InvResults'
  BY <1>2, <1>13, <1>14, <1>16 DEF InvResults, CasesFor
<1> QED
  BY <1>3, <1>4, <1>17 DEF Inv

LEMMA StutterKeepsInv ==
    ASSUME Inv, UNCHANGED vars
    PROVE  Inv'
BY DEF Inv, TypeOK, InvResults, InvCases, InvQuery, vars, goalVars, Goal, Cases, Case, CasesFor

LEMMA SpecInv == Spec => []Inv
<1>1. Inv /\ [Next]_vars => Inv'
  BY PreparationKeepsInv, CasesKeepInv, CompileKeepsInv, CaseDoneKeepsInv, ConcludeKeepsInv,
     StutterKeepsInv DEF Next
<1> QED
  BY InitInv, <1>1, PTL DEF Spec

-----------------------------------------------------------------------------
(* What the report says. *)

\* The phases, the prepared cases and the goals are what the operations leave of them,
\* and generated goals are lists of probes like the others.
THEOREM TypeCorrect == Spec => []TypeOK
<1>1. Inv => TypeOK
  BY DEF Inv
<1> QED
  BY SpecInv, <1>1, PTL

\* A goal is reported covered only with a trace of one of its cases that reaches it; with
\* Z3, when no solver gave up, no trace of any of its cases has fewer hidden events.
THEOREM CoveredIsReached == Spec => []CoveredIsWitnessed
<1>1. Inv => CoveredIsWitnessed
  BY DEF Inv, InvResults, Claims, CoveredIsWitnessed, Decided, Reaches
<1> QED
  BY SpecInv, <1>1, PTL

\* A trace that reaches a goal by its only match meets the query of the goal.
LEMMA UnambiguousIsStrict ==
    ASSUME NEW w, NEW c, NEW g, Unambiguous(w, c, g), Achieves(w, c, g)
    PROVE  Strictly(w, c, g)
<1>1. ASSUME NEW i \in DOMAIN g.probes, NEW b \in Alternatives(c, g.probes[i]),
             Conditional(g.probes[i], b), Meets(w, g.probes[i], b)
      PROVE  Permits(w, g.probes[i], b)
  <2>1. PICK a \in Alternatives(c, g.probes[i]) :
            Meets(w, g.probes[i], a) /\ (Conditional(g.probes[i], a) => Permits(w, g.probes[i], a))
    BY DEF Achieves
  <2>2. a = b
    BY <1>1, <2>1 DEF Unambiguous
  <2> QED
    BY <1>1, <2>1, <2>2
<1> QED
  BY <1>1 DEF Strictly

\* A goal is reported uncovered only when no trace of its cases reaches it by a match that
\* is the only one of its probe, or one of its solvers gave up.
THEOREM UncoveredIsUnreached == Spec => []UncoveredIsRefuted
<1>1. ASSUME InvResults, NEW i \in DOMAIN results, results[i].status = "uncovered", Decided(goals[i]),
             NEW c \in CasesFor(goals[i]), NEW w \in c.worlds, Unambiguous(w, c, goals[i])
      PROVE  ~ Achieves(w, c, goals[i])
  <2>1. ~ Strictly(w, c, goals[i])
    BY <1>1 DEF InvResults, Claims, Decided, Reaches
  <2> QED
    BY <1>1, <2>1, UnambiguousIsStrict
<1>2. Inv => UncoveredIsRefuted
  BY <1>1 DEF Inv, UncoveredIsRefuted
<1> QED
  BY SpecInv, <1>2, PTL
=============================================================================
