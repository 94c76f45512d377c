---------------------------- MODULE HierarchyProofs ----------------------------
(***************************************************************************)
(* Proofs about Hierarchy.  Four invariants of the way of a trace:         *)
(*   TraceInv    what was abstracted and checked, and with which verdict;  *)
(*   ComposeInv  what every phase of a composition has loaded, merged and  *)
(*               mapped: the names of the model count its declarations;    *)
(*   OriginInv   the slot and the module a completed event comes from;     *)
(*   StrictInv   what a strict composition says of slots and events.       *)
(* From them follow what a composed model keeps apart, what a projection   *)
(* and an abstraction keep of a trace, and what passes the check.          *)
(***************************************************************************)
EXTENDS Hierarchy, FiniteSetTheorems, TLAPS

-----------------------------------------------------------------------------
(* The way of the trace. *)

ComposePhases == {"open", "roles", "load", "wire", "merge", "map"}

\* A step of the composition, and the places it leads to.
LEMMA ComposingStep ==
    ASSUME Composing
    PROVE  /\ phase \in ComposePhases
           /\ phase' \in ComposePhases \cup {"composed", "raised"}
           /\ project' = project /\ trace' = trace
           /\ completed' = completed /\ projected' = projected /\ source' = source
           /\ actual' = actual /\ verdict' = verdict
<1>1. completed' = completed /\ projected' = projected /\ source' = source
      /\ actual' = actual /\ verdict' = verdict
  BY DEF Composing, later
<1> SUFFICES /\ phase \in ComposePhases /\ phase' \in ComposePhases \cup {"composed", "raised"}
             /\ project' = project /\ trace' = trace
  BY <1>1
<1> USE DEF ComposePhases
<1>2. CASE Open
  BY <1>2 DEF Open
<1>3. CASE ResolveRole
  BY <1>3 DEF ResolveRole
<1>4. CASE RolesResolved
  BY <1>4 DEF RolesResolved
<1>5. CASE LoadModule
  BY <1>5 DEF LoadModule
<1>6. CASE Loaded
  BY <1>6 DEF Loaded
<1>7. CASE Connect
  BY <1>7 DEF Connect
<1>8. CASE RequirePorts
  BY <1>8 DEF RequirePorts
<1>9. CASE Merge
  BY <1>9 DEF Merge
<1>10. CASE AllMerged
  BY <1>10 DEF AllMerged
<1>11. CASE MapConnection
  BY <1>11 DEF MapConnection
<1>12. CASE Compose
  BY <1>12 DEF Compose
<1> QED
  BY <1>2, <1>3, <1>4, <1>5, <1>6, <1>7, <1>8, <1>9, <1>10, <1>11, <1>12 DEF Composing, ComposeNext

-----------------------------------------------------------------------------
(* A refinement check that says "valid". *)

\* A verdict is given at the end, and of what is there.
VerdictStands == verdict # "none" => phase = "checked"

LEMMA ValidIsJustified ==
    ASSUME NEW spec, NEW s, NEW a, Verdict(spec, s, a) = "valid" PROVE Justified(spec, s, a)
<1> DEFINE concrete == {e \in s.events : e.occurs}
           summaries == UNION {{Summary(r, m) : m \in Matches(r, concrete)} : r \in ToSet(spec.rules)}
           evidence == EvidenceOf(spec, concrete)
           kept == {e \in concrete : Keeps(spec, e, SourcesToHide(spec, concrete))}
           outputs == {v.output : v \in evidence}
<1>1. /\ AbstractTrace(spec, s) # NoTrace
      /\ AbstractTrace(spec, s).events = a.events
      /\ AbstractTrace(spec, s).certificate = a.certificate
  BY Zenon DEF Verdict
<1>2. AbstractTrace(spec, s) = Abstraction(spec, s)
  BY <1>1 DEF AbstractTrace
<1>3. Abstraction(spec, s).events = kept \cup outputs /\ Abstraction(spec, s).certificate.source = s
  BY DEF Abstraction
<1>4. outputs = summaries
  <2>1. \A r, m : Evidence(r, m).output = Summary(r, m)
    BY DEF Evidence
  <2>2. \A v : v \in evidence <=> \E r \in ToSet(spec.rules) : \E m \in Matches(r, concrete) : v = Evidence(r, m)
    BY DEF EvidenceOf
  <2>3. \A x : x \in summaries <=> \E r \in ToSet(spec.rules) : \E m \in Matches(r, concrete) : x = Summary(r, m)
    OBVIOUS
  <2> HIDE DEF evidence, summaries, concrete
  <2>4. \A x : x \in outputs <=> \E v \in evidence : x = v.output
    OBVIOUS
  <2> HIDE DEF outputs
  <2>5. \A x : x \in outputs <=> x \in summaries
    BY <2>1, <2>2, <2>3, <2>4
  <2> QED
    BY <2>5
<1>5. ASSUME NEW e \in kept PROVE e \in concrete /\ (e.id \in SourcesToHide(spec, concrete) => Explicit(spec, e))
  BY DEF Keeps
<1> HIDE DEF kept, outputs, summaries, concrete, evidence
<1>6. /\ summaries \subseteq a.events
      /\ \A e \in a.events \ summaries :
            e \in concrete /\ (e.id \in SourcesToHide(spec, concrete) => Explicit(spec, e))
      /\ a.certificate.source = s
  BY <1>1, <1>2, <1>3, <1>4, <1>5
<1> QED
  BY <1>6 DEF summaries, concrete, Justified

\* Whatever the check of an abstraction was given, if it passes then every event is one of
\* the source that is not due to be hidden or a summary of a match, and no summary is
\* missing (`check_refinement`).
THEOREM ValidMeansJustified == Spec => []OnlyJustifiedPasses
<1>1. Init => VerdictStands /\ OnlyJustifiedPasses
  BY DEF Init, VerdictStands, OnlyJustifiedPasses
<1>2. VerdictStands /\ OnlyJustifiedPasses /\ [Next]_vars => (VerdictStands /\ OnlyJustifiedPasses)'
  <2> SUFFICES ASSUME VerdictStands, OnlyJustifiedPasses, [Next]_vars
               PROVE  VerdictStands' /\ OnlyJustifiedPasses'
    OBVIOUS
  <2>1. ASSUME verdict = "none", verdict' = verdict PROVE VerdictStands' /\ OnlyJustifiedPasses'
    BY <2>1 DEF VerdictStands, OnlyJustifiedPasses
  <2>2. ASSUME phase # "checked" PROVE verdict = "none"
    BY <2>2 DEF VerdictStands
  <2>3. CASE Composing
    BY <2>1, <2>2, <2>3, ComposingStep DEF ComposePhases
  <2>4. CASE Complete
    BY <2>1, <2>2, <2>4 DEF Complete
  <2>5. CASE Recompose
    BY <2>1, <2>2, <2>5 DEF Recompose, later
  <2>6. CASE ProjectInterface
    BY <2>1, <2>2, <2>6 DEF ProjectInterface
  <2>7. CASE Abstract
    BY <2>1, <2>2, <2>7 DEF Abstract
  <2>8. CASE CheckRefinement
    <3>1. phase' = "checked" /\ source' = source /\ project' = project
          /\ verdict' = Verdict(project.abstraction, source, actual')
      BY <2>8 DEF CheckRefinement
    <3>2. VerdictStands'
      BY <3>1 DEF VerdictStands
    <3>3. verdict' = "valid" => Justified(project.abstraction, source, actual')
      BY <3>1, ValidIsJustified
    <3> QED
      BY <3>1, <3>2, <3>3 DEF OnlyJustifiedPasses
  <2>9. CASE UNCHANGED vars
    BY <2>9 DEF vars, VerdictStands, OnlyJustifiedPasses
  <2> QED
    BY <2>3, <2>4, <2>5, <2>6, <2>7, <2>8, <2>9 DEF Next
<1> QED
  BY <1>1, <1>2, PTL DEF Spec

-----------------------------------------------------------------------------
(* Traces that name their events apart, and constraints that refer to them. *)

DistinctIds(S) == \A d, e \in S : d.id = e.id => d = e

\* A surviving constraint speaks of events that are all kept, or of summaries that are
\* named like none that was hidden.
LEMMA AbstractionKeepsMeaning ==
    ASSUME NEW spec, NEW s, DistinctIds(s.events), \A e \in s.events : e.occurs, ValidTrace(s),
           NEW a, a = AbstractTrace(spec, s), a # NoTrace,
           {v.output.id : v \in a.certificate.summaries} \cap a.certificate.hidden = {},
           NEW c \in a.constraints, NEW id \in c
    PROVE  {e \in a.events : e.id = id} = {e \in s.events : e.id = id}
<1> DEFINE concrete == {e \in s.events : e.occurs}
           hide == SourcesToHide(spec, concrete)
           kept == {e \in concrete : Keeps(spec, e, hide)}
           evidence == EvidenceOf(spec, concrete)
           outputs == {v.output : v \in evidence}
           ids == {e.id : e \in kept \cup outputs}
<1>1. concrete = s.events
  OBVIOUS
<1>2. a = Abstraction(spec, s) /\ Distinguished(spec, s)
  BY DEF AbstractTrace
<1>3. /\ a.events = kept \cup outputs
      /\ a.constraints = {d \in s.constraints : d \subseteq ids}
      /\ a.certificate.summaries = evidence
      /\ a.certificate.hidden = {e.id : e \in concrete \ kept}
  <2> DEFINE preserved == {d \in s.constraints : d \subseteq ids}
             certificate == [source |-> s, retained |-> {e.id : e \in kept},
                             hidden |-> {e.id : e \in concrete \ kept}, summaries |-> evidence,
                             dropped |-> Cardinality(s.constraints \ preserved)]
  <2>1. a = [events |-> kept \cup outputs, constraints |-> preserved, certificate |-> certificate]
    BY <1>2, Zenon DEF Abstraction
  <2> HIDE DEF kept, outputs, ids, evidence
  <2> QED
    BY <2>1
<1>4. \A e \in kept : \A v \in evidence : v.output.id # e.id
  BY <1>2 DEF Distinguished
<1> HIDE DEF evidence, hide, concrete
<1>5. id \in ids /\ id \in Ids(s.events)
  BY <1>3 DEF ValidTrace
<1>6. PICK e \in concrete : e.id = id
  BY <1>1, <1>5 DEF Ids
<1>7. {d \in s.events : d.id = id} = {e}
  BY <1>1, <1>6 DEF DistinctIds
<1>8. \A v \in evidence : v.output.id # id
  BY <1>3, <1>4, <1>6
<1>9. e \in kept
  BY <1>1, <1>5, <1>6, <1>8 DEF DistinctIds
<1>10. kept \subseteq s.events
  BY <1>1
<1> QED
  BY <1>3, <1>6, <1>7, <1>8, <1>9, <1>10

\* A completed trace has the events that occur, the slots that were selected, and
\* constraints on these.
TraceInv ==
    /\ project \in Project
    /\ DistinctIds(trace)
    /\ \A e \in trace : DOMAIN e = EventFields
    /\ completed => (\A e \in trace : e.occurs) /\ ValidTrace(CompletedTrace)
    /\ phase \in {"projected", "abstracted"} =>
        completed /\ projected.events \subseteq trace /\ ValidTrace(projected)
    /\ phase = "abstracted" =>
        /\ source \in {projected, CompletedTrace}
        /\ actual = AbstractTrace(project.abstraction, source)
        /\ actual # NoTrace

LEMMA MaterializedTrace ==
    ASSUME TraceInv, Ids(trace) \cap DOMAIN model.slots = {},
           NEW S \in SUBSET DOMAIN model.slots, NEW O \in SUBSET {e \in trace : ~ e.occurs},
           NEW T, T = Materialized(S, O).events
    PROVE  /\ DistinctIds(T)
           /\ \A e \in T : DOMAIN e = EventFields /\ e.occurs
<1> DEFINE old == {e \in trace : e.occurs}
           late == {[e EXCEPT !.occurs = TRUE] : e \in O}
           new == {SlotEvent(id) : id \in S}
<1>1. T = old \cup late \cup new
  BY DEF Materialized
<1>2. ASSUME NEW e \in late
      PROVE  \E o \in O : e.id = o.id /\ e = [o EXCEPT !.occurs = TRUE] /\ DOMAIN e = EventFields /\ e.occurs
  <2>1. PICK o \in O : e = [o EXCEPT !.occurs = TRUE]
    OBVIOUS
  <2>2. DOMAIN o = EventFields
    BY DEF TraceInv
  <2> QED
    BY <2>1, <2>2 DEF EventFields
<1>3. ASSUME NEW e \in new
      PROVE  \E id \in S : e.id = id /\ e = SlotEvent(id) /\ DOMAIN e = EventFields /\ e.occurs
  BY DEF SlotEvent, EventFields
<1> HIDE DEF late, new
<1>4. \A e \in new : e.id \in DOMAIN model.slots
  BY <1>3
<1>5. \A e \in old \cup late : e.id \in Ids(trace)
  BY <1>2 DEF Ids
<1>6. \A d, e \in trace : d.id = e.id => d = e
  BY DEF TraceInv, DistinctIds
<1>7. ASSUME NEW d \in T, NEW e \in T, d.id = e.id PROVE d = e
  <2>1. CASE d \in new /\ e \in new
    BY <2>1, <1>3, <1>7
  <2>2. CASE d \in old /\ e \in old
    BY <2>2, <1>6, <1>7
  <2>3. CASE d \in late /\ e \in late
    <3>1. PICK o \in O : d.id = o.id /\ d = [o EXCEPT !.occurs = TRUE]
      BY <2>3, <1>2
    <3>2. PICK q \in O : e.id = q.id /\ e = [q EXCEPT !.occurs = TRUE]
      BY <2>3, <1>2
    <3>3. o = q
      BY <3>1, <3>2, <1>6, <1>7
    <3> QED
      BY <3>1, <3>2, <3>3
  <2>4. CASE d \in old /\ e \in late
    BY <2>4, <1>2, <1>6, <1>7
  <2>5. CASE d \in late /\ e \in old
    BY <2>5, <1>2, <1>6, <1>7
  <2> QED
    BY <2>1, <2>2, <2>3, <2>4, <2>5, <1>1, <1>4, <1>5, <1>7
<1>8. \A e \in T : DOMAIN e = EventFields /\ e.occurs
  BY <1>1, <1>2, <1>3 DEF TraceInv
<1> QED
  BY <1>7, <1>8 DEF DistinctIds

LEMMA TraceInit == Init => TraceInv
<1> SUFFICES ASSUME Init PROVE TraceInv
  OBVIOUS
<1>1. project \in Project /\ trace = project.events /\ phase = "open" /\ completed = FALSE
  BY DEF Init
<1>2. DistinctIds(trace) /\ \A e \in trace : DOMAIN e = EventFields
  BY <1>1, ProjectAssumption DEF DistinctIds
<1> QED
  BY <1>1, <1>2 DEF TraceInv

LEMMA TraceStep == TraceInv /\ [Next]_vars => TraceInv'
<1> SUFFICES ASSUME TraceInv, [Next]_vars PROVE TraceInv'
  OBVIOUS
<1>1. ASSUME project' = project, trace' = trace, completed' = completed,
             phase' \notin {"projected", "abstracted"}
      PROVE  TraceInv'
  BY <1>1 DEF TraceInv, CompletedTrace
<1>2. CASE Composing
  BY <1>1, <1>2, ComposingStep DEF ComposePhases
<1>3. CASE Complete
  <2>1. project' = project /\ phase' \in {"raised", "completed"}
    BY <1>3 DEF Complete
  <2>2. CASE UNCHANGED <<trace, completed>>
    BY <1>1, <2>1, <2>2
  <2>3. CASE ~ UNCHANGED <<trace, completed>>
    <3>1. /\ Completable
          /\ \E S \in SUBSET DOMAIN model.slots : \E O \in SUBSET {e \in trace : ~ e.occurs} :
                ValidTrace(Materialized(S, O)) /\ trace' = Materialized(S, O).events
      BY <1>3, <2>3 DEF Complete
    <3>2. PICK S \in SUBSET DOMAIN model.slots : \E O \in SUBSET {e \in trace : ~ e.occurs} :
                ValidTrace(Materialized(S, O)) /\ trace' = Materialized(S, O).events
      BY <3>1
    <3>3. PICK O \in SUBSET {e \in trace : ~ e.occurs} :
                ValidTrace(Materialized(S, O)) /\ trace' = Materialized(S, O).events
      BY <3>2
    <3>4. DistinctIds(trace') /\ \A e \in trace' : DOMAIN e = EventFields /\ e.occurs
      <4>1. Ids(trace) \cap DOMAIN model.slots = {}
        BY <3>1 DEF Completable
      <4> QED
        BY <3>3, <4>1, MaterializedTrace
    <3>5. Materialized(S, O).constraints = project.claims
      BY DEF Materialized
    <3>6. ValidTrace([events |-> trace', constraints |-> project.claims])
      BY <3>3, <3>5 DEF ValidTrace
    <3> QED
      BY <2>1, <3>4, <3>6 DEF TraceInv, CompletedTrace
  <2> QED
    BY <2>2, <2>3
<1>4. CASE Recompose
  BY <1>1, <1>4 DEF Recompose, later
<1>5. CASE ProjectInterface
  <2>1. project' = project /\ trace' = trace /\ completed' = completed /\ completed /\ phase' = "projected"
        /\ projected' = ProjectTrace(trace, CompletedTrace.constraints)
    BY <1>5 DEF ProjectInterface
  <2>2. projected'.events \subseteq trace /\ ValidTrace(projected')
    BY <2>1 DEF ProjectTrace, ValidTrace, Preserved
  <2> QED
    BY <2>1, <2>2 DEF TraceInv, CompletedTrace
<1>6. CASE Abstract
  <2>1. /\ phase = "projected" /\ project' = project /\ trace' = trace /\ completed' = completed
        /\ projected' = projected /\ source' \in {projected, CompletedTrace}
        /\ phase' \in {"refused", "abstracted"}
    BY <1>6 DEF Abstract
  <2>2. phase' = "abstracted" =>
            actual' = AbstractTrace(project.abstraction, source') /\ actual' # NoTrace
    BY <1>6 DEF Abstract
  <2> QED
    BY <2>1, <2>2 DEF TraceInv, CompletedTrace
<1>7. CASE CheckRefinement
  BY <1>1, <1>7 DEF CheckRefinement
<1>8. CASE UNCHANGED vars
  BY <1>8 DEF vars, TraceInv, CompletedTrace
<1> QED
  BY <1>2, <1>3, <1>4, <1>5, <1>6, <1>7, <1>8 DEF Next

LEMMA TraceKeepsMeaning == TraceInv => ConstraintsKeepMeaning
<1> SUFFICES ASSUME TraceInv, phase = "abstracted", NewNames,
                    NEW c \in actual.constraints, NEW id \in c
             PROVE  {e \in actual.events : e.id = id} = {e \in source.events : e.id = id}
  BY DEF ConstraintsKeepMeaning
<1>1. /\ actual = AbstractTrace(project.abstraction, source) /\ actual # NoTrace
      /\ source \in {projected, CompletedTrace}
  BY DEF TraceInv
<1>2. source.events \subseteq trace /\ ValidTrace(source)
  BY <1>1 DEF TraceInv, CompletedTrace
<1>3. DistinctIds(source.events) /\ \A e \in source.events : e.occurs
  BY <1>2 DEF TraceInv, DistinctIds
<1>4. {v.output.id : v \in actual.certificate.summaries} \cap actual.certificate.hidden = {}
  BY DEF NewNames
<1> QED
  BY <1>1, <1>2, <1>3, <1>4, AbstractionKeepsMeaning

\* Unless a summary is named like a hidden event, a constraint that survives an abstraction
\* speaks of the same events as before: completion names its events apart, a projection and
\* an abstraction drop every constraint whose events they do not keep
\* (`project_interface_trace`, `abstract_trace`).
THEOREM ConstraintsMeanTheSame == Spec => []ConstraintsKeepMeaning
BY TraceInit, TraceStep, TraceKeepsMeaning, PTL DEF Spec

-----------------------------------------------------------------------------
(* Lists, finite sets and instances. *)

LEMMA ListDomain ==
    ASSUME NEW s, IsList(s)
    PROVE  Len(s) \in Nat /\ DOMAIN s = 1 .. Len(s) /\ IsFiniteSet(DOMAIN s)
<1>1. Len(s) \in Nat /\ DOMAIN s = 1 .. Len(s)
  BY DEF IsList
<1> QED
  BY <1>1, FS_Interval

LEMMA ListOf ==
    ASSUME NEW s, NEW n \in Nat, DOMAIN s = 1 .. n, s = [i \in 1 .. n |-> s[i]]
    PROVE  IsList(s)
<1>1. s \in [1 .. n -> Range(s)]
  BY DEF Range
<1> QED
  BY <1>1 DEF IsList

LEMMA ImageIsFinite ==
    ASSUME NEW S, IsFiniteSet(S), NEW f, DOMAIN f = S
    PROVE  IsFiniteSet({f[x] : x \in S})
<1> DEFINE T == {f[x] : x \in S}
           g == [x \in S |-> f[x]]
<1>1. g \in Surjection(S, T)
  <2>1. g \in [S -> T] /\ \A t \in T : \E x \in S : g[x] = t
    OBVIOUS
  <2> HIDE DEF g, T
  <2> QED
    BY <2>1 DEF Surjection
<1> HIDE DEF g, T
<1>2. IsFiniteSet(T)
  BY <1>1, FS_Surjection
<1> QED
  BY <1>2 DEF T

\* Pairs of an index and a member of what it indexes.
PairsOf(S, f) == UNION {{<<x, y>> : y \in f[x]} : x \in S}

LEMMA PairMembers ==
    ASSUME NEW S, NEW f
    PROVE  \A p : p \in PairsOf(S, f) <=> \E x \in S : \E y \in f[x] : p = <<x, y>>
BY DEF PairsOf

LEMMA PairsAreFinite ==
    ASSUME NEW S, IsFiniteSet(S), NEW f, \A x \in S : IsFiniteSet(f[x])
    PROVE  IsFiniteSet(PairsOf(S, f))
<1> DEFINE all == UNION {f[x] : x \in S}
<1>1. IsFiniteSet({f[x] : x \in S})
  <2> DEFINE g == [x \in S |-> f[x]]
  <2>1. IsFiniteSet({g[x] : x \in S})
    <3> HIDE DEF g
    <3>1. DOMAIN g = S
      BY DEF g
    <3> QED
      BY <3>1, ImageIsFinite
  <2> QED
    BY <2>1
<1>2. IsFiniteSet(all)
  BY <1>1, FS_UNION
<1>3. PairsOf(S, f) \subseteq S \X all
  <2> SUFFICES ASSUME NEW p \in PairsOf(S, f) PROVE p \in S \X all
    OBVIOUS
  <2>1. PICK x \in S : \E y \in f[x] : p = <<x, y>>
    BY PairMembers
  <2>2. PICK y \in f[x] : p = <<x, y>>
    BY <2>1
  <2> QED
    BY <2>2
<1> HIDE DEF all
<1> QED
  BY <1>2, <1>3, FS_Product, FS_Subset

LEMMA FiniteFunctions ==
    ASSUME NEW D, IsFiniteSet(D), NEW S, IsFiniteSet(S)
    PROVE  IsFiniteSet([D -> S])
<1> DEFINE graphOf == [f \in [D -> S] |-> {<<i, f[i]>> : i \in D}]
           T == SUBSET (D \X S)
<1>1. IsFiniteSet(T)
  BY FS_Product, FS_SUBSET
<1>2. graphOf \in [[D -> S] -> T]
  OBVIOUS
<1>3. \A f, h \in [D -> S] : graphOf[f] = graphOf[h] => f = h
  <2> SUFFICES ASSUME NEW f \in [D -> S], NEW h \in [D -> S], graphOf[f] = graphOf[h] PROVE f = h
    OBVIOUS
  <2>1. {<<i, f[i]>> : i \in D} = {<<i, h[i]>> : i \in D}
    OBVIOUS
  <2>2. ASSUME NEW i \in D PROVE f[i] = h[i]
    <3>1. <<i, f[i]>> \in {<<j, h[j]>> : j \in D}
      BY <2>1
    <3> QED
      BY <3>1
  <2> QED
    BY <2>2
<1> HIDE DEF graphOf, T
<1>4. graphOf \in Injection([D -> S], T)
  BY <1>2, <1>3 DEF Injection, IsInjective
<1> QED
  BY <1>1, <1>4, FS_Injection

\* What roles give: for one event, or a list.
IsContext(c) == DOMAIN c = {"one", "many"} /\ \A x \in DOMAIN c.many : IsList(c.many[x])

LEMMA PositionsAreFinite ==
    ASSUME NEW p, IsList(p.axes), NEW c, IsContext(c), \A a \in ToSet(p.axes) : a.over \in DOMAIN c.many
    PROVE  IsFiniteSet(Positions(p, c))
<1> DEFINE D == [i \in DOMAIN p.axes |-> DOMAIN c.many[p.axes[i].over]]
           all == UNION {D[i] : i \in DOMAIN p.axes}
<1>1. \A i \in DOMAIN p.axes : IsFiniteSet(D[i])
  <2> TAKE i \in DOMAIN p.axes
  <2>1. p.axes[i].over \in DOMAIN c.many
    BY DEF ToSet
  <2> QED
    BY <2>1, ListDomain DEF IsContext
<1>2. IsFiniteSet(DOMAIN p.axes)
  BY ListDomain
<1>3. DOMAIN D = DOMAIN p.axes
  OBVIOUS
<1>4. Positions(p, c) \subseteq [DOMAIN p.axes -> all]
  BY DEF Positions
<1> HIDE DEF D
<1>5. IsFiniteSet({D[i] : i \in DOMAIN p.axes})
  BY <1>2, <1>3, ImageIsFinite
<1>6. IsFiniteSet(all)
  BY <1>1, <1>5, FS_UNION
<1> HIDE DEF all
<1> QED
  BY <1>2, <1>4, <1>6, FiniteFunctions, FS_Subset

LEMMA InstancesAreFinite ==
    ASSUME NEW t, IsTemplate(t), NEW c, IsContext(c), Expands(t, c)
    PROVE  IsFiniteSet(Instances(t, c))
<1> DEFINE K == [i \in DOMAIN t.repeats |-> DOMAIN c.many[t.repeats[i].over]]
           F == [i \in DOMAIN t.products |-> Positions(t.products[i], c)]
           R == PairsOf(DOMAIN t.repeats, K)
           P == PairsOf(DOMAIN t.products, F)
           repeated == [x \in R |-> <<"repeat", x[1], x[2]>>]
           combined == [x \in P |-> <<"product", x[1], x[2]>>]
<1>1. IsFiniteSet(DOMAIN t.repeats) /\ IsFiniteSet(DOMAIN t.products)
  BY ListDomain DEF IsTemplate
<1>2. IsFiniteSet(R)
  <2>1. \A i \in DOMAIN t.repeats : IsFiniteSet(K[i])
    <3> TAKE i \in DOMAIN t.repeats
    <3>1. t.repeats[i].over \in DOMAIN c.many
      BY DEF Expands, ToSet
    <3> QED
      BY <3>1, ListDomain DEF IsContext
  <2> HIDE DEF K
  <2> QED
    BY <1>1, <2>1, PairsAreFinite
<1>3. IsFiniteSet(P)
  <2>1. \A i \in DOMAIN t.products : IsFiniteSet(F[i])
    <3> TAKE i \in DOMAIN t.products
    <3>1. t.products[i] \in ToSet(t.products) /\ t.products[i] \in Range(t.products)
      BY DEF ToSet, Range
    <3>2. IsList(t.products[i].axes) /\ \A a \in ToSet(t.products[i].axes) : a.over \in DOMAIN c.many
      BY <3>1 DEF Expands, IsTemplate
    <3> QED
      BY <3>2, PositionsAreFinite
  <2> HIDE DEF F
  <2> QED
    BY <1>1, <2>1, PairsAreFinite
<1>4. DOMAIN repeated = R /\ DOMAIN combined = P
  OBVIOUS
<1>5. Instances(t, c) \subseteq {<<"base">>} \cup {repeated[x] : x \in R} \cup {combined[x] : x \in P}
  <2> SUFFICES ASSUME NEW x \in Instances(t, c)
               PROVE  x \in {<<"base">>} \cup {repeated[y] : y \in R} \cup {combined[y] : y \in P}
    OBVIOUS
  <2>1. CASE x = <<"base">>
    BY <2>1
  <2>2. ASSUME NEW i \in DOMAIN t.repeats, NEW k \in DOMAIN c.many[t.repeats[i].over], x = <<"repeat", i, k>>
        PROVE  x \in {repeated[y] : y \in R}
    <3>1. <<i, k>> \in R
      BY PairMembers
    <3>2. repeated[<<i, k>>] = x
      BY <2>2, <3>1
    <3> QED
      BY <3>1, <3>2
  <2>3. ASSUME NEW i \in DOMAIN t.products, NEW f \in Positions(t.products[i], c), x = <<"product", i, f>>
        PROVE  x \in {combined[y] : y \in P}
    <3>1. <<i, f>> \in P
      BY PairMembers
    <3>2. combined[<<i, f>>] = x
      BY <2>3, <3>1
    <3> QED
      BY <3>1, <3>2
  <2> HIDE DEF repeated, combined, R, P
  <2> QED
    BY <2>1, <2>2, <2>3 DEF Instances
<1> HIDE DEF repeated, combined, R, P
<1>6. IsFiniteSet({repeated[x] : x \in R}) /\ IsFiniteSet({combined[x] : x \in P}) /\ IsFiniteSet({<<"base">>})
  <2>1. \A f : IsFiniteSet(DOMAIN f) => IsFiniteSet({f[x] : x \in DOMAIN f})
    BY ImageIsFinite
  <2>2. IsFiniteSet({repeated[x] : x \in DOMAIN repeated}) /\ IsFiniteSet({combined[x] : x \in DOMAIN combined})
    BY <1>2, <1>3, <1>4, <2>1
  <2> QED
    BY <2>2, <1>4, FS_Singleton
<1> QED
  BY <1>5, <1>6, FS_Union, FS_Subset

Sections == {"ports", "slots", "states", "rules", "constraints"}

LEMMA FragmentOf ==
    ASSUME NEW t, IsTemplate(t), NEW c, NEW x \in Instances(t, c)
    PROVE  IsFragment(Fragment(t, x))
<1>1. CASE x = <<"base">>
  BY <1>1 DEF Fragment, IsTemplate
<1>2. ASSUME NEW i \in DOMAIN t.repeats, NEW k, x = <<"repeat", i, k>> PROVE IsFragment(Fragment(t, x))
  <2>1. x[1] = "repeat" /\ x[2] = i
    BY <1>2
  <2>2. t.repeats[i] \in Range(t.repeats)
    BY DEF Range
  <2>3. Fragment(t, x) = t.repeats[i].include
    BY <2>1 DEF Fragment
  <2> QED
    BY <2>2, <2>3 DEF IsTemplate
<1>3. ASSUME NEW i \in DOMAIN t.products, NEW f, x = <<"product", i, f>> PROVE IsFragment(Fragment(t, x))
  <2>1. x[1] = "product" /\ x[2] = i
    BY <1>3
  <2>2. t.products[i] \in Range(t.products)
    BY DEF Range
  <2>3. Fragment(t, x) = t.products[i].include
    BY <2>1 DEF Fragment
  <2> QED
    BY <2>2, <2>3 DEF IsTemplate
<1> QED
  BY <1>1, <1>2, <1>3 DEF Instances

LEMMA DeclarationsAreFinite ==
    ASSUME NEW t, IsTemplate(t), NEW c, IsContext(c), Expands(t, c), NEW section \in Sections
    PROVE  IsFiniteSet(Declarations(t, c, section))
<1> DEFINE D == [x \in Instances(t, c) |-> DOMAIN Fragment(t, x)[section]]
<1>1. \A x \in Instances(t, c) : IsFiniteSet(D[x])
  <2> TAKE x \in Instances(t, c)
  <2>1. IsList(Fragment(t, x)[section])
    BY FragmentOf DEF IsFragment, Sections
  <2> QED
    BY <2>1, ListDomain
<1>2. Declarations(t, c, section) = PairsOf(Instances(t, c), D)
  BY DEF Declarations, PairsOf
<1> HIDE DEF D
<1> QED
  BY <1>1, <1>2, InstancesAreFinite, PairsAreFinite

-----------------------------------------------------------------------------
(* Merging: the names of the first n modules, without any two being equal. *)

Kinds == {"slots", "states", "rules"}

NameIn(m, kind, d) == IF kind = "states" THEN m.states[d] ELSE m[kind][d].name
NamesIn(m, kind) == {NameIn(m, kind, d) : d \in DOMAIN m[kind]}

Keys(L, n, kind) == PairsOf(1 .. n, [k \in 1 .. n |-> DOMAIN L[k][kind]])

MergedInto(names, L, n, kind) ==
    /\ \A p, q \in Keys(L, n, kind) : NameIn(L[p[1]], kind, p[2]) = NameIn(L[q[1]], kind, q[2]) => p = q
    /\ names = {NameIn(L[p[1]], kind, p[2]) : p \in Keys(L, n, kind)}

LEMMA KeyMembers ==
    ASSUME NEW L, NEW n, NEW kind
    PROVE  \A p : p \in Keys(L, n, kind) <=> \E k \in 1 .. n : \E d \in DOMAIN L[k][kind] : p = <<k, d>>
<1> DEFINE I == 1 .. n
           D == [k \in I |-> DOMAIN L[k][kind]]
<1>1. \A k \in I : D[k] = DOMAIN L[k][kind]
  OBVIOUS
<1>2. Keys(L, n, kind) = PairsOf(I, D)
  BY DEF Keys
<1> HIDE DEF D, I
<1>3. \A p : p \in PairsOf(I, D) <=> \E k \in I : \E d \in D[k] : p = <<k, d>>
  BY PairMembers
<1>4. \A p : p \in Keys(L, n, kind) <=> \E k \in I : \E d \in DOMAIN L[k][kind] : p = <<k, d>>
  BY <1>1, <1>2, <1>3
<1> QED
  BY <1>4 DEF I

LEMMA NothingMerged ==
    ASSUME NEW L, NEW kind PROVE MergedInto({}, L, 0, kind)
<1>1. Keys(L, 0, kind) = {}
  BY KeyMembers
<1> QED
  BY <1>1 DEF MergedInto

LEMMA MergeOne ==
    ASSUME NEW L, NEW n \in Nat, NEW kind, NEW names, MergedInto(names, L, n, kind),
           \A d, e \in DOMAIN L[n + 1][kind] : NameIn(L[n + 1], kind, d) = NameIn(L[n + 1], kind, e) => d = e,
           NamesIn(L[n + 1], kind) \cap names = {}
    PROVE  MergedInto(names \cup NamesIn(L[n + 1], kind), L, n + 1, kind)
<1> DEFINE name(p) == NameIn(L[p[1]], kind, p[2])
           old == Keys(L, n, kind)
           m == L[n + 1]
<1>1. \A p : p \in Keys(L, n + 1, kind) <=> p \in old \/ \E d \in DOMAIN m[kind] : p = <<n + 1, d>>
  <2>1. 1 .. n + 1 = 1 .. n \cup {n + 1}
    OBVIOUS
  <2> QED
    BY <2>1, KeyMembers
<1>2. \A d : name(<<n + 1, d>>) = NameIn(m, kind, d)
  OBVIOUS
<1>3. (\A p, q \in old : name(p) = name(q) => p = q) /\ names = {name(p) : p \in old}
  BY DEF MergedInto
<1>4. \A d \in DOMAIN m[kind] : NameIn(m, kind, d) \in NamesIn(m, kind)
  BY DEF NamesIn
<1>5. \A x : x \in NamesIn(m, kind) <=> \E d \in DOMAIN m[kind] : x = NameIn(m, kind, d)
  BY DEF NamesIn
<1>6. \A x : x \in names <=> \E p \in old : x = name(p)
  BY <1>3
<1> HIDE DEF name, old, m
<1>7. ASSUME NEW p \in Keys(L, n + 1, kind), NEW q \in Keys(L, n + 1, kind), name(p) = name(q) PROVE p = q
  <2>1. CASE p \in old /\ q \in old
    BY <2>1, <1>3, <1>7
  <2>2. CASE p \in old /\ q \notin old
    <3>1. name(p) \in names
      BY <2>2, <1>6
    <3>2. PICK d \in DOMAIN m[kind] : q = <<n + 1, d>>
      BY <2>2, <1>1
    <3>3. name(q) \in NamesIn(m, kind)
      BY <3>2, <1>2, <1>4
    <3> QED
      BY <3>1, <3>3, <1>7 DEF m
  <2>3. CASE p \notin old /\ q \in old
    <3>1. name(q) \in names
      BY <2>3, <1>6
    <3>2. PICK d \in DOMAIN m[kind] : p = <<n + 1, d>>
      BY <2>3, <1>1
    <3>3. name(p) \in NamesIn(m, kind)
      BY <3>2, <1>2, <1>4
    <3> QED
      BY <3>1, <3>3, <1>7 DEF m
  <2>4. CASE p \notin old /\ q \notin old
    <3>1. PICK d \in DOMAIN m[kind] : p = <<n + 1, d>>
      BY <2>4, <1>1
    <3>2. PICK e \in DOMAIN m[kind] : q = <<n + 1, e>>
      BY <2>4, <1>1
    <3>3. NameIn(m, kind, d) = NameIn(m, kind, e)
      BY <3>1, <3>2, <1>2, <1>7
    <3> QED
      BY <3>1, <3>2, <3>3 DEF m
  <2> QED
    BY <2>1, <2>2, <2>3, <2>4
<1>8. \A x : x \in names \cup NamesIn(m, kind) <=> \E p \in Keys(L, n + 1, kind) : x = name(p)
  <2>1. \A x \in names : \E p \in Keys(L, n + 1, kind) : x = name(p)
    BY <1>1, <1>6
  <2>2. ASSUME NEW x \in NamesIn(m, kind) PROVE \E p \in Keys(L, n + 1, kind) : x = name(p)
    <3>1. PICK d \in DOMAIN m[kind] : x = NameIn(m, kind, d)
      BY <1>5
    <3>2. <<n + 1, d>> \in Keys(L, n + 1, kind)
      BY <1>1
    <3> QED
      BY <3>1, <3>2, <1>2
  <2>3. ASSUME NEW p \in Keys(L, n + 1, kind) PROVE name(p) \in names \cup NamesIn(m, kind)
    BY <1>1, <1>2, <1>4, <1>6
  <2> QED
    BY <2>1, <2>2, <2>3
<1>9. names \cup NamesIn(m, kind) = {name(p) : p \in Keys(L, n + 1, kind)}
  BY <1>8
<1> QED
  BY <1>7, <1>9 DEF MergedInto, name, m

LEMMA KeysAreFinite ==
    ASSUME NEW L, NEW n \in Nat, NEW kind, \A k \in 1 .. n : IsFiniteSet(DOMAIN L[k][kind])
    PROVE  IsFiniteSet(Keys(L, n, kind))
<1> DEFINE D == [k \in 1 .. n |-> DOMAIN L[k][kind]]
<1>1. \A k \in 1 .. n : IsFiniteSet(D[k])
  OBVIOUS
<1>2. IsFiniteSet(1 .. n)
  BY FS_Interval
<1> HIDE DEF D
<1>3. IsFiniteSet(PairsOf(1 .. n, D))
  BY <1>1, <1>2, PairsAreFinite
<1> QED
  BY <1>3 DEF Keys, D

\* As many names as declarations.
LEMMA MergedCount ==
    ASSUME NEW L, NEW n \in Nat, NEW kind, NEW names, MergedInto(names, L, n, kind),
           \A k \in 1 .. n : IsFiniteSet(DOMAIN L[k][kind])
    PROVE  IsFiniteSet(names) /\ Cardinality(names) = Cardinality(Keys(L, n, kind))
<1> DEFINE f == [p \in Keys(L, n, kind) |-> NameIn(L[p[1]], kind, p[2])]
<1>1. IsFiniteSet(Keys(L, n, kind))
  BY KeysAreFinite
<1>2. f \in [Keys(L, n, kind) -> names] /\ IsInjective(f) /\ \A x \in names : \E p \in Keys(L, n, kind) : f[p] = x
  BY DEF MergedInto, IsInjective
<1> HIDE DEF f
<1>3. f \in Bijection(Keys(L, n, kind), names)
  BY <1>2 DEF Bijection, Injection, Surjection
<1>4. ExistsBijection(Keys(L, n, kind), names)
  BY <1>3 DEF ExistsBijection
<1> QED
  BY <1>1, <1>4, FS_Bijection

-----------------------------------------------------------------------------
(* The state of a composition. *)

Instantiates(t, c, m) ==
    /\ ValidModule(m)
    /\ IsTemplate(t) /\ Expands(t, c)
    /\ m.name = t.name /\ m.internal = t.internal
    /\ m.slots = Expand(t, c).slots /\ m.states = Expand(t, c).states /\ m.rules = Expand(t, c).rules
    /\ Range(m.ports) = {p \in Range(Expand(t, c).ports) : p.enabled}

LoadedSoFar(modules, c, L) ==
    /\ IsList(L) /\ Len(L) <= Len(modules)
    /\ \A k \in 1 .. Len(L) : Instantiates(modules[k], c, L[k])

OneDriver(connections, n) ==
    /\ n \in 0 .. Len(connections)
    /\ \A i, j \in 1 .. n : connections[i].target = connections[j].target => i = j

\* Rules touch cells of their owner.
AtHome(m) ==
    \A n \in DOMAIN m.rules : \A s \in m.rules[n].states : s \in DOMAIN m.states /\ m.states[s] = m.rules[n].owner

\* The rules of the modules, and those of the first n connections.
Mapped(names, connections, n, L) ==
    /\ IsFiniteSet(names)
    /\ Cardinality(names) = Cardinality(Keys(L, Len(L), "rules"))
                                + Cardinality({i \in 1 .. n : ~ connections[i].shared})

Valid == {"roles", "load", "wire", "merge", "map", "composed", "projected"}
Filled == {"load", "wire", "merge", "map", "composed", "projected"}
Wired == {"merge", "map", "composed", "projected"}

ComposeInv ==
    /\ IsContext(context)
    /\ IsFiniteSet(trace)
    /\ roles \in Nat
    /\ DOMAIN model = {"slots", "states", "rules", "constraints"}
    /\ phase \in Valid => ValidComposition
    /\ phase \in {"open", "roles"} => loaded = << >>
    /\ phase \in {"open", "roles", "load"} => wired = 0
    /\ phase \in {"open", "roles", "load", "wire"} => merged = 0 /\ mapped = 0 /\ model = EmptyModel
    /\ phase \in Filled => LoadedSoFar(project.modules, context, loaded)
    /\ phase \in Filled \ {"load"} => Len(loaded) = Len(project.modules) /\ OneDriver(project.connections, wired)
    /\ phase \in Wired =>
        /\ wired = Len(project.connections)
        /\ merged \in 0 .. Len(loaded)
        /\ MergedInto(DOMAIN model.slots, loaded, merged, "slots")
        /\ MergedInto(DOMAIN model.states, loaded, merged, "states")
        /\ AtHome(model)
    /\ phase = "merge" => mapped = 0 /\ MergedInto(DOMAIN model.rules, loaded, merged, "rules")
    /\ phase \in {"map", "composed"} =>
        /\ merged = Len(loaded)
        /\ mapped \in 0 .. Len(project.connections)
        /\ Mapped(DOMAIN model.rules, project.connections, mapped, loaded)
    /\ phase = "composed" => mapped = Len(project.connections)

LEMMA ComposeInit == Init => ComposeInv
<1> SUFFICES ASSUME Init PROVE ComposeInv
  OBVIOUS
<1>1. /\ project \in Project /\ trace = project.events /\ phase = "open" /\ context = Start
      /\ roles = 0 /\ loaded = << >> /\ wired = 0 /\ merged = 0 /\ mapped = 0 /\ model = EmptyModel
  BY DEF Init
<1>2. IsContext(context) /\ IsFiniteSet(trace)
  BY <1>1, ProjectAssumption DEF Start, IsContext
<1>3. DOMAIN model = {"slots", "states", "rules", "constraints"}
  BY <1>1 DEF EmptyModel
<1> QED
  BY <1>1, <1>2, <1>3 DEF ComposeInv, Valid, Filled, Wired

\* A role of several events gives a list.
LEMMA ResolveGives ==
    ASSUME NEW role, role.copies \in Nat, NEW events, IsFiniteSet(events), NEW c, IsContext(c)
    PROVE  IsContext(Resolve(role, events, c))
<1> DEFINE S == Matching(role, events, c.one)
           all == Sorted(S, Before)
           s == Selected(role, events, c.one)
<1>1. IsList(all)
  <2>1. S \subseteq events
    BY DEF Matching
  <2>2. Cardinality(S) \in Nat
    BY <2>1, FS_Subset, FS_CardinalityType
  <2> DEFINE nth(n) == CHOOSE x \in S : Cardinality({y \in S : Before(y, x)}) = n - 1
  <2>4. all = [n \in 1 .. Cardinality(S) |-> nth(n)]
    BY DEF Sorted
  <2> HIDE DEF all, S, nth
  <2>3. DOMAIN all = 1 .. Cardinality(S) /\ all = [n \in 1 .. Cardinality(S) |-> all[n]]
    BY <2>4
  <2> QED
    BY <2>2, <2>3, ListOf
<1> HIDE DEF S, all
<1>2. s = Distinct(role, all)
  BY DEF Selected, S, all
<1>3. IsList(s)
  <2>1. CASE role.distinct = {}
    BY <1>1, <1>2, <2>1 DEF Distinct
  <2>2. CASE role.distinct # {}
    <3> DEFINE firsts == {i \in DOMAIN all : \A j \in 1 .. i - 1 : \E p \in role.distinct :
                                all[j].values[p] # all[i].values[p]}
    <3>1. Cardinality(firsts) \in Nat
      <4>1. firsts \subseteq DOMAIN all
        OBVIOUS
      <4> HIDE DEF firsts
      <4> QED
        BY <1>1, <4>1, ListDomain, FS_Subset, FS_CardinalityType
    <3> DEFINE first(i) == all[Sorted(firsts, <)[i]]
    <3>2. s = [i \in 1 .. Cardinality(firsts) |-> first(i)]
      BY <1>2, <2>2, Zenon DEF Distinct
    <3> HIDE DEF firsts, s, first
    <3>3. DOMAIN s = 1 .. Cardinality(firsts) /\ s = [n \in 1 .. Cardinality(firsts) |-> s[n]]
      BY <3>2
    <3> QED
      BY <3>1, <3>3, ListOf
  <2> QED
    BY <2>1, <2>2
<1> HIDE DEF s
<1>4. Len(s) \in Nat
  BY <1>3, ListDomain
<1>5. IsList(Items(role, s))
  <2> DEFINE n == Len(s) * role.copies
             items == Items(role, s)
  <2>1. n \in Nat
    BY <1>4
  <2>2. DOMAIN items = 1 .. n /\ items = [i \in 1 .. n |-> items[i]]
    BY DEF Items
  <2> HIDE DEF n, items
  <2>3. IsList(items)
    BY <2>1, <2>2, ListOf
  <2> QED
    BY <2>3 DEF items
<1>6. CASE role.many
  <2>1. Resolve(role, events, c) = [c EXCEPT !.many = Put(c.many, role.name, Items(role, s))]
    BY <1>6 DEF Resolve, s
  <2> DEFINE many == Put(c.many, role.name, Items(role, s))
  <2>2. \A x \in DOMAIN many : IsList(many[x])
    BY <1>5 DEF Put, IsContext
  <2> HIDE DEF many
  <2>3. [c EXCEPT !.many = many].many = many /\ DOMAIN [c EXCEPT !.many = many] = {"one", "many"}
    BY DEF IsContext
  <2> QED
    BY <2>1, <2>2, <2>3 DEF many, IsContext
<1>7. CASE ~ role.many
  <2>1. Resolve(role, events, c) = [c EXCEPT !.one = Put(c.one, role.name, Item(role, s, 1))]
    BY <1>7 DEF Resolve, s
  <2> DEFINE one == Put(c.one, role.name, Item(role, s, 1))
  <2> HIDE DEF one
  <2>3. [c EXCEPT !.one = one].many = c.many /\ DOMAIN [c EXCEPT !.one = one] = {"one", "many"}
    BY DEF IsContext
  <2> QED
    BY <2>1, <2>3 DEF one, IsContext
<1> QED
  BY <1>6, <1>7

-----------------------------------------------------------------------------
(* Every step of the composition. *)

LEMMA OpenStep == ComposeInv /\ Open => ComposeInv'
<1> SUFFICES ASSUME ComposeInv, Open PROVE ComposeInv'
  OBVIOUS
<1>1. /\ phase = "open" /\ phase' = (IF ValidComposition THEN "roles" ELSE "raised")
      /\ project' = project /\ trace' = trace /\ context' = context /\ roles' = roles /\ loaded' = loaded
      /\ wired' = wired /\ merged' = merged /\ mapped' = mapped /\ model' = model
  BY DEF Open, composing
<1>2. ValidComposition' <=> ValidComposition
  BY <1>1 DEF ValidComposition
<1> QED
  BY <1>1, <1>2 DEF ComposeInv, Valid, Filled, Wired

LEMMA ResolveStep == TraceInv /\ ComposeInv /\ ResolveRole => ComposeInv'
<1> SUFFICES ASSUME TraceInv, ComposeInv, ResolveRole PROVE ComposeInv'
  OBVIOUS
<1> DEFINE role == project.roles[roles + 1]
<1>1. /\ phase = "roles" /\ roles < Len(project.roles)
      /\ project' = project /\ trace' = trace /\ loaded' = loaded /\ wired' = wired
      /\ merged' = merged /\ mapped' = mapped /\ model' = model
  BY DEF ResolveRole
<1>2. ValidComposition' <=> ValidComposition
  BY <1>1 DEF ValidComposition
<1>3. CASE phase' = "raised" /\ context' = context /\ roles' = roles
  BY <1>1, <1>3 DEF ComposeInv, Valid, Filled, Wired
<1>4. CASE phase' = phase /\ context' = Resolve(role, trace, context) /\ roles' = roles + 1
  <2>1. IsContext(context')
    <3>0. roles + 1 \in DOMAIN project.roles
      BY <1>1, ProjectAssumption, ListDomain DEF TraceInv, ComposeInv
    <3>1. role \in ToSet(project.roles) /\ role \in Range(project.roles)
      BY <3>0 DEF ToSet, Range
    <3>2. role.copies \in Nat
      <4>1. role.copies \in Int
        BY <3>1, ProjectAssumption DEF TraceInv
      <4>2. role.copies > 0
        BY <1>1, <3>1 DEF ComposeInv, Valid, ValidComposition, ValidRole
      <4> QED
        BY <4>1, <4>2
    <3> QED
      BY <1>4, <3>2, ResolveGives DEF ComposeInv
  <2> QED
    BY <1>1, <1>2, <1>4, <2>1 DEF ComposeInv, Valid, Filled, Wired
<1> QED
  BY <1>3, <1>4 DEF ResolveRole

LEMMA RolesStep == TraceInv /\ ComposeInv /\ RolesResolved => ComposeInv'
<1> SUFFICES ASSUME TraceInv, ComposeInv, RolesResolved PROVE ComposeInv'
  OBVIOUS
<1>1. /\ phase = "roles" /\ phase' = "load"
      /\ project' = project /\ trace' = trace /\ context' = context /\ roles' = roles /\ loaded' = loaded
      /\ wired' = wired /\ merged' = merged /\ mapped' = mapped /\ model' = model
  BY DEF RolesResolved, composing
<1>2. ValidComposition' <=> ValidComposition
  BY <1>1 DEF ValidComposition
<1>3. Len(project.modules) \in Nat
  BY ListDomain, ProjectAssumption DEF TraceInv
<1>4. loaded = << >>
  BY <1>1 DEF ComposeInv
<1>5. LoadedSoFar(project.modules, context, << >>)
  BY <1>3 DEF LoadedSoFar, IsList
<1> QED
  BY <1>1, <1>2, <1>4, <1>5 DEF ComposeInv, Valid, Filled, Wired

LEMMA LoadOne ==
    ASSUME NEW modules, NEW c, NEW L, LoadedSoFar(modules, c, L), Len(modules) \in Nat, Len(L) < Len(modules),
           NEW m, Instantiates(modules[Len(L) + 1], c, m)
    PROVE  LoadedSoFar(modules, c, Append(L, m))
<1> DEFINE M == Append(L, m)
<1>1. IsList(L) /\ Len(L) \in Nat /\ DOMAIN L = 1 .. Len(L)
  BY ListDomain DEF LoadedSoFar
<1>2. /\ DOMAIN M = 1 .. Len(L) + 1 /\ Len(M) = Len(L) + 1 /\ M = [i \in 1 .. Len(L) + 1 |-> M[i]]
      /\ M[Len(L) + 1] = m /\ \A k \in 1 .. Len(L) : M[k] = L[k]
  <2> DEFINE S == Range(L) \cup {m}
  <2>1. L \in Seq(S) /\ m \in S
    BY <1>1 DEF IsList
  <2> HIDE DEF S
  <2>2. M \in Seq(S) /\ Len(M) = Len(L) + 1
    BY <2>1
  <2>4. M[Len(L) + 1] = m /\ \A k \in 1 .. Len(L) : M[k] = L[k]
    BY <1>1, <2>1
  <2> HIDE DEF M
  <2>3. DOMAIN M = 1 .. Len(L) + 1 /\ M = [i \in 1 .. Len(L) + 1 |-> M[i]]
    BY <2>2
  <2> QED
    BY <2>2, <2>3, <2>4
<1> HIDE DEF M
<1>3. IsList(M)
  BY <1>1, <1>2, ListOf
<1>4. ASSUME NEW k \in 1 .. Len(M) PROVE Instantiates(modules[k], c, M[k])
  <2>1. CASE k = Len(L) + 1
    BY <2>1, <1>2
  <2>2. CASE k \in 1 .. Len(L)
    BY <2>2, <1>2 DEF LoadedSoFar
  <2> QED
    BY <2>1, <2>2, <1>1, <1>2
<1>5. LoadedSoFar(modules, c, M)
  BY <1>1, <1>2, <1>3, <1>4 DEF LoadedSoFar
<1> QED
  BY <1>5 DEF M

LEMMA LoadsInstance ==
    ASSUME NEW t, IsTemplate(t), Loads(t) PROVE Instantiates(t, context, Module(t))
<1> DEFINE f == Expand(t, context)
           enabled == {d \in DOMAIN f.ports : f.ports[d].enabled}
<1>1. ValidModule(Module(t)) /\ Expands(t, context)
  BY DEF Loads
<1> HIDE DEF f
<1>2. Module(t) = [name |-> t.name, internal |-> t.internal,
                   ports |-> [d \in enabled |-> f.ports[d]],
                   slots |-> f.slots, states |-> f.states, rules |-> f.rules, constraints |-> f.constraints]
  BY DEF Module, f
<1>3. Range(Module(t).ports) = {p \in Range(f.ports) : p.enabled}
  BY <1>2 DEF Range
<1> QED
  BY <1>1, <1>2, <1>3 DEF Instantiates, f

LEMMA LoadStep == TraceInv /\ ComposeInv /\ LoadModule => ComposeInv'
<1> SUFFICES ASSUME TraceInv, ComposeInv, LoadModule PROVE ComposeInv'
  OBVIOUS
<1> DEFINE t == project.modules[Len(loaded) + 1]
<1>1. /\ phase = "load" /\ Len(loaded) < Len(project.modules)
      /\ project' = project /\ trace' = trace /\ context' = context /\ roles' = roles
      /\ wired' = wired /\ merged' = merged /\ mapped' = mapped /\ model' = model
  BY DEF LoadModule
<1>2. ValidComposition' <=> ValidComposition
  BY <1>1 DEF ValidComposition
<1>3. CASE phase' = "raised"
  BY <1>1, <1>3 DEF ComposeInv, Valid, Filled, Wired
<1>4. CASE phase' = phase /\ Loads(t) /\ loaded' = Append(loaded, Module(t))
  <2>1. LoadedSoFar(project.modules, context, loaded)
    BY <1>1 DEF ComposeInv, Filled
  <2>2. Len(project.modules) \in Nat /\ DOMAIN project.modules = 1 .. Len(project.modules)
    BY ListDomain, ProjectAssumption DEF TraceInv
  <2>3. Len(loaded) \in Nat
    BY <2>1, ListDomain DEF LoadedSoFar
  <2>4. t \in Range(project.modules)
    BY <1>1, <2>2, <2>3 DEF Range
  <2>5. IsTemplate(t)
    BY <2>4, ProjectAssumption DEF TraceInv
  <2>6. Instantiates(t, context, Module(t))
    BY <1>4, <2>5, LoadsInstance
  <2>7. LoadedSoFar(project.modules, context, loaded')
    BY <1>1, <1>4, <2>1, <2>2, <2>6, LoadOne
  <2> QED
    BY <1>1, <1>2, <1>4, <2>7 DEF ComposeInv, Valid, Filled, Wired
<1> QED
  BY <1>3, <1>4 DEF LoadModule

LEMMA LoadedStep == TraceInv /\ ComposeInv /\ Loaded => ComposeInv'
<1> SUFFICES ASSUME TraceInv, ComposeInv, Loaded PROVE ComposeInv'
  OBVIOUS
<1>1. /\ phase = "load" /\ phase' = "wire" /\ Len(loaded) = Len(project.modules)
      /\ project' = project /\ trace' = trace /\ context' = context /\ roles' = roles /\ loaded' = loaded
      /\ wired' = wired /\ merged' = merged /\ mapped' = mapped /\ model' = model
  BY DEF Loaded, composing
<1>2. ValidComposition' <=> ValidComposition
  BY <1>1 DEF ValidComposition
<1>3. Len(project.connections) \in Nat
  BY ListDomain, ProjectAssumption DEF TraceInv
<1>4. OneDriver(project.connections, 0)
  BY <1>3 DEF OneDriver
<1> QED
  BY <1>1, <1>2, <1>4 DEF ComposeInv, Valid, Filled, Wired

LEMMA ConnectStep == TraceInv /\ ComposeInv /\ Connect => ComposeInv'
<1> SUFFICES ASSUME TraceInv, ComposeInv, Connect PROVE ComposeInv'
  OBVIOUS
<1> DEFINE cs == project.connections
<1>1. /\ phase = "wire" /\ wired < Len(cs)
      /\ project' = project /\ trace' = trace /\ context' = context /\ roles' = roles /\ loaded' = loaded
      /\ merged' = merged /\ mapped' = mapped /\ model' = model
  BY DEF Connect
<1>2. ValidComposition' <=> ValidComposition
  BY <1>1 DEF ValidComposition
<1>3. CASE phase' = "raised"
  BY <1>1, <1>3 DEF ComposeInv, Valid, Filled, Wired
<1>4. CASE phase' = phase /\ Wires(cs[wired + 1], Targets) /\ wired' = wired + 1
  <2>1. OneDriver(cs, wired)
    BY <1>1 DEF ComposeInv, Filled
  <2>2. IsList(cs) /\ Len(cs) \in Nat /\ DOMAIN cs = 1 .. Len(cs)
    BY ListDomain, ProjectAssumption DEF TraceInv
  <2>3. wired \in Nat
    BY <2>1, <2>2 DEF OneDriver
  <2>4. cs[wired + 1].target \notin Targets
    BY <1>4 DEF Wires
  <2>5. ASSUME NEW i \in 1 .. wired PROVE cs[i].target # cs[wired + 1].target
    <3>1. DOMAIN SubSeq(cs, 1, wired) = 1 .. wired /\ SubSeq(cs, 1, wired)[i] = cs[i]
      BY <1>1, <2>2, <2>3 DEF IsList
    <3>2. cs[i] \in ToSet(Connections)
      BY <3>1 DEF ToSet, Connections
    <3>3. cs[i].target \in Targets
      BY <3>2 DEF Targets
    <3> QED
      BY <2>4, <3>3
  <2>6. OneDriver(cs, wired + 1)
    BY <1>1, <2>1, <2>2, <2>3, <2>5 DEF OneDriver
  <2> QED
    BY <1>1, <1>2, <1>4, <2>6 DEF ComposeInv, Valid, Filled, Wired
<1> QED
  BY <1>3, <1>4 DEF Connect

LEMMA RequireStep == ComposeInv /\ RequirePorts => ComposeInv'
<1> SUFFICES ASSUME ComposeInv, RequirePorts PROVE ComposeInv'
  OBVIOUS
<1>1. /\ phase = "wire" /\ phase' \in {"merge", "raised"} /\ wired = Len(project.connections)
      /\ project' = project /\ trace' = trace /\ context' = context /\ roles' = roles /\ loaded' = loaded
      /\ wired' = wired /\ merged' = merged /\ mapped' = mapped /\ model' = model
  BY DEF RequirePorts, composing
<1>2. ValidComposition' <=> ValidComposition
  BY <1>1 DEF ValidComposition
<1>3. merged = 0 /\ mapped = 0 /\ model = EmptyModel
  BY <1>1 DEF ComposeInv
<1>4. Len(loaded) \in Nat
  BY <1>1, ListDomain DEF ComposeInv, Filled, LoadedSoFar
<1>5. DOMAIN EmptyModel.slots = {} /\ DOMAIN EmptyModel.states = {} /\ DOMAIN EmptyModel.rules = {}
  BY DEF EmptyModel, NoRules
<1>6. AtHome(EmptyModel)
  BY <1>5 DEF AtHome
<1>7. /\ MergedInto(DOMAIN EmptyModel.slots, loaded, 0, "slots")
      /\ MergedInto(DOMAIN EmptyModel.states, loaded, 0, "states")
      /\ MergedInto(DOMAIN EmptyModel.rules, loaded, 0, "rules")
  BY <1>5, NothingMerged
<1> QED
  BY <1>1, <1>2, <1>3, <1>4, <1>6, <1>7 DEF ComposeInv, Valid, Filled, Wired

\* What a module adds to the model.
LEMMA MergingNames ==
    ASSUME NEW m
    PROVE  /\ DOMAIN Merging(m).slots = NamesIn(m, "slots")
           /\ DOMAIN Merging(m).states = NamesIn(m, "states")
           /\ DOMAIN Merging(m).rules = NamesIn(m, "rules")
<1>1. /\ DOMAIN Merging(m).slots = Range(Names(m.slots))
      /\ DOMAIN Merging(m).states = Range(m.states)
      /\ DOMAIN Merging(m).rules = Range(Names(m.rules))
  BY DEF Merging
<1>2. NamesIn(m, "slots") = Range(Names(m.slots))
  BY DEF NamesIn, NameIn, Range, Names
<1>3. NamesIn(m, "states") = Range(m.states)
  BY DEF NamesIn, NameIn, Range
<1>4. NamesIn(m, "rules") = Range(Names(m.rules))
  BY DEF NamesIn, NameIn, Range, Names
<1> QED
  BY <1>1, <1>2, <1>3, <1>4

LEMMA MergingRule ==
    ASSUME NEW m, ValidModule(m), NEW n \in DOMAIN Merging(m).rules
    PROVE  /\ Merging(m).rules[n].owner = m.name
           /\ Merging(m).rules[n].states \subseteq Range(m.states)
<1> DEFINE r == CHOOSE x \in Range(m.rules) : x.name = n
<1>1. n \in Range(Names(m.rules))
  BY DEF Merging
<1>2. Merging(m).rules[n] = [inputs |-> r.inputs, outputs |-> r.outputs, states |-> r.states, owner |-> m.name]
  BY <1>1 DEF Merging
<1>3. \E x \in Range(m.rules) : x.name = n
  BY <1>1 DEF Range, Names
<1>4. r \in Range(m.rules)
  BY <1>3
<1>5. r.states \subseteq Range(m.states)
  BY <1>4 DEF ValidModule, LocalState
<1> HIDE DEF r
<1> QED
  BY <1>2, <1>5

LEMMA MergeHome ==
    ASSUME NEW old, AtHome(old), NEW m, ValidModule(m),
           NEW b, b.states = Updated(old.states, Merging(m).states), b.rules = Updated(old.rules, Merging(m).rules),
           DOMAIN Merging(m).states \cap DOMAIN old.states = {}
    PROVE  AtHome(b)
<1> DEFINE new == Merging(m)
<1>1. DOMAIN new.states = Range(m.states) /\ \A s \in Range(m.states) : new.states[s] = m.name
  BY DEF Merging
<1>2. \A n \in DOMAIN new.rules : new.rules[n].owner = m.name /\ new.rules[n].states \subseteq Range(m.states)
  BY MergingRule
<1> HIDE DEF new
<1>3. /\ DOMAIN b.rules = DOMAIN old.rules \cup DOMAIN new.rules
      /\ \A n \in DOMAIN new.rules : b.rules[n] = new.rules[n]
      /\ \A n \in DOMAIN old.rules \ DOMAIN new.rules : b.rules[n] = old.rules[n]
  BY DEF Updated, new
<1>4. /\ DOMAIN b.states = DOMAIN old.states \cup DOMAIN new.states
      /\ \A s \in DOMAIN new.states : b.states[s] = new.states[s]
      /\ \A s \in DOMAIN old.states : b.states[s] = old.states[s]
  BY DEF Updated, new
<1> SUFFICES ASSUME NEW n \in DOMAIN b.rules, NEW s \in b.rules[n].states
             PROVE  s \in DOMAIN b.states /\ b.states[s] = b.rules[n].owner
  BY DEF AtHome
<1>5. CASE n \in DOMAIN new.rules
  BY <1>1, <1>2, <1>3, <1>4, <1>5
<1>6. CASE n \notin DOMAIN new.rules
  BY <1>3, <1>4, <1>6 DEF AtHome
<1> QED
  BY <1>5, <1>6

LEMMA DifferentNames ==
    ASSUME NEW m, ValidModule(m), NEW kind \in Kinds
    PROVE  \A d, e \in DOMAIN m[kind] : NameIn(m, kind, d) = NameIn(m, kind, e) => d = e
<1>1. CASE kind = "slots"
  BY <1>1 DEF ValidModule, IsInjective, Names, NameIn
<1>2. CASE kind = "states"
  BY <1>2 DEF ValidModule, IsInjective, NameIn
<1>3. CASE kind = "rules"
  BY <1>3 DEF ValidModule, IsInjective, Names, NameIn
<1> QED
  BY <1>1, <1>2, <1>3 DEF Kinds

LEMMA MergeStep == TraceInv /\ ComposeInv /\ Merge => ComposeInv'
<1> SUFFICES ASSUME TraceInv, ComposeInv, Merge PROVE ComposeInv'
  OBVIOUS
<1> DEFINE m == loaded[merged + 1]
           new == Merging(m)
<1>1. /\ phase = "merge" /\ merged < Len(loaded)
      /\ project' = project /\ trace' = trace /\ context' = context /\ roles' = roles /\ loaded' = loaded
      /\ wired' = wired /\ mapped' = mapped
  BY DEF Merge
<1>2. ValidComposition' <=> ValidComposition
  BY <1>1 DEF ValidComposition
<1>3. CASE phase' = "raised" /\ model' = model
  BY <1>1, <1>3 DEF ComposeInv, Valid, Filled, Wired
<1>4. CASE phase' # "raised" \/ model' # model
  <2>1. /\ phase' = phase /\ merged' = merged + 1
        /\ \A part \in Kinds : DOMAIN new[part] \cap DOMAIN model[part] = {}
        /\ model' = [model EXCEPT !.slots = Updated(@, new.slots), !.states = Updated(@, new.states),
                                  !.rules = Updated(@, new.rules),
                                  !.constraints = @ \cup Range(loaded[merged + 1].constraints)]
    BY <1>4 DEF Merge, Kinds
  <2>2. /\ DOMAIN model' = {"slots", "states", "rules", "constraints"}
        /\ model'.slots = Updated(model.slots, new.slots)
        /\ model'.states = Updated(model.states, new.states)
        /\ model'.rules = Updated(model.rules, new.rules)
    <3> HIDE DEF new
    <3> QED
      BY <2>1 DEF ComposeInv
  <2>3. merged \in Nat /\ Len(loaded) \in Nat /\ merged + 1 \in 1 .. Len(loaded)
    BY <1>1, ListDomain DEF ComposeInv, Filled, Wired, LoadedSoFar
  <2>4. ValidModule(m)
    BY <1>1, <2>3 DEF ComposeInv, Filled, LoadedSoFar, Instantiates
  <2>5. /\ DOMAIN new.slots = NamesIn(m, "slots") /\ DOMAIN new.states = NamesIn(m, "states")
        /\ DOMAIN new.rules = NamesIn(m, "rules")
    BY MergingNames
  <2>6. /\ DOMAIN model'.slots = DOMAIN model.slots \cup NamesIn(m, "slots")
        /\ DOMAIN model'.states = DOMAIN model.states \cup NamesIn(m, "states")
        /\ DOMAIN model'.rules = DOMAIN model.rules \cup NamesIn(m, "rules")
    <3> HIDE DEF new, m
    <3> QED
      BY <2>2, <2>5 DEF Updated
  <2>7. /\ NamesIn(m, "slots") \cap DOMAIN model.slots = {}
        /\ NamesIn(m, "states") \cap DOMAIN model.states = {}
        /\ NamesIn(m, "rules") \cap DOMAIN model.rules = {}
    <3> HIDE DEF new, m
    <3> QED
      BY <2>1, <2>5 DEF Kinds
  <2>8. AtHome(model')
    <3>1. AtHome(model)
      BY <1>1 DEF ComposeInv, Wired
    <3>2. DOMAIN Merging(m).states \cap DOMAIN model.states = {}
      BY <2>5, <2>7
    <3> QED
      BY <2>2, <2>4, <3>1, <3>2, MergeHome
  <2> HIDE DEF new, m
  <2>9. \A kind \in Kinds : \A names :
          MergedInto(names, loaded, merged, kind) /\ NamesIn(m, kind) \cap names = {}
            => MergedInto(names \cup NamesIn(m, kind), loaded, merged + 1, kind)
    <3> SUFFICES ASSUME NEW kind \in Kinds, NEW names, MergedInto(names, loaded, merged, kind),
                        NamesIn(m, kind) \cap names = {}
                 PROVE  MergedInto(names \cup NamesIn(m, kind), loaded, merged + 1, kind)
      OBVIOUS
    <3>1. \A d, e \in DOMAIN m[kind] : NameIn(m, kind, d) = NameIn(m, kind, e) => d = e
      BY <2>4, DifferentNames
    <3> QED
      BY <2>3, <3>1, MergeOne DEF m
  <2>10. /\ MergedInto(DOMAIN model'.slots, loaded, merged + 1, "slots")
         /\ MergedInto(DOMAIN model'.states, loaded, merged + 1, "states")
         /\ MergedInto(DOMAIN model'.rules, loaded, merged + 1, "rules")
    BY <1>1, <2>6, <2>7, <2>9 DEF ComposeInv, Wired, Kinds
  <2>11. merged' \in 0 .. Len(loaded)
    BY <2>1, <2>3
  <2> QED
    BY <1>1, <1>2, <2>1, <2>2, <2>8, <2>10, <2>11 DEF ComposeInv, Valid, Filled, Wired
<1> QED
  BY <1>3, <1>4

LEMMA LoadedDeclarations ==
    ASSUME NEW modules, NEW c, IsContext(c), NEW L, LoadedSoFar(modules, c, L), NEW k \in 1 .. Len(L), NEW kind \in Kinds
    PROVE  DOMAIN L[k][kind] = Declarations(modules[k], c, kind) /\ IsFiniteSet(DOMAIN L[k][kind])
<1> DEFINE t == modules[k]
<1>1. Instantiates(t, c, L[k])
  BY DEF LoadedSoFar
<1>2. /\ DOMAIN Expand(t, c).slots = Declarations(t, c, "slots")
      /\ DOMAIN Expand(t, c).states = Declarations(t, c, "states")
      /\ DOMAIN Expand(t, c).rules = Declarations(t, c, "rules")
  BY DEF Expand
<1>3. L[k].slots = Expand(t, c).slots /\ L[k].states = Expand(t, c).states /\ L[k].rules = Expand(t, c).rules
      /\ IsTemplate(t) /\ Expands(t, c)
  BY <1>1 DEF Instantiates
<1> HIDE DEF t
<1>4. DOMAIN L[k][kind] = Declarations(t, c, kind)
  BY <1>2, <1>3 DEF Kinds
<1>5. kind \in Sections
  BY DEF Kinds, Sections
<1> QED
  BY <1>3, <1>4, <1>5, DeclarationsAreFinite DEF t

LEMMA LoadedCount ==
    ASSUME NEW modules, NEW c, IsContext(c), NEW L, LoadedSoFar(modules, c, L), NEW kind \in Kinds, NEW names,
           MergedInto(names, L, Len(L), kind)
    PROVE  IsFiniteSet(names) /\ Cardinality(names) = Cardinality(Keys(L, Len(L), kind))
<1>1. Len(L) \in Nat
  BY ListDomain DEF LoadedSoFar
<1>2. \A k \in 1 .. Len(L) : IsFiniteSet(DOMAIN L[k][kind])
  BY LoadedDeclarations
<1> QED
  BY <1>1, <1>2, MergedCount

LEMMA AllMergedStep == TraceInv /\ ComposeInv /\ AllMerged => ComposeInv'
<1> SUFFICES ASSUME TraceInv, ComposeInv, AllMerged PROVE ComposeInv'
  OBVIOUS
<1>1. /\ phase = "merge" /\ phase' = "map" /\ merged = Len(loaded)
      /\ project' = project /\ trace' = trace /\ context' = context /\ roles' = roles /\ loaded' = loaded
      /\ wired' = wired /\ merged' = merged /\ mapped' = mapped /\ model' = model
  BY DEF AllMerged, composing
<1>2. ValidComposition' <=> ValidComposition
  BY <1>1 DEF ValidComposition
<1>3. mapped = 0 /\ MergedInto(DOMAIN model.rules, loaded, Len(loaded), "rules")
  BY <1>1 DEF ComposeInv
<1>4. IsFiniteSet(DOMAIN model.rules) /\ Cardinality(DOMAIN model.rules) = Cardinality(Keys(loaded, Len(loaded), "rules"))
  BY <1>1, <1>3, LoadedCount DEF ComposeInv, Filled, Kinds
<1>5. Cardinality({i \in 1 .. 0 : ~ project.connections[i].shared}) = 0
  <2>1. {i \in 1 .. 0 : ~ project.connections[i].shared} = {}
    OBVIOUS
  <2> QED
    BY <2>1, FS_EmptySet
<1>6. Mapped(DOMAIN model.rules, project.connections, 0, loaded)
  <2>1. Cardinality(DOMAIN model.rules) \in Nat
    BY <1>4, FS_CardinalityType
  <2> QED
    BY <1>4, <1>5, <2>1 DEF Mapped
<1>7. Len(project.connections) \in Nat
  BY ListDomain, ProjectAssumption DEF TraceInv
<1> QED
  BY <1>1, <1>2, <1>3, <1>6, <1>7 DEF ComposeInv, Valid, Filled, Wired

LEMMA MapOne ==
    ASSUME NEW names, NEW cs, NEW n \in Nat, NEW L, Mapped(names, cs, n, L), Cardinality(Keys(L, Len(L), "rules")) \in Nat
    PROVE  /\ cs[n + 1].shared => Mapped(names, cs, n + 1, L)
           /\ \A x : ~ cs[n + 1].shared /\ x \notin names => Mapped(names \cup {x}, cs, n + 1, L)
<1> DEFINE done(k) == {i \in 1 .. k : ~ cs[i].shared}
<1>1. IsFiniteSet(done(n)) /\ Cardinality(done(n)) \in Nat
  <2>1. IsFiniteSet(1 .. n) /\ done(n) \subseteq 1 .. n
    BY FS_Interval
  <2> HIDE DEF done
  <2> QED
    BY <2>1, FS_Subset, FS_CardinalityType
<1>2. cs[n + 1].shared => done(n + 1) = done(n)
  OBVIOUS
<1>3. ~ cs[n + 1].shared => done(n + 1) = done(n) \cup {n + 1}
  OBVIOUS
<1>4. n + 1 \notin done(n)
  OBVIOUS
<1>5. IsFiniteSet(names) /\ Cardinality(names) = Cardinality(Keys(L, Len(L), "rules")) + Cardinality(done(n))
  BY DEF Mapped
<1> HIDE DEF done
<1>6. cs[n + 1].shared => Cardinality(names) = Cardinality(Keys(L, Len(L), "rules")) + Cardinality(done(n + 1))
  BY <1>2, <1>5
<1>7. ASSUME NEW x, ~ cs[n + 1].shared, x \notin names
      PROVE  IsFiniteSet(names \cup {x})
             /\ Cardinality(names \cup {x}) = Cardinality(Keys(L, Len(L), "rules")) + Cardinality(done(n + 1))
  <2>1. Cardinality(done(n + 1)) = Cardinality(done(n)) + 1
    BY <1>1, <1>3, <1>4, <1>7, FS_AddElement
  <2>2. IsFiniteSet(names \cup {x}) /\ Cardinality(names \cup {x}) = Cardinality(names) + 1
    BY <1>5, <1>7, FS_AddElement
  <2> QED
    BY <1>1, <1>5, <2>1, <2>2
<1> QED
  BY <1>5, <1>6, <1>7 DEF Mapped, done

LEMMA MapStep == TraceInv /\ ComposeInv /\ MapConnection => ComposeInv'
<1> SUFFICES ASSUME TraceInv, ComposeInv, MapConnection PROVE ComposeInv'
  OBVIOUS
<1> DEFINE cs == project.connections
           c == cs[mapped + 1]
           n == ConnectionName(c)
<1>1. /\ phase = "map" /\ mapped < Len(cs)
      /\ project' = project /\ trace' = trace /\ context' = context /\ roles' = roles /\ loaded' = loaded
      /\ wired' = wired /\ merged' = merged
  BY DEF MapConnection
<1>2. ValidComposition' <=> ValidComposition
  BY <1>1 DEF ValidComposition
<1>3. Mapped(DOMAIN model.rules, cs, mapped, loaded) /\ mapped \in Nat /\ Len(cs) \in Nat
  BY <1>1, ListDomain, ProjectAssumption DEF ComposeInv, TraceInv
<1>4. Cardinality(Keys(loaded, Len(loaded), "rules")) \in Nat
  <2>1. IsContext(context) /\ LoadedSoFar(project.modules, context, loaded)
    BY <1>1 DEF ComposeInv, Filled
  <2>2. \A k \in 1 .. Len(loaded) : IsFiniteSet(DOMAIN loaded[k].rules)
    BY <2>1, LoadedDeclarations DEF Kinds
  <2>3. Len(loaded) \in Nat
    BY <2>1, ListDomain DEF LoadedSoFar
  <2>4. IsFiniteSet(Keys(loaded, Len(loaded), "rules"))
    BY <2>2, <2>3, KeysAreFinite
  <2> QED
    BY <2>4, FS_CardinalityType
<1>5. CASE phase' = "raised" /\ model' = model /\ mapped' = mapped
  BY <1>1, <1>5 DEF ComposeInv, Valid, Filled, Wired
<1>6. CASE c.shared /\ mapped' = mapped + 1 /\ phase' = phase /\ model' = model
  <2>1. Mapped(DOMAIN model.rules, cs, mapped + 1, loaded)
    BY <1>3, <1>4, <1>6, MapOne
  <2>2. mapped + 1 \in 0 .. Len(cs)
    BY <1>1, <1>3
  <2> QED
    BY <1>1, <1>2, <1>6, <2>1, <2>2 DEF ComposeInv, Valid, Filled, Wired
<1>7. CASE /\ ~ c.shared /\ n \notin DOMAIN model.rules
           /\ model' = [model EXCEPT !.rules = Put(@, n, MappedRule(c))]
           /\ mapped' = mapped + 1 /\ phase' = phase
  <2> DEFINE rule == MappedRule(c)
  <2>0. rule.states = {}
    BY DEF MappedRule
  <2> HIDE DEF rule, n
  <2>1. /\ DOMAIN model' = {"slots", "states", "rules", "constraints"}
        /\ model'.slots = model.slots /\ model'.states = model.states
        /\ model'.rules = Put(model.rules, n, rule)
    BY <1>7 DEF ComposeInv, rule
  <2>2. /\ DOMAIN model'.rules = DOMAIN model.rules \cup {n}
        /\ model'.rules[n] = rule
        /\ \A x \in DOMAIN model.rules : model'.rules[x] = model.rules[x]
    BY <1>7, <2>1 DEF Put
  <2>3. Mapped(DOMAIN model'.rules, cs, mapped + 1, loaded)
    <3> DEFINE names == DOMAIN model.rules
    <3>1. n \notin names /\ ~ cs[mapped + 1].shared
      BY <1>7
    <3>2. Mapped(names, cs, mapped, loaded) /\ mapped \in Nat
      BY <1>3
    <3> HIDE DEF names, cs, c
    <3>3. \A x : ~ cs[mapped + 1].shared /\ x \notin names => Mapped(names \cup {x}, cs, mapped + 1, loaded)
      BY <1>4, <3>2, MapOne
    <3>4. Mapped(names \cup {n}, cs, mapped + 1, loaded)
      BY <3>1, <3>3
    <3> QED
      BY <2>2, <3>4 DEF names
  <2>4. AtHome(model')
    <3>1. AtHome(model)
      BY <1>1 DEF ComposeInv, Wired
    <3> QED
      BY <2>0, <2>1, <2>2, <3>1 DEF AtHome
  <2>5. mapped + 1 \in 0 .. Len(cs)
    BY <1>1, <1>3
  <2> QED
    BY <1>1, <1>2, <1>7, <2>1, <2>3, <2>4, <2>5 DEF ComposeInv, Valid, Filled, Wired
<1> QED
  BY <1>5, <1>6, <1>7 DEF MapConnection

LEMMA ComposedStep == ComposeInv /\ Compose => ComposeInv'
<1> SUFFICES ASSUME ComposeInv, Compose PROVE ComposeInv'
  OBVIOUS
<1>1. /\ phase = "map" /\ mapped = Len(project.connections)
      /\ project' = project /\ trace' = trace /\ context' = context /\ roles' = roles /\ loaded' = loaded
      /\ wired' = wired /\ merged' = merged /\ mapped' = mapped
  BY DEF Compose
<1>2. ValidComposition' <=> ValidComposition
  BY <1>1 DEF ValidComposition
<1>3. CASE phase' = "raised" /\ model' = model
  BY <1>1, <1>3 DEF ComposeInv, Valid, Filled, Wired
<1>4. CASE phase' = "composed" /\ model' = [model EXCEPT !.constraints = @ \cup project.constraints]
  <2>1. /\ DOMAIN model' = {"slots", "states", "rules", "constraints"}
        /\ model'.slots = model.slots /\ model'.states = model.states /\ model'.rules = model.rules
    BY <1>4 DEF ComposeInv
  <2>2. AtHome(model) => AtHome(model')
    BY <2>1 DEF AtHome
  <2> QED
    BY <1>1, <1>2, <1>4, <2>1, <2>2 DEF ComposeInv, Valid, Filled, Wired
<1> QED
  BY <1>3, <1>4 DEF Compose

LEMMA CompleteStep == ComposeInv /\ Complete => ComposeInv'
<1> SUFFICES ASSUME ComposeInv, Complete PROVE ComposeInv'
  OBVIOUS
<1>1. /\ phase = "composed" /\ phase' \in {"raised", "completed"}
      /\ project' = project /\ context' = context /\ roles' = roles /\ loaded' = loaded
      /\ wired' = wired /\ merged' = merged /\ mapped' = mapped /\ model' = model
  BY DEF Complete, composing
<1>2. IsFiniteSet(trace')
  <2>1. CASE trace' = trace
    BY <2>1 DEF ComposeInv
  <2>2. CASE trace' # trace
    <3>1. \E S \in SUBSET DOMAIN model.slots : \E O \in SUBSET {e \in trace : ~ e.occurs} :
              trace' = Materialized(S, O).events
      BY <2>2 DEF Complete
    <3>2. PICK S \in SUBSET DOMAIN model.slots : \E O \in SUBSET {e \in trace : ~ e.occurs} :
              trace' = Materialized(S, O).events
      BY <3>1
    <3>3. PICK O \in SUBSET {e \in trace : ~ e.occurs} : trace' = Materialized(S, O).events
      BY <3>2
    <3> DEFINE late == [e \in O |-> [e EXCEPT !.occurs = TRUE]]
               new == [id \in S |-> SlotEvent(id)]
               old == {e \in trace : e.occurs}
    <3>4. trace' = old \cup {late[e] : e \in O} \cup {new[id] : id \in S}
      BY <3>3 DEF Materialized
    <3>5. O \subseteq trace /\ old \subseteq trace
      OBVIOUS
    <3>6. IsFiniteSet(trace) /\ IsFiniteSet(S)
      <4>1. IsFiniteSet(DOMAIN model.slots)
        <5>1. /\ MergedInto(DOMAIN model.slots, loaded, Len(loaded), "slots") /\ "slots" \in Kinds
              /\ IsContext(context) /\ LoadedSoFar(project.modules, context, loaded)
          BY <1>1 DEF ComposeInv, Filled, Wired, Kinds
        <5> QED
          BY <5>1, LoadedCount
      <4> QED
        BY <4>1, FS_Subset DEF ComposeInv
    <3>7. DOMAIN late = O /\ DOMAIN new = S
      OBVIOUS
    <3> HIDE DEF late, new, old
    <3>8. IsFiniteSet(O) /\ IsFiniteSet(old)
      BY <3>5, <3>6, FS_Subset
    <3>9. IsFiniteSet({late[e] : e \in O}) /\ IsFiniteSet({new[id] : id \in S})
      BY <3>6, <3>7, <3>8, ImageIsFinite
    <3> QED
      BY <3>4, <3>8, <3>9, FS_Union
  <2> QED
    BY <2>1, <2>2
<1> QED
  BY <1>1, <1>2 DEF ComposeInv, Valid, Filled, Wired

LEMMA RecomposeStep == TraceInv /\ ComposeInv /\ Recompose => ComposeInv'
<1> SUFFICES ASSUME TraceInv, ComposeInv, Recompose PROVE ComposeInv'
  OBVIOUS
<1>1. /\ phase' = "open" /\ context' = Start /\ roles' = 0 /\ loaded' = << >> /\ wired' = 0
      /\ merged' = 0 /\ mapped' = 0 /\ model' = EmptyModel /\ trace' = trace
  BY DEF Recompose
<1>2. IsContext(Start)
  BY ProjectAssumption DEF TraceInv, Start, IsContext
<1>3. DOMAIN EmptyModel = {"slots", "states", "rules", "constraints"}
  BY DEF EmptyModel
<1>4. Start = [one |-> project.parameters, many |-> project.lists]
  BY DEF Start
<1> QED
  BY <1>1, <1>2, <1>3 DEF ComposeInv, Valid, Filled, Wired

LEMMA CompositionInit == Init => TraceInv /\ ComposeInv
BY TraceInit, ComposeInit

LEMMA CompositionStep == TraceInv /\ ComposeInv /\ [Next]_vars => (TraceInv /\ ComposeInv)'
<1> SUFFICES ASSUME TraceInv, ComposeInv, [Next]_vars PROVE ComposeInv'
  BY TraceStep
<1>1. ASSUME UNCHANGED <<project, trace, composing>>, phase' \notin Valid \cup {"open"} \/ phase' = phase
      PROVE  ComposeInv'
  <2>1. ValidComposition' <=> ValidComposition
    BY <1>1 DEF ValidComposition
  <2> QED
    BY <1>1, <2>1 DEF ComposeInv, Valid, Filled, Wired, composing
<1>2. CASE Composing
  BY <1>2, OpenStep, ResolveStep, RolesStep, LoadStep, LoadedStep, ConnectStep, RequireStep, MergeStep,
     AllMergedStep, MapStep, ComposedStep DEF Composing, ComposeNext
<1>3. CASE Complete
  BY <1>3, CompleteStep
<1>4. CASE Recompose
  BY <1>4, RecomposeStep
<1>5. CASE ProjectInterface
  <2>1. phase = "composed" /\ phase' = "projected" /\ UNCHANGED <<project, trace, composing>>
    BY <1>5 DEF ProjectInterface
  <2>2. ValidComposition' <=> ValidComposition
    BY <2>1 DEF ValidComposition
  <2> QED
    BY <2>1, <2>2 DEF ComposeInv, Valid, Filled, Wired, composing
<1>6. CASE Abstract
  BY <1>1, <1>6 DEF Abstract, Valid
<1>7. CASE CheckRefinement
  BY <1>1, <1>7 DEF CheckRefinement, Valid
<1>8. CASE UNCHANGED vars
  BY <1>1, <1>8 DEF vars
<1> QED
  BY <1>2, <1>3, <1>4, <1>5, <1>6, <1>7, <1>8 DEF Next

LEMMA ComposedKeepsApart == TraceInv /\ ComposeInv => NothingIsShared
<1> SUFFICES ASSUME TraceInv, ComposeInv, phase = "composed"
             PROVE  /\ Cardinality(DOMAIN model.slots) = Cardinality(AllDeclarations("slots"))
                    /\ Cardinality(DOMAIN model.states) = Cardinality(AllDeclarations("states"))
                    /\ Cardinality(DOMAIN model.rules) = Cardinality(AllDeclarations("rules")) + Cardinality(Mappings)
                    /\ AtHome(model)
                    /\ \A c, d \in ToSet(project.connections) : c.target = d.target => c = d
  BY DEF NothingIsShared, AtHome
<1> DEFINE cs == project.connections
           n == Len(project.modules)
<1>1. /\ IsContext(context) /\ LoadedSoFar(project.modules, context, loaded) /\ Len(loaded) = n
      /\ merged = n /\ AtHome(model) /\ OneDriver(cs, Len(cs))
      /\ MergedInto(DOMAIN model.slots, loaded, n, "slots")
      /\ MergedInto(DOMAIN model.states, loaded, n, "states")
      /\ Mapped(DOMAIN model.rules, cs, Len(cs), loaded)
  BY DEF ComposeInv, Filled, Wired
<1>2. n \in Nat /\ DOMAIN project.modules = 1 .. n /\ Len(cs) \in Nat /\ DOMAIN cs = 1 .. Len(cs)
  BY ListDomain, ProjectAssumption DEF TraceInv
<1>3. ASSUME NEW kind \in Kinds PROVE Keys(loaded, n, kind) = AllDeclarations(kind)
  <2>1. \A k \in 1 .. n : DOMAIN loaded[k][kind] = Declarations(project.modules[k], context, kind)
    BY <1>1, LoadedDeclarations
  <2>2. \A p : p \in AllDeclarations(kind) <=>
                  \E k \in 1 .. n : \E d \in Declarations(project.modules[k], context, kind) : p = <<k, d>>
    BY <1>2 DEF AllDeclarations
  <2>3. \A p : p \in Keys(loaded, n, kind) <=> \E k \in 1 .. n : \E d \in DOMAIN loaded[k][kind] : p = <<k, d>>
    BY KeyMembers
  <2> QED
    BY <2>1, <2>2, <2>3
<1>4. \A i, j \in 1 .. Len(cs) : cs[i].target = cs[j].target => i = j
  BY <1>1 DEF OneDriver
<1>5. Cardinality({i \in 1 .. Len(cs) : ~ cs[i].shared}) = Cardinality(Mappings)
  <2> DEFINE I == {i \in 1 .. Len(cs) : ~ cs[i].shared}
             f == [i \in I |-> cs[i]]
  <2>1. f \in [I -> Mappings] /\ \A c \in Mappings : \E i \in I : f[i] = c
    BY <1>2 DEF Mappings, ToSet
  <2>2. IsInjective(f)
    BY <1>4 DEF IsInjective
  <2>3. IsFiniteSet(I)
    <3>1. I \subseteq DOMAIN cs
      BY <1>2
    <3>2. IsFiniteSet(DOMAIN cs)
      BY ListDomain, ProjectAssumption DEF TraceInv
    <3> HIDE DEF I
    <3> QED
      BY <3>1, <3>2, FS_Subset
  <2> HIDE DEF f, I
  <2>4. f \in Bijection(I, Mappings)
    BY <2>1, <2>2 DEF Bijection, Injection, Surjection
  <2>5. ExistsBijection(I, Mappings)
    BY <2>4 DEF ExistsBijection
  <2>6. Cardinality(Mappings) = Cardinality(I)
    BY <2>3, <2>5, FS_Bijection
  <2> QED
    BY <2>6 DEF I
<1>6. Cardinality(DOMAIN model.slots) = Cardinality(AllDeclarations("slots"))
  <2>1. MergedInto(DOMAIN model.slots, loaded, Len(loaded), "slots") /\ "slots" \in Kinds
    BY <1>1 DEF Kinds
  <2>2. Cardinality(DOMAIN model.slots) = Cardinality(Keys(loaded, Len(loaded), "slots"))
    BY <1>1, <2>1, LoadedCount
  <2> QED
    BY <1>1, <1>3, <2>1, <2>2
<1>7. Cardinality(DOMAIN model.states) = Cardinality(AllDeclarations("states"))
  <2>1. MergedInto(DOMAIN model.states, loaded, Len(loaded), "states") /\ "states" \in Kinds
    BY <1>1 DEF Kinds
  <2>2. Cardinality(DOMAIN model.states) = Cardinality(Keys(loaded, Len(loaded), "states"))
    BY <1>1, <2>1, LoadedCount
  <2> QED
    BY <1>1, <1>3, <2>1, <2>2
<1>8. Cardinality(DOMAIN model.rules) = Cardinality(AllDeclarations("rules")) + Cardinality(Mappings)
  BY <1>1, <1>3, <1>5 DEF Mapped, Kinds
<1>9. \A c, d \in ToSet(cs) : c.target = d.target => c = d
  BY <1>2, <1>4 DEF ToSet
<1> QED
  BY <1>1, <1>6, <1>7, <1>8, <1>9

\* In a composed model every declaration of every instance has a name of its own, no rule
\* touches a cell of another module, and no port has two drivers: merging refuses a name
\* that is there, and validation refuses two equal ones in a module (`compose_modules`,
\* `_merge_unique`, `ModuleSpec.validate`).
THEOREM ComposedSharesNothing == Spec => []NothingIsShared
BY CompositionInit, CompositionStep, ComposedKeepsApart, PTL DEF Spec

-----------------------------------------------------------------------------
(* Equal items. *)

\* A non-empty set of naturals has a least element: the intervals up to its elements
\* are finite sets, and strict inclusion of finite sets is well-founded.
LEMMA LeastNatural ==
    ASSUME NEW S \in SUBSET Nat, S # {}
    PROVE  \E n \in S : \A m \in S : n <= m
<1> DEFINE T == {0 .. n : n \in S}
<1>1. T # {} /\ T \subseteq FiniteSubsetsOf(Nat)
  <2>1. \A n \in S : IsFiniteSet(0 .. n) /\ 0 .. n \in SUBSET Nat
    BY FS_Interval
  <2> QED
    BY <2>1, Zenon DEF FiniteSubsetsOf
<1>2. PICK t \in T : \A u \in T : ~ (<<u, t>> \in StrictSubsetOrdering(Nat))
  <2> HIDE DEF T
  <2> QED
    BY <1>1, WFMin, FS_StrictSubsetOrderingWellFounded
<1>3. PICK n \in S : t = 0 .. n
  OBVIOUS
<1>4. ASSUME NEW m \in S, m < n PROVE <<0 .. m, 0 .. n>> \in StrictSubsetOrdering(Nat)
  <2>1. 0 .. m \subseteq 0 .. n /\ 0 .. n \subseteq Nat /\ n \in 0 .. n /\ n \notin 0 .. m
    BY <1>4
  <2> QED
    BY <2>1 DEF StrictSubsetOrdering
<1>5. \A m \in S : ~ (m < n)
  BY <1>2, <1>3, <1>4, Zenon
<1> QED
  BY <1>5


LEMMA LexicalTuples ==
    ASSUME NEW n \in Nat, NEW f \in [1 .. n -> Nat], NEW g \in [1 .. n -> Nat]
    PROVE  Lexical(f, g) <=> \E i \in 1 .. n : f[i] < g[i] /\ \A j \in 1 .. i - 1 : f[j] = g[j]
<1>1. Len(f) = n /\ Len(g) = n /\ DOMAIN f = 1 .. n /\ DOMAIN g = 1 .. n
  OBVIOUS
<1>2. ~ (Len(f) < Len(g)) /\ DOMAIN f \cap DOMAIN g = 1 .. n
  BY <1>1
<1> QED
  BY <1>2 DEF Lexical

LEMMA LexicalTotal ==
    ASSUME NEW n \in Nat, NEW f \in [1 .. n -> Nat], NEW g \in [1 .. n -> Nat], f # g
    PROVE  Lexical(f, g) \/ Lexical(g, f)
<1> DEFINE D == {i \in 1 .. n : f[i] # g[i]}
<1>1. D \in SUBSET Nat /\ D # {}
  <2>1. ASSUME \A i \in 1 .. n : f[i] = g[i] PROVE f = g
    BY <2>1
  <2>2. \E i \in 1 .. n : f[i] # g[i]
    BY <2>1
  <2> QED
    BY <2>2
<1>2. PICK i \in D : \A j \in D : i <= j
  <2> HIDE DEF D
  <2> QED
    BY <1>1, LeastNatural
<1>3. \A j \in 1 .. i - 1 : f[j] = g[j]
  BY <1>2
<1>4. f[i] < g[i] \/ g[i] < f[i]
  OBVIOUS
<1> QED
  BY <1>2, <1>3, <1>4, LexicalTuples

LEMMA LexicalOrder ==
    ASSUME NEW n \in Nat, NEW f \in [1 .. n -> Nat], NEW g \in [1 .. n -> Nat], NEW h \in [1 .. n -> Nat]
    PROVE  ~ Lexical(f, f) /\ (Lexical(f, g) /\ Lexical(g, h) => Lexical(f, h))
<1>1. ~ Lexical(f, f)
  <2>1. Lexical(f, f) <=> \E i \in 1 .. n : f[i] < f[i] /\ \A j \in 1 .. i - 1 : f[j] = f[j]
    BY LexicalTuples
  <2>2. \A i \in 1 .. n : ~ (f[i] < f[i])
    OBVIOUS
  <2> QED
    BY <2>1, <2>2
<1>2. ASSUME Lexical(f, g), Lexical(g, h) PROVE Lexical(f, h)
  <2>1. PICK i \in 1 .. n : f[i] < g[i] /\ \A j \in 1 .. i - 1 : f[j] = g[j]
    BY <1>2, LexicalTuples
  <2>2. PICK k \in 1 .. n : g[k] < h[k] /\ \A j \in 1 .. k - 1 : g[j] = h[j]
    BY <1>2, LexicalTuples
  <2>3. CASE i < k
    <3>1. f[i] < h[i] /\ \A j \in 1 .. i - 1 : f[j] = h[j]
      BY <2>1, <2>2, <2>3
    <3> QED
      BY <3>1, LexicalTuples
  <2>4. CASE i = k
    <3>1. f[i] < h[i] /\ \A j \in 1 .. i - 1 : f[j] = h[j]
      BY <2>1, <2>2, <2>4
    <3> QED
      BY <3>1, LexicalTuples
  <2>5. CASE k < i
    <3>1. f[k] < h[k] /\ \A j \in 1 .. k - 1 : f[j] = h[j]
      BY <2>1, <2>2, <2>5
    <3> QED
      BY <3>1, LexicalTuples
  <2> QED
    BY <2>3, <2>4, <2>5
<1> QED
  BY <1>1, <1>2

\* Of two tuples, the one that comes first has fewer before it.
LEMMA RanksDiffer ==
    ASSUME NEW n \in Nat, NEW S \in SUBSET [1 .. n -> Nat], IsFiniteSet(S), NEW f \in S, NEW g \in S, f # g
    PROVE  Cardinality({x \in S : Lexical(x, f)}) # Cardinality({x \in S : Lexical(x, g)})
<1> DEFINE before(x) == {y \in S : Lexical(y, x)}
<1>1. ASSUME NEW x \in S, NEW y \in S, Lexical(x, y) PROVE Cardinality(before(x)) # Cardinality(before(y))
  <2>1. before(x) \subseteq before(y)
    BY <1>1, LexicalOrder
  <2>2. x \in before(y) /\ x \notin before(x)
    BY <1>1, LexicalOrder
  <2>3. before(y) \subseteq S
    OBVIOUS
  <2> HIDE DEF before
  <2>4. IsFiniteSet(before(y))
    BY <2>3, FS_Subset
  <2>5. Cardinality(before(x)) = Cardinality(before(y)) => before(x) = before(y)
    BY <2>1, <2>4, FS_Subset
  <2> QED
    BY <2>2, <2>5
<1>2. Lexical(f, g) \/ Lexical(g, f)
  BY LexicalTotal
<1> QED
  BY <1>1, <1>2

LEMMA PositionTuples ==
    ASSUME NEW p, IsList(p.axes), NEW c, IsContext(c), \A a \in ToSet(p.axes) : a.over \in DOMAIN c.many
    PROVE  Positions(p, c) \in SUBSET [1 .. Len(p.axes) -> Nat] /\ Len(p.axes) \in Nat /\ DOMAIN p.axes = 1 .. Len(p.axes)
<1>1. Len(p.axes) \in Nat /\ DOMAIN p.axes = 1 .. Len(p.axes)
  BY ListDomain
<1>2. \A i \in DOMAIN p.axes : DOMAIN c.many[p.axes[i].over] \subseteq Nat
  <2> TAKE i \in DOMAIN p.axes
  <2>1. p.axes[i].over \in DOMAIN c.many
    BY DEF ToSet
  <2>2. IsList(c.many[p.axes[i].over])
    BY <2>1 DEF IsContext
  <2>3. DOMAIN c.many[p.axes[i].over] = 1 .. Len(c.many[p.axes[i].over])
    BY <2>2, ListDomain
  <2> QED
    BY <2>3
<1>3. ASSUME NEW f \in Positions(p, c) PROVE f \in [1 .. Len(p.axes) -> Nat]
  <2> DEFINE all == UNION {DOMAIN c.many[p.axes[i].over] : i \in DOMAIN p.axes}
  <2>1. f \in [DOMAIN p.axes -> all] /\ \A i \in DOMAIN p.axes : f[i] \in DOMAIN c.many[p.axes[i].over]
    BY DEF Positions
  <2> HIDE DEF all
  <2>2. \A i \in DOMAIN p.axes : f[i] \in Nat
    BY <1>2, <2>1
  <2> QED
    BY <1>1, <2>1, <2>2
<1> QED
  BY <1>1, <1>3

LEMMA PutTwice ==
    ASSUME NEW f, NEW one, NEW two, one # two, NEW v, NEW w
    PROVE  Put(Put(f, one, v), two, w)[one] = v
<1> DEFINE g == [x \in DOMAIN f \cup {one} |-> IF x = one THEN v ELSE f[x]]
<1>1. one \in DOMAIN g /\ g[one] = v
  OBVIOUS
<1>2. Put(f, one, v) = g
  BY DEF Put
<1> HIDE DEF g
<1>3. Put(g, two, w)[one] = g[one]
  BY <1>1 DEF Put
<1> QED
  BY <1>1, <1>2, <1>3

\* An item knows its position, also when the item before it is equal.
LEMMA PositionShows ==
    ASSUME NEW p, NEW c, NEW f, NEW i \in DOMAIN p.axes, \A j, k \in DOMAIN p.axes : p.axes[j].as = p.axes[k].as => j = k
    PROVE  Combined(p, c, f)[p.axes[i].as]["repeat_index"]
                = IF p.axes[i].as = "product" THEN ProductIndex(p, c, f) ELSE f[i] - 1
<1> DEFINE n == ProductIndex(p, c, f)
           aliases == {p.axes[j].as : j \in DOMAIN p.axes}
           axis(alias) == CHOOSE j \in DOMAIN p.axes : p.axes[j].as = alias
           item(alias) == AxisItem(p, c, f, axis(alias))
           items == [alias \in aliases |-> Put(item(alias), "product_index", n)]
           alias == p.axes[i].as
<1>1. Combined(p, c, f) = Put(Updated(c.one, items), "product", [repeat_index |-> n])
  BY DEF Combined
<1>2. alias \in aliases
  OBVIOUS
<1>3. axis(alias) = i
  OBVIOUS
<1>4. item(alias) = Put(c.many[p.axes[i].over][f[i]], "repeat_index", f[i] - 1)
  BY <1>3 DEF AxisItem, Indexed
<1> HIDE DEF n, axis, aliases
<1>5. items[alias] = Put(item(alias), "product_index", n) /\ DOMAIN items = aliases
  BY <1>2
<1> HIDE DEF item, items
<1>6. items[alias]["repeat_index"] = f[i] - 1
  <2> DEFINE old == c.many[p.axes[i].over][f[i]]
             k == f[i] - 1
             x == item(alias)
             y == items[alias]
  <2>1. x = Put(old, "repeat_index", k) /\ y = Put(x, "product_index", n)
    BY <1>4, <1>5
  <2> HIDE DEF old, k, x, y
  <2>2. y["repeat_index"] = k
    <3> DEFINE one == "repeat_index"
               two == "product_index"
    <3>1. one # two /\ y = Put(Put(old, one, k), two, n)
      BY <2>1
    <3> HIDE DEF one, two
    <3>2. Put(Put(old, one, k), two, n)[one] = k
      BY <3>1, PutTwice
    <3>3. y[one] = k
      BY <3>1, <3>2
    <3> QED
      BY <3>3 DEF one
  <2> QED
    BY <2>2 DEF k, y
<1> HIDE DEF alias
<1>7. Updated(c.one, items)[alias] = items[alias] /\ alias \in DOMAIN Updated(c.one, items)
  BY <1>2, <1>5 DEF Updated
<1> DEFINE all == Updated(c.one, items)
           last == [repeat_index |-> n]
<1>8. last["repeat_index"] = n
  OBVIOUS
<1> HIDE DEF all, last
<1>9. Put(all, "product", last)[alias] = IF alias = "product" THEN last ELSE all[alias]
  BY <1>7 DEF Put, all
<1>10. Combined(p, c, f) = Put(all, "product", last)
  BY <1>1 DEF all, last
<1>11. Combined(p, c, f)[alias]["repeat_index"] = IF alias = "product" THEN n ELSE f[i] - 1
  BY <1>6, <1>7, <1>8, <1>9, <1>10 DEF all
<1> QED
  BY <1>11 DEF alias, n

\* The j-th value of a rendered name.
LEMMA NameShows ==
    ASSUME NEW n, IsList(n.args), NEW env, NEW j \in DOMAIN n.args
    PROVE  Name(n, env)[j + 1] = env[n.args[j][1]][n.args[j][2]]
<1> DEFINE values == [i \in DOMAIN n.args |-> env[n.args[i][1]][n.args[i][2]]]
<1>1. Len(n.args) \in Nat /\ DOMAIN n.args = 1 .. Len(n.args)
  BY ListDomain
<1>2. IsList(values)
  <2>1. DOMAIN values = 1 .. Len(n.args)
    BY <1>1
  <2>2. values = [i \in 1 .. Len(n.args) |-> values[i]]
    BY <1>1
  <2> HIDE DEF values
  <2> QED
    BY <1>1, <2>1, <2>2, ListOf
<1>3. Name(n, env) = <<n.base>> \o values
  BY DEF Name
<1>4. values[j] = env[n.args[j][1]][n.args[j][2]] /\ DOMAIN values = DOMAIN n.args
  OBVIOUS
<1> HIDE DEF values
<1>5. (<<n.base>> \o values)[j + 1] = values[j]
  <2> DEFINE S == Range(values) \cup {n.base}
  <2>1. values \in Seq(S) /\ <<n.base>> \in Seq(S) /\ Len(<<n.base>>) = 1
    BY <1>2 DEF IsList
  <2>2. Len(values) = Len(n.args) /\ j \in 1 .. Len(values)
    BY <1>1, <1>2, <1>4, ListDomain
  <2> HIDE DEF S
  <2> QED
    BY <2>1, <2>2
<1> QED
  BY <1>3, <1>4, <1>5

LEMMA LoadKeepsApart ==
    ASSUME NEW t, IsTemplate(t), NEW c, IsContext(c), Expands(t, c), NEW p \in ToSet(t.products),
           p.include.rules # << >>, UsesPositions(p),
           NEW f \in Positions(p, c), NEW g \in Positions(p, c), f # g
    PROVE  Names(Render(p.include, Combined(p, c, f)).rules) # Names(Render(p.include, Combined(p, c, g)).rules)
<1> DEFINE rules == p.include.rules
           r == rules[1]
<1>1. IsFragment(p.include) /\ IsList(p.axes) /\ IsList(rules)
  BY DEF IsTemplate, ToSet, Range, IsFragment
<1>2. /\ \A a \in ToSet(p.axes) : a.over \in DOMAIN c.many
      /\ \A j, k \in DOMAIN p.axes : p.axes[j].as = p.axes[k].as => j = k
  BY DEF Expands, IsInjective
<1>3. 1 \in DOMAIN rules
  BY <1>1 DEF IsList
<1>4. IsList(r.name.args)
  <2>1. r \in Range(p.include.rules)
    BY <1>3 DEF Range
  <2> QED
    BY <1>1, <2>1 DEF IsFragment
<1>5. \A env : Names(Render(p.include, env).rules)[1] = Name(r.name, env)
  <2> TAKE env
  <2>1. Render(p.include, env).rules = [i \in DOMAIN rules |-> RenderRule(rules[i], env)]
    BY DEF Render
  <2>2. RenderRule(r, env).name = Name(r.name, env)
    BY DEF RenderRule
  <2> HIDE DEF rules
  <2> QED
    BY <1>3, <2>1, <2>2 DEF Names
<1>6. /\ Positions(p, c) \in SUBSET [1 .. Len(p.axes) -> Nat] /\ Len(p.axes) \in Nat
      /\ DOMAIN p.axes = 1 .. Len(p.axes)
  BY <1>1, <1>2, PositionTuples
<1>7. PICK i \in DOMAIN p.axes : f[i] # g[i]
  <2>1. ASSUME \A i \in DOMAIN p.axes : f[i] = g[i] PROVE f = g
    BY <1>6, <2>1
  <2> QED
    BY <2>1
<1>8. PICK j \in DOMAIN r.name.args : r.name.args[j] = <<p.axes[i].as, "repeat_index">>
  <2>1. r \in ToSet(p.include.rules)
    BY <1>3 DEF ToSet
  <2>2. <<p.axes[i].as, "repeat_index">> \in ToSet(r.name.args)
    BY <2>1 DEF UsesPositions
  <2> QED
    BY <2>2 DEF ToSet
<1>9. \A env : Name(r.name, env)[j + 1] = env[p.axes[i].as]["repeat_index"]
  BY <1>4, <1>8, NameShows
<1>10. Combined(p, c, f)[p.axes[i].as]["repeat_index"] # Combined(p, c, g)[p.axes[i].as]["repeat_index"]
  <2>1. ProductIndex(p, c, f) # ProductIndex(p, c, g)
    <3> DEFINE S == Positions(p, c)
    <3>1. IsFiniteSet(S)
      BY <1>1, <1>2, PositionsAreFinite
    <3>2. S \in SUBSET [1 .. Len(p.axes) -> Nat] /\ f \in S /\ g \in S
      BY <1>6
    <3>3. /\ ProductIndex(p, c, f) = Cardinality({x \in S : Lexical(x, f)})
          /\ ProductIndex(p, c, g) = Cardinality({x \in S : Lexical(x, g)})
      BY DEF ProductIndex
    <3> HIDE DEF S
    <3>4. Cardinality({x \in S : Lexical(x, f)}) # Cardinality({x \in S : Lexical(x, g)})
      BY <1>6, <3>1, <3>2, RanksDiffer
    <3> QED
      BY <3>3, <3>4
  <2>2. f[i] - 1 # g[i] - 1
    BY <1>6, <1>7
  <2> QED
    BY <1>2, <2>1, <2>2, PositionShows
<1> QED
  BY <1>5, <1>9, <1>10

LEMMA LoadingKeepsApart == TraceInv /\ ComposeInv => EqualItemsStayApart
<1> SUFFICES ASSUME TraceInv, ComposeInv, NEW t \in ToSet(project.modules), phase = "load", Expands(t, context),
                    NEW p \in ToSet(t.products), p.include.rules # << >>, UsesPositions(p),
                    NEW f \in Positions(p, context), NEW g \in Positions(p, context), f # g
             PROVE  Names(Render(p.include, Combined(p, context, f)).rules)
                        # Names(Render(p.include, Combined(p, context, g)).rules)
  BY DEF EqualItemsStayApart, IsInjective
<1>1. IsTemplate(t)
  <2>1. t \in Range(project.modules)
    BY DEF ToSet, Range
  <2> QED
    BY <2>1, ProjectAssumption DEF TraceInv
<1>2. IsContext(context)
  BY DEF ComposeInv
<1> QED
  BY <1>1, <1>2, LoadKeepsApart

\* Rules that are named by the positions of the items they combine never collide, also if
\* two items are equal: every position gives another name, for any lists, any number of
\* axes and any alias (`expand_module_repeats`).
THEOREM EqualItemsKeptApart == Spec => []EqualItemsStayApart
BY CompositionInit, CompositionStep, LoadingKeepsApart, PTL DEF Spec

-----------------------------------------------------------------------------
(* Slots, and the events that were completed from them. *)

SlotTemplates(t) ==
    Range(t.base.slots)
        \cup (UNION {Range(r.include.slots) : r \in Range(t.repeats)})
        \cup (UNION {Range(p.include.slots) : p \in Range(t.products)})

OpenTypes(t) == {p.type : p \in {q \in Range(t.base.ports) : q.enabled}}

\* A project in which the names tell: observations have no owner and are not named like
\* slots, the constant part of the name of a slot tells its module and its type, and no
\* instance brings ports of its own.  The composition of the completed trace instantiates
\* other slots than the first one, and knows of the completed events by their names.
WellNamed(p) ==
    /\ \A e \in p.events : e.owner = {}
    /\ \A i \in DOMAIN p.modules : \A s \in SlotTemplates(p.modules[i]) :
        /\ \A e \in p.events : e.id[1] # s.name.base
        /\ \A j \in DOMAIN p.modules : \A q \in SlotTemplates(p.modules[j]) :
            q.name.base = s.name.base => i = j /\ q.type = s.type
    /\ \A t \in Range(p.modules) : \A x \in Range(t.repeats) \cup Range(t.products) : x.include.ports = << >>

PortsInBase(t) == \A x \in Range(t.repeats) \cup Range(t.products) : x.include.ports = << >>

\* A slot of the project: its name, type, owner and visibility.
SlotOf(p, id, type, owner, public) ==
    \E k \in DOMAIN p.modules : \E s \in SlotTemplates(p.modules[k]) :
        /\ id[1] = s.name.base /\ type = s.type /\ owner = p.modules[k].name
        /\ public <=> s.type \in OpenTypes(p.modules[k])

LEMMA NameBase ==
    ASSUME NEW n, IsList(n.args), NEW env PROVE Name(n, env)[1] = n.base
<1> DEFINE values == [i \in DOMAIN n.args |-> env[n.args[i][1]][n.args[i][2]]]
<1>1. Len(n.args) \in Nat /\ DOMAIN n.args = 1 .. Len(n.args)
  BY ListDomain
<1>2. IsList(values)
  <2>1. DOMAIN values = 1 .. Len(n.args)
    BY <1>1
  <2>2. values = [i \in 1 .. Len(n.args) |-> values[i]]
    BY <1>1
  <2> HIDE DEF values
  <2> QED
    BY <1>1, <2>1, <2>2, ListOf
<1>3. Name(n, env) = <<n.base>> \o values
  BY DEF Name
<1> HIDE DEF values
<1>4. (<<n.base>> \o values)[1] = n.base
  <2> DEFINE S == Range(values) \cup {n.base}
  <2>1. values \in Seq(S) /\ <<n.base>> \in Seq(S) /\ Len(<<n.base>>) = 1
    BY <1>2 DEF IsList
  <2> HIDE DEF S
  <2> QED
    BY <2>1
<1> QED
  BY <1>3, <1>4

LEMMA FragmentSlots ==
    ASSUME NEW t, NEW c, NEW x \in Instances(t, c)
    PROVE  Range(Fragment(t, x).slots) \subseteq SlotTemplates(t)
<1>1. CASE x = <<"base">>
  BY <1>1 DEF Fragment, SlotTemplates
<1>2. ASSUME NEW i \in DOMAIN t.repeats, NEW k, x = <<"repeat", i, k>>
      PROVE  Range(Fragment(t, x).slots) \subseteq SlotTemplates(t)
  <2>1. x[1] = "repeat" /\ x[2] = i
    BY <1>2
  <2>2. t.repeats[i] \in Range(t.repeats)
    BY DEF Range
  <2>3. Fragment(t, x) = t.repeats[i].include
    BY <2>1 DEF Fragment
  <2> QED
    BY <2>2, <2>3 DEF SlotTemplates
<1>3. ASSUME NEW i \in DOMAIN t.products, NEW f, x = <<"product", i, f>>
      PROVE  Range(Fragment(t, x).slots) \subseteq SlotTemplates(t)
  <2>1. x[1] = "product" /\ x[2] = i
    BY <1>3
  <2>2. t.products[i] \in Range(t.products)
    BY DEF Range
  <2>3. Fragment(t, x) = t.products[i].include
    BY <2>1 DEF Fragment
  <2> QED
    BY <2>2, <2>3 DEF SlotTemplates
<1> QED
  BY <1>1, <1>2, <1>3 DEF Instances

LEMMA ExpandedSlots ==
    ASSUME NEW t, IsTemplate(t), NEW c, NEW s \in Range(Expand(t, c).slots)
    PROVE  \E q \in SlotTemplates(t) : s.name[1] = q.name.base /\ s.type = q.type
<1> DEFINE item(d) == Render(Fragment(t, d[1]), Environment(t, c, d[1])).slots[d[2]]
<1>1. PICK d \in Declarations(t, c, "slots") : s = item(d)
  <2> DEFINE rendered == [x \in Instances(t, c) |-> Render(Fragment(t, x), Environment(t, c, x))]
  <2>1. Expand(t, c).slots = [d \in Declarations(t, c, "slots") |-> rendered[d[1]]["slots"][d[2]]]
    BY DEF Expand
  <2>2. PICK d \in Declarations(t, c, "slots") : s = rendered[d[1]]["slots"][d[2]]
    BY <2>1 DEF Range
  <2>3. d[1] \in Instances(t, c)
    BY DEF Declarations
  <2>4. rendered[d[1]] = Render(Fragment(t, d[1]), Environment(t, c, d[1]))
    BY <2>3
  <2> HIDE DEF rendered
  <2> QED
    BY <2>2, <2>4
<1>2. PICK x \in Instances(t, c) : \E i \in DOMAIN Fragment(t, x).slots : d = <<x, i>>
  BY DEF Declarations
<1>3. PICK i \in DOMAIN Fragment(t, x).slots : d = <<x, i>>
  BY <1>2
<1> DEFINE q == Fragment(t, x).slots[i]
           env == Environment(t, c, x)
<1>4. q \in Range(Fragment(t, x).slots)
  BY DEF Range
<1>5. q \in SlotTemplates(t)
  BY <1>4, FragmentSlots
<1>6. IsList(q.name.args)
  BY <1>4, FragmentOf DEF IsFragment
<1> HIDE DEF q, env
<1>7. s = RenderSlot(q, env)
  BY <1>1, <1>3 DEF Render, q, env
<1>8. s.name = Name(q.name, env) /\ s.type = q.type
  BY <1>7 DEF RenderSlot
<1>9. s.name[1] = q.name.base
  BY <1>6, <1>8, NameBase
<1> QED
  BY <1>5, <1>8, <1>9

LEMMA ExpandedPorts ==
    ASSUME NEW t, PortsInBase(t), NEW c
    PROVE  Range(Expand(t, c).ports) = Range(t.base.ports)
<1> DEFINE rendered == [x \in Instances(t, c) |-> Render(Fragment(t, x), Environment(t, c, x))]
           D == Declarations(t, c, "ports")
<1>1. Expand(t, c).ports = [d \in D |-> rendered[d[1]]["ports"][d[2]]]
  BY DEF Expand
<1>2. \A x \in Instances(t, c) : rendered[x].ports = Fragment(t, x).ports
  BY DEF Render
<1> HIDE DEF rendered
<1>3. \A x \in Instances(t, c) : x # <<"base">> => Fragment(t, x).ports = << >>
  <2> SUFFICES ASSUME NEW x \in Instances(t, c), x # <<"base">> PROVE Fragment(t, x).ports = << >>
    OBVIOUS
  <2>1. ASSUME NEW i \in DOMAIN t.repeats, NEW k, x = <<"repeat", i, k>> PROVE Fragment(t, x).ports = << >>
    <3>1. x[1] = "repeat" /\ x[2] = i
      BY <2>1
    <3>2. t.repeats[i] \in Range(t.repeats)
      BY DEF Range
    <3>3. Fragment(t, x) = t.repeats[i].include
      BY <3>1 DEF Fragment
    <3> QED
      BY <3>2, <3>3 DEF PortsInBase
  <2>2. ASSUME NEW i \in DOMAIN t.products, NEW f, x = <<"product", i, f>> PROVE Fragment(t, x).ports = << >>
    <3>1. x[1] = "product" /\ x[2] = i
      BY <2>2
    <3>2. t.products[i] \in Range(t.products)
      BY DEF Range
    <3>3. Fragment(t, x) = t.products[i].include
      BY <3>1 DEF Fragment
    <3> QED
      BY <3>2, <3>3 DEF PortsInBase
  <2> QED
    BY <2>1, <2>2 DEF Instances
<1>4. <<"base">> \in Instances(t, c) /\ Fragment(t, <<"base">>) = t.base
  BY DEF Instances, Fragment
<1>5. \A d : d \in D <=> \E i \in DOMAIN t.base.ports : d = <<<<"base">>, i>>
  <2>1. \A d : d \in D <=> \E x \in Instances(t, c) : \E i \in DOMAIN Fragment(t, x).ports : d = <<x, i>>
    BY DEF Declarations
  <2>2. DOMAIN << >> = {}
    OBVIOUS
  <2> HIDE DEF D
  <2> QED
    BY <1>3, <1>4, <2>1, <2>2
<1> HIDE DEF D
<1>6. \A i \in DOMAIN t.base.ports : rendered[<<"base">>].ports[i] = t.base.ports[i]
  BY <1>2, <1>4
<1>7. \A p : p \in Range(Expand(t, c).ports) <=> \E d \in D : p = rendered[d[1]]["ports"][d[2]]
  BY <1>1 DEF Range
<1>8. \A p : p \in Range(Expand(t, c).ports) <=> \E i \in DOMAIN t.base.ports : p = t.base.ports[i]
  <2> DEFINE at(d) == rendered[d[1]]["ports"][d[2]]
  <2>1. ASSUME NEW i \in DOMAIN t.base.ports, NEW d, d = <<<<"base">>, i>> PROVE at(d) = t.base.ports[i]
    <3>1. d[1] = <<"base">> /\ d[2] = i
      BY <2>1
    <3> QED
      BY <1>6, <3>1
  <2>2. \A p : p \in Range(Expand(t, c).ports) <=> \E d \in D : p = at(d)
    BY <1>7
  <2> HIDE DEF at
  <2>3. ASSUME NEW p, NEW d \in D, p = at(d) PROVE \E i \in DOMAIN t.base.ports : p = t.base.ports[i]
    BY <1>5, <2>1, <2>3
  <2>4. ASSUME NEW i \in DOMAIN t.base.ports PROVE \E d \in D : t.base.ports[i] = at(d)
    <3>1. <<<<"base">>, i>> \in D
      BY <1>5
    <3>2. at(<<<<"base">>, i>>) = t.base.ports[i]
      BY <2>1
    <3> QED
      BY <3>1, <3>2
  <2> QED
    BY <2>2, <2>3, <2>4
<1>9. \A p : p \in Range(t.base.ports) <=> \E i \in DOMAIN t.base.ports : p = t.base.ports[i]
  BY DEF Range
<1> QED
  BY <1>8, <1>9

LEMMA LoadedPorts ==
    ASSUME NEW t, PortsInBase(t), NEW c, NEW m, Instantiates(t, c, m)
    PROVE  Types(m.ports) = OpenTypes(t)
<1>1. Range(m.ports) = {p \in Range(t.base.ports) : p.enabled}
  BY ExpandedPorts DEF Instantiates
<1> QED
  BY <1>1 DEF Types, OpenTypes

LEMMA MergingSlot ==
    ASSUME NEW m, NEW id \in DOMAIN Merging(m).slots, NEW entry, entry = Merging(m).slots[id]
    PROVE  \E s \in Range(m.slots) :
              /\ s.name = id /\ entry.type = s.type /\ entry.owner = m.name
              /\ entry.public <=> s.type \in Types(m.ports)
<1> DEFINE s == CHOOSE x \in Range(m.slots) : x.name = id
           open == s.type \in Types(m.ports)
<1>1. id \in Range(Names(m.slots))
  BY DEF Merging
<1>2. entry = [type |-> s.type, cycle |-> s.cycle, values |-> s.values, owner |-> m.name, public |-> open]
  BY <1>1 DEF Merging
<1>3. \E x \in Range(m.slots) : x.name = id
  BY <1>1 DEF Range, Names
<1>4. s \in Range(m.slots) /\ s.name = id
  BY <1>3
<1> HIDE DEF s
<1>5. entry.public = open /\ entry.type = s.type /\ entry.owner = m.name
  BY <1>2
<1>6. entry.public <=> s.type \in Types(m.ports)
  BY <1>5
<1> QED
  BY <1>4, <1>5, <1>6

LEMMA LoadedSlot ==
    ASSUME NEW p, WellNamed(p), NEW c, NEW L, LoadedSoFar(p.modules, c, L), NEW k \in 1 .. Len(L), k \in DOMAIN p.modules,
           NEW id \in DOMAIN Merging(L[k]).slots, NEW entry, entry = Merging(L[k]).slots[id]
    PROVE  SlotOf(p, id, entry.type, entry.owner, entry.public)
<1> DEFINE t == p.modules[k]
<1>1. Instantiates(t, c, L[k])
  BY DEF LoadedSoFar
<1>2. PortsInBase(t)
  <2>1. t \in Range(p.modules)
    BY DEF Range
  <2> QED
    BY <2>1 DEF WellNamed, PortsInBase
<1>3. Types(L[k].ports) = OpenTypes(t)
  BY <1>1, <1>2, LoadedPorts
<1>4. PICK s \in Range(L[k].slots) :
          /\ s.name = id /\ entry.type = s.type /\ entry.owner = L[k].name
          /\ entry.public <=> s.type \in Types(L[k].ports)
  BY MergingSlot
<1>5. IsTemplate(t) /\ L[k].slots = Expand(t, c).slots /\ L[k].name = t.name
  BY <1>1 DEF Instantiates
<1>6. PICK q \in SlotTemplates(t) : s.name[1] = q.name.base /\ s.type = q.type
  BY <1>4, <1>5, ExpandedSlots
<1>7. /\ id[1] = q.name.base /\ entry.type = q.type /\ entry.owner = t.name
      /\ entry.public <=> q.type \in OpenTypes(t)
  BY <1>3, <1>4, <1>5, <1>6
<1> QED
  BY <1>7 DEF SlotOf

SlotsKnown(p, slots) == \A id \in DOMAIN slots : SlotOf(p, id, slots[id].type, slots[id].owner, slots[id].public)

EventKnown(p, e) ==
    \/ e.owner = {} /\ e.id \in Ids(p.events)
    \/ \E name : e.owner = {name} /\ SlotOf(p, e.id, e.type, name, e.public)

OriginInv == WellNamed(project) => SlotsKnown(project, model.slots) /\ \A e \in trace : EventKnown(project, e)

LEMMA OriginInit == Init => OriginInv
<1> SUFFICES ASSUME Init, WellNamed(project)
             PROVE  SlotsKnown(project, model.slots) /\ \A e \in trace : EventKnown(project, e)
  BY DEF OriginInv
<1>1. trace = project.events /\ model = EmptyModel
  BY DEF Init
<1>2. SlotsKnown(project, model.slots)
  BY <1>1 DEF EmptyModel, NoRules, SlotsKnown
<1>3. ASSUME NEW e \in trace PROVE EventKnown(project, e)
  BY <1>1 DEF EventKnown, Ids, WellNamed
<1> QED
  BY <1>2, <1>3

LEMMA MergedSlots ==
    ASSUME TraceInv, ComposeInv, WellNamed(project), SlotsKnown(project, model.slots), Merge, model' # model
    PROVE  SlotsKnown(project, model'.slots)
<1> DEFINE m == loaded[merged + 1]
           new == Merging(m).slots
<1>1. phase = "merge" /\ merged < Len(loaded)
  BY DEF Merge
<1>2. model'.slots = Updated(model.slots, new)
  <2>1. model' = [model EXCEPT !.slots = Updated(@, Merging(m).slots), !.states = Updated(@, Merging(m).states),
                               !.rules = Updated(@, Merging(m).rules),
                               !.constraints = @ \cup Range(loaded[merged + 1].constraints)]
    BY DEF Merge
  <2> HIDE DEF m
  <2> QED
    BY <2>1 DEF ComposeInv
<1>3. LoadedSoFar(project.modules, context, loaded) /\ merged + 1 \in 1 .. Len(loaded)
  BY <1>1, ListDomain DEF ComposeInv, Filled, Wired, LoadedSoFar
<1>4. merged + 1 \in DOMAIN project.modules
  BY <1>1, <1>3, ListDomain, ProjectAssumption DEF TraceInv, ComposeInv, Filled
<1>5. \A id \in DOMAIN new : SlotOf(project, id, new[id].type, new[id].owner, new[id].public)
  BY <1>3, <1>4, LoadedSlot
<1> HIDE DEF new
<1>6. ASSUME NEW id \in DOMAIN Updated(model.slots, new)
      PROVE  Updated(model.slots, new)[id] = IF id \in DOMAIN new THEN new[id] ELSE model.slots[id]
  BY DEF Updated
<1>7. DOMAIN Updated(model.slots, new) = DOMAIN model.slots \cup DOMAIN new
  BY DEF Updated
<1>8. ASSUME NEW id \in DOMAIN model'.slots
      PROVE  SlotOf(project, id, model'.slots[id].type, model'.slots[id].owner, model'.slots[id].public)
  <2>1. CASE id \in DOMAIN new
    BY <1>2, <1>5, <1>6, <2>1
  <2>2. CASE id \notin DOMAIN new
    BY <1>2, <1>6, <1>7, <2>2 DEF SlotsKnown
  <2> QED
    BY <2>1, <2>2
<1> QED
  BY <1>8 DEF SlotsKnown

LEMMA ComposingKeepsOrigin ==
    ASSUME TraceInv, ComposeInv, OriginInv, Composing PROVE OriginInv'
<1>1. project' = project /\ trace' = trace
  BY ComposingStep
<1>2. WellNamed(project) => SlotsKnown(project, model'.slots)
  <2> SUFFICES ASSUME WellNamed(project) PROVE SlotsKnown(project, model'.slots)
    OBVIOUS
  <2>1. SlotsKnown(project, model.slots)
    BY DEF OriginInv
  <2>2. CASE model'.slots = model.slots
    BY <2>1, <2>2
  <2>3. CASE Merge
    BY <2>1, <2>3, MergedSlots
  <2>4. CASE MapConnection
    BY <2>1, <2>4 DEF MapConnection, ComposeInv
  <2>5. CASE Compose
    BY <2>1, <2>5 DEF Compose, ComposeInv
  <2>6. CASE Open \/ RolesResolved \/ Loaded \/ RequirePorts \/ AllMerged
    BY <2>2, <2>6 DEF Open, RolesResolved, Loaded, RequirePorts, AllMerged, composing
  <2>7. CASE ResolveRole \/ LoadModule \/ Connect
    BY <2>2, <2>7 DEF ResolveRole, LoadModule, Connect
  <2> QED
    BY <2>3, <2>4, <2>5, <2>6, <2>7 DEF Composing, ComposeNext
<1> QED
  BY <1>1, <1>2 DEF OriginInv

LEMMA CompletedOrigin ==
    ASSUME OriginInv, WellNamed(project), NEW S \in SUBSET DOMAIN model.slots,
           NEW O \in SUBSET {e \in trace : ~ e.occurs}, \A e \in trace : DOMAIN e = EventFields
    PROVE  \A e \in Materialized(S, O).events : EventKnown(project, e)
<1> SUFFICES ASSUME NEW e \in Materialized(S, O).events PROVE EventKnown(project, e)
  OBVIOUS
<1>1. \A d \in trace : EventKnown(project, d)
  BY DEF OriginInv
<1>2. CASE e \in trace
  BY <1>1, <1>2
<1>3. ASSUME NEW d \in O, e = [d EXCEPT !.occurs = TRUE] PROVE EventKnown(project, e)
  <2>1. e.owner = d.owner /\ e.id = d.id /\ e.type = d.type /\ e.public = d.public
    BY <1>3 DEF EventFields
  <2>2. EventKnown(project, d)
    BY <1>1
  <2> QED
    BY <2>1, <2>2 DEF EventKnown
<1>4. ASSUME NEW id \in S, e = SlotEvent(id) PROVE EventKnown(project, e)
  <2>1. e.id = id /\ e.type = model.slots[id].type /\ e.owner = {model.slots[id].owner} /\ e.public = model.slots[id].public
    BY <1>4 DEF SlotEvent
  <2>2. SlotOf(project, id, model.slots[id].type, model.slots[id].owner, model.slots[id].public)
    BY DEF OriginInv, SlotsKnown
  <2> QED
    BY <2>1, <2>2 DEF EventKnown
<1>5. e \in {d \in trace : d.occurs} \/ (\E d \in O : e = [d EXCEPT !.occurs = TRUE]) \/ \E id \in S : e = SlotEvent(id)
  BY DEF Materialized
<1> QED
  BY <1>2, <1>3, <1>4, <1>5

\* What a strict composition says of slots, it says of the events completed from them.
StrictInv ==
    project.strict =>
        /\ phase \in {"composed", "projected"} => Encapsulated(project.constraints)
        /\ WellNamed(project) =>
            \A c \in project.constraints : \A e \in trace : e.id \in c /\ e.owner # {} => e.public

\* What was projected, is what was seen.
SeenInv == phase = "projected" => projected.events = {e \in trace : Visible(e)}

LEMMA VisibleStays ==
    ASSUME loaded' = loaded, model' = model, NEW e
    PROVE  Visible(e)' <=> Visible(e)
BY DEF Visible, Visibility, Annotated, PrivateTo, PrivateTypes, PublicTypes

LEMMA ProjectionInit == Init => OriginInv /\ StrictInv /\ SeenInv
<1> SUFFICES ASSUME Init PROVE StrictInv /\ SeenInv
  BY OriginInit
<1>1. phase = "open" /\ trace = project.events
  BY DEF Init
<1> QED
  BY <1>1 DEF StrictInv, SeenInv, WellNamed

LEMMA OriginStep ==
    ASSUME TraceInv, ComposeInv, OriginInv, [Next]_vars PROVE OriginInv'
<1>1. ASSUME project' = project, trace' = trace, model' = model PROVE OriginInv'
  BY <1>1 DEF OriginInv
<1>2. CASE Composing
  BY <1>2, ComposingKeepsOrigin
<1>3. CASE Complete
  <2>1. project' = project /\ model' = model
    BY <1>3 DEF Complete, composing
  <2>2. CASE trace' = trace
    BY <1>1, <2>1, <2>2
  <2>3. CASE trace' # trace
    <3>1. \E S \in SUBSET DOMAIN model.slots : \E O \in SUBSET {e \in trace : ~ e.occurs} :
              trace' = Materialized(S, O).events
      BY <1>3, <2>3 DEF Complete
    <3>2. \A e \in trace : DOMAIN e = EventFields
      BY DEF TraceInv
    <3>3. WellNamed(project) => \A e \in trace' : EventKnown(project, e)
      BY <3>1, <3>2, CompletedOrigin
    <3> QED
      BY <2>1, <3>3 DEF OriginInv
  <2> QED
    BY <2>2, <2>3
<1>4. CASE Recompose
  <2>1. project' = project /\ trace' = trace /\ model' = EmptyModel
    BY <1>4 DEF Recompose
  <2>2. SlotsKnown(project, EmptyModel.slots)
    BY DEF SlotsKnown, EmptyModel, NoRules
  <2> QED
    BY <2>1, <2>2 DEF OriginInv
<1>5. CASE ProjectInterface
  BY <1>1, <1>5 DEF ProjectInterface, composing
<1>6. CASE Abstract
  BY <1>1, <1>6 DEF Abstract, composing
<1>7. CASE CheckRefinement
  BY <1>1, <1>7 DEF CheckRefinement, composing
<1>8. CASE UNCHANGED vars
  BY <1>1, <1>8 DEF vars, composing
<1> QED
  BY <1>2, <1>3, <1>4, <1>5, <1>6, <1>7, <1>8 DEF Next

LEMMA StrictStep ==
    ASSUME TraceInv, ComposeInv, StrictInv, [Next]_vars PROVE StrictInv'
<1> DEFINE Events == WellNamed(project) =>
               \A c \in project.constraints : \A e \in trace : e.id \in c /\ e.owner # {} => e.public
<1>0. project.strict => Events
  BY DEF StrictInv
<1>1. ASSUME project' = project, trace' = trace, phase' \notin {"composed", "projected"} PROVE StrictInv'
  BY <1>0, <1>1 DEF StrictInv
<1>2. ASSUME UNCHANGED <<project, trace, model>>, phase' = phase \/ phase = "composed" PROVE StrictInv'
  <2>1. Encapsulated(project.constraints)' <=> Encapsulated(project.constraints)
    BY <1>2 DEF Encapsulated
  <2> QED
    BY <1>2, <2>1 DEF StrictInv
<1>3. CASE Composing
  <2>1. project' = project /\ trace' = trace /\ phase' # "projected"
    BY <1>3, ComposingStep DEF ComposePhases
  <2>2. CASE phase' # "composed"
    BY <1>1, <2>1, <2>2
  <2>3. CASE phase' = "composed"
    <3>1. Compose
      <4>1. ~ (Open \/ RolesResolved \/ Loaded \/ RequirePorts \/ AllMerged)
        BY <2>3 DEF Open, RolesResolved, Loaded, RequirePorts, AllMerged
      <4>2. ~ (ResolveRole \/ LoadModule \/ Connect)
        BY <2>3 DEF ResolveRole, LoadModule, Connect
      <4>3. ~ (Merge \/ MapConnection)
        BY <2>3 DEF Merge, MapConnection
      <4> QED
        BY <1>3, <4>1, <4>2, <4>3 DEF Composing, ComposeNext
    <3>2. project.strict => Encapsulated(project.constraints)
      BY <2>3, <3>1 DEF Compose
    <3>3. model'.slots = model.slots
      BY <2>3, <3>1 DEF Compose, ComposeInv
    <3>4. Encapsulated(project.constraints)' <=> Encapsulated(project.constraints)
      BY <2>1, <3>3 DEF Encapsulated
    <3> QED
      BY <1>0, <2>1, <2>3, <3>2, <3>4 DEF StrictInv
  <2> QED
    BY <2>2, <2>3
<1>4. CASE Complete
  <2>1. phase = "composed" /\ project' = project /\ phase' \in {"raised", "completed"}
    BY <1>4 DEF Complete
  <2>2. CASE trace' = trace
    BY <1>1, <2>1, <2>2
  <2>3. CASE trace' # trace
    <3>1. \E S \in SUBSET DOMAIN model.slots : \E O \in SUBSET {e \in trace : ~ e.occurs} :
              trace' = Materialized(S, O).events
      BY <1>4, <2>3 DEF Complete
    <3>2. PICK S \in SUBSET DOMAIN model.slots : \E O \in SUBSET {e \in trace : ~ e.occurs} :
              trace' = Materialized(S, O).events
      BY <3>1
    <3>3. PICK O \in SUBSET {e \in trace : ~ e.occurs} : trace' = Materialized(S, O).events
      BY <3>2
    <3>4. ASSUME project.strict, WellNamed(project), NEW c \in project.constraints, NEW e \in trace',
                 e.id \in c, e.owner # {}
          PROVE  e.public
      <4>1. CASE e \in trace
        BY <1>0, <3>4, <4>1
      <4>2. ASSUME NEW d \in O, e = [d EXCEPT !.occurs = TRUE] PROVE e.public
        <5>1. DOMAIN d = EventFields
          BY DEF TraceInv
        <5>2. e.owner = d.owner /\ e.id = d.id /\ e.public = d.public
          BY <4>2, <5>1 DEF EventFields
        <5>3. d.public
          BY <1>0, <3>4, <5>2
        <5> QED
          BY <5>2, <5>3
      <4>3. ASSUME NEW id \in S, e = SlotEvent(id) PROVE e.public
        <5>1. e.id = id /\ e.public = model.slots[id].public
          BY <4>3 DEF SlotEvent
        <5>2. Encapsulated(project.constraints)
          BY <2>1, <3>4 DEF StrictInv
        <5> QED
          BY <3>4, <5>1, <5>2 DEF Encapsulated
      <4>4. e \in {d \in trace : d.occurs} \/ (\E d \in O : e = [d EXCEPT !.occurs = TRUE])
                \/ \E id \in S : e = SlotEvent(id)
        BY <3>3 DEF Materialized
      <4> QED
        BY <4>1, <4>2, <4>3, <4>4
    <3> QED
      BY <2>1, <3>4 DEF StrictInv
  <2> QED
    BY <2>2, <2>3
<1>5. CASE Recompose
  BY <1>1, <1>5 DEF Recompose
<1>6. CASE ProjectInterface
  BY <1>2, <1>6 DEF ProjectInterface, composing
<1>7. CASE Abstract
  BY <1>1, <1>7 DEF Abstract
<1>8. CASE CheckRefinement
  BY <1>1, <1>8 DEF CheckRefinement
<1>9. CASE UNCHANGED vars
  BY <1>2, <1>9 DEF vars, composing
<1> QED
  BY <1>3, <1>4, <1>5, <1>6, <1>7, <1>8, <1>9 DEF Next

LEMMA SeenStep ==
    ASSUME SeenInv, [Next]_vars PROVE SeenInv'
<1>1. ASSUME phase' # "projected" PROVE SeenInv'
  BY <1>1 DEF SeenInv
<1>2. CASE Composing
  BY <1>1, <1>2, ComposingStep DEF ComposePhases
<1>3. CASE ProjectInterface
  <2>1. loaded' = loaded /\ model' = model /\ trace' = trace
    BY <1>3 DEF ProjectInterface, composing
  <2>2. projected'.events = {e \in trace : Visible(e)}
    BY <1>3 DEF ProjectInterface, ProjectTrace
  <2>3. \A e : Visible(e)' <=> Visible(e)
    BY <2>1, VisibleStays
  <2> QED
    BY <2>1, <2>2, <2>3 DEF SeenInv
<1>4. CASE UNCHANGED vars
  <2>1. loaded' = loaded /\ model' = model /\ trace' = trace /\ projected' = projected /\ phase' = phase
    BY <1>4 DEF vars, composing
  <2>2. \A e : Visible(e)' <=> Visible(e)
    BY <2>1, VisibleStays
  <2> QED
    BY <2>1, <2>2 DEF SeenInv
<1>5. CASE Complete \/ Recompose \/ Abstract \/ CheckRefinement
  BY <1>1, <1>5 DEF Complete, Recompose, Abstract, CheckRefinement
<1> QED
  BY <1>2, <1>3, <1>4, <1>5 DEF Next

LEMMA OpenInModule ==
    ASSUME NEW p, WellNamed(p), IsList(p.modules), IsInjective(Names(p.modules)), NEW c, NEW L,
           LoadedSoFar(p.modules, c, L), Len(L) = Len(p.modules), NEW k \in DOMAIN p.modules, NEW type
    PROVE  type \in OpenTypes(p.modules[k])
               <=> \E m \in ToSet(L) : type \in Types(m.ports) /\ m.name = p.modules[k].name
<1>1. DOMAIN L = 1 .. Len(L) /\ DOMAIN p.modules = 1 .. Len(L)
  BY ListDomain DEF LoadedSoFar
<1>2. ASSUME NEW j \in DOMAIN L
      PROVE  Types(L[j].ports) = OpenTypes(p.modules[j]) /\ L[j].name = p.modules[j].name
  <2>1. j \in 1 .. Len(L) /\ p.modules[j] \in Range(p.modules)
    BY <1>1 DEF Range
  <2>2. Instantiates(p.modules[j], c, L[j])
    BY <2>1 DEF LoadedSoFar
  <2>3. PortsInBase(p.modules[j])
    BY <2>1 DEF WellNamed, PortsInBase
  <2> QED
    BY <2>2, <2>3, LoadedPorts DEF Instantiates
<1>3. ASSUME NEW j \in DOMAIN L, p.modules[j].name = p.modules[k].name PROVE j = k
  <2>1. \A i \in DOMAIN p.modules : Names(p.modules)[i] = p.modules[i].name
    BY DEF Names
  <2>2. DOMAIN Names(p.modules) = DOMAIN p.modules
    BY DEF Names
  <2> QED
    BY <1>1, <1>3, <2>1, <2>2 DEF IsInjective
<1>4. ASSUME type \in OpenTypes(p.modules[k])
      PROVE  \E m \in ToSet(L) : type \in Types(m.ports) /\ m.name = p.modules[k].name
  <2>1. k \in DOMAIN L /\ L[k] \in ToSet(L)
    BY <1>1 DEF ToSet
  <2> QED
    BY <1>2, <1>4, <2>1
<1>5. ASSUME NEW m \in ToSet(L), type \in Types(m.ports), m.name = p.modules[k].name
      PROVE  type \in OpenTypes(p.modules[k])
  <2>1. PICK j \in DOMAIN L : m = L[j]
    BY DEF ToSet
  <2> QED
    BY <1>2, <1>3, <1>5, <2>1
<1> QED
  BY <1>4, <1>5

\* Slots with the same name belong to the same module and are of the same type.
LEMMA SameSlot ==
    ASSUME NEW p, WellNamed(p), NEW id, NEW type1, NEW owner1, NEW public1, NEW type2, NEW owner2, NEW public2,
           SlotOf(p, id, type1, owner1, public1), SlotOf(p, id, type2, owner2, public2)
    PROVE  type1 = type2 /\ owner1 = owner2 /\ (public1 <=> public2)
<1>1. PICK i \in DOMAIN p.modules : \E s \in SlotTemplates(p.modules[i]) :
          /\ id[1] = s.name.base /\ type1 = s.type /\ owner1 = p.modules[i].name
          /\ public1 <=> s.type \in OpenTypes(p.modules[i])
  BY DEF SlotOf
<1>2. PICK s \in SlotTemplates(p.modules[i]) :
          /\ id[1] = s.name.base /\ type1 = s.type /\ owner1 = p.modules[i].name
          /\ public1 <=> s.type \in OpenTypes(p.modules[i])
  BY <1>1
<1>3. PICK j \in DOMAIN p.modules : \E q \in SlotTemplates(p.modules[j]) :
          /\ id[1] = q.name.base /\ type2 = q.type /\ owner2 = p.modules[j].name
          /\ public2 <=> q.type \in OpenTypes(p.modules[j])
  BY DEF SlotOf
<1>4. PICK q \in SlotTemplates(p.modules[j]) :
          /\ id[1] = q.name.base /\ type2 = q.type /\ owner2 = p.modules[j].name
          /\ public2 <=> q.type \in OpenTypes(p.modules[j])
  BY <1>3
<1>5. i = j /\ q.type = s.type
  <2>1. \A a \in SlotTemplates(p.modules[i]) : \A b \in SlotTemplates(p.modules[j]) :
            b.name.base = a.name.base => i = j /\ b.type = a.type
    BY DEF WellNamed
  <2>2. q.name.base = s.name.base
    BY <1>2, <1>4
  <2> QED
    BY <2>1, <2>2
<1> QED
  BY <1>2, <1>4, <1>5

\* An observation is not named like a slot.
LEMMA NoObservation ==
    ASSUME NEW p, WellNamed(p), NEW id \in Ids(p.events), NEW type, NEW owner, NEW public
    PROVE  ~ SlotOf(p, id, type, owner, public)
BY DEF Ids, WellNamed, SlotOf

LEMMA AnnotatedVisible ==
    ASSUME NEW e, NEW owner, NEW public, owner # {}, Annotated(e) = [owner |-> owner, public |-> public]
    PROVE  Visible(e) <=> public
<1>1. Annotated(e).owner # {}
  OBVIOUS
<1>2. Visibility(e) = Annotated(e)
  BY <1>1 DEF Visibility
<1>3. Visibility(e).owner # {} /\ Visibility(e).public = public
  BY <1>1, <1>2
<1> QED
  BY <1>3 DEF Visible

LEMMA OwnedVisible ==
    ASSUME WellNamed(project), SlotsKnown(project, model.slots), NEW e, NEW name, e.owner = {name},
           SlotOf(project, e.id, e.type, name, e.public)
    PROVE  /\ Visible(e) <=> e.public
           /\ e.id \in DOMAIN model.slots => (model.slots[e.id].public <=> e.public)
<1>1. CASE e.id \in DOMAIN model.slots
  <2> DEFINE s == model.slots[e.id]
  <2>1. SlotOf(project, e.id, s.type, s.owner, s.public)
    BY <1>1 DEF SlotsKnown
  <2>2. s.public <=> e.public
    BY <2>1, SameSlot
  <2>3. Annotated(e) = [owner |-> {s.owner}, public |-> s.public]
    BY <1>1 DEF Annotated
  <2>4. Visible(e) <=> s.public
    <3> DEFINE owner == {s.owner}
               public == s.public
    <3>1. owner # {} /\ Annotated(e) = [owner |-> owner, public |-> public]
      BY <2>3
    <3> HIDE DEF owner, public
    <3>2. Visible(e) <=> public
      BY <3>1, AnnotatedVisible
    <3> QED
      BY <3>2 DEF public
  <2> QED
    BY <2>2, <2>4
<1>2. CASE e.id \notin DOMAIN model.slots
  <2>1. Annotated(e) = [owner |-> e.owner, public |-> e.public]
    BY <1>2 DEF Annotated
  <2> QED
    BY <1>2, <2>1, AnnotatedVisible
<1> QED
  BY <1>1, <1>2

LEMMA ObservationVisible ==
    ASSUME NEW e, e.owner = {}, e.id \notin DOMAIN model.slots
    PROVE  Visible(e) <=> PrivateTo(e.type) = {}
<1>1. Annotated(e) = [owner |-> e.owner, public |-> e.public]
  BY DEF Annotated
<1>2. CASE PrivateTo(e.type) = {}
  BY <1>1, <1>2 DEF Visible, Visibility
<1>3. CASE PrivateTo(e.type) # {}
  BY <1>1, <1>3 DEF Visible, Visibility
<1> QED
  BY <1>2, <1>3

LEMMA OwnersTell ==
    ASSUME TraceInv, ComposeInv, OriginInv, StrictInv, SeenInv, WellNamed(project)
    PROVE  ProjectionFollowsOwner
<1> SUFFICES ASSUME phase = "projected"
             PROVE  /\ \A e \in trace :
                        e \in projected.events <=>
                            IF e.owner = {} /\ e.id \notin DOMAIN model.slots THEN PrivateTo(e.type) = {}
                            ELSE \E m \in ToSet(loaded) :
                                    /\ e.type \in Types(m.ports)
                                    /\ m.name \in e.owner \/ (e.owner = {} /\ m.name = model.slots[e.id].owner)
                    /\ project.strict => \A c \in project.constraints : \A e \in trace :
                        e.id \in c /\ e.owner # {} => e \in projected.events
  BY DEF ProjectionFollowsOwner
<1>1. /\ IsList(project.modules) /\ IsInjective(Names(project.modules))
      /\ LoadedSoFar(project.modules, context, loaded) /\ Len(loaded) = Len(project.modules)
  <2>1. IsList(project.modules)
    BY ProjectAssumption DEF TraceInv
  <2>2. ValidComposition /\ LoadedSoFar(project.modules, context, loaded) /\ Len(loaded) = Len(project.modules)
    BY DEF ComposeInv, Valid, Filled
  <2> QED
    BY <2>1, <2>2 DEF ValidComposition
<1>2. SlotsKnown(project, model.slots) /\ \A e \in trace : EventKnown(project, e)
  BY DEF OriginInv
<1>3. \A e \in trace : e \in projected.events <=> Visible(e)
  BY DEF SeenInv
<1>4. ASSUME NEW e \in trace, e.owner = {}
      PROVE  e.id \notin DOMAIN model.slots
  <2>1. e.id \in Ids(project.events)
    BY <1>2, <1>4 DEF EventKnown
  <2> QED
    BY <1>2, <2>1, NoObservation DEF SlotsKnown
<1>5. ASSUME NEW e \in trace, e.owner # {}
      PROVE  \E name : e.owner = {name} /\ SlotOf(project, e.id, e.type, name, e.public)
  BY <1>2, <1>5 DEF EventKnown
<1>6. ASSUME NEW e \in trace
      PROVE  e \in projected.events <=>
                IF e.owner = {} /\ e.id \notin DOMAIN model.slots THEN PrivateTo(e.type) = {}
                ELSE \E m \in ToSet(loaded) :
                        /\ e.type \in Types(m.ports)
                        /\ m.name \in e.owner \/ (e.owner = {} /\ m.name = model.slots[e.id].owner)
  <2>1. CASE e.owner = {}
    BY <1>3, <1>4, <2>1, ObservationVisible
  <2>2. CASE e.owner # {}
    <3>1. PICK name : e.owner = {name} /\ SlotOf(project, e.id, e.type, name, e.public)
      BY <1>5, <2>2
    <3>2. Visible(e) <=> e.public
      BY <1>2, <3>1, OwnedVisible
    <3>3. PICK k \in DOMAIN project.modules : \E s \in SlotTemplates(project.modules[k]) :
              /\ e.id[1] = s.name.base /\ e.type = s.type /\ name = project.modules[k].name
              /\ e.public <=> s.type \in OpenTypes(project.modules[k])
      BY <3>1 DEF SlotOf
    <3>4. name = project.modules[k].name /\ (e.public <=> e.type \in OpenTypes(project.modules[k]))
      BY <3>3
    <3>5. e.public <=> \E m \in ToSet(loaded) : e.type \in Types(m.ports) /\ m.name = name
      BY <1>1, <3>4, OpenInModule
    <3>6. e.public <=> \E m \in ToSet(loaded) :
              /\ e.type \in Types(m.ports)
              /\ m.name \in e.owner \/ (e.owner = {} /\ m.name = model.slots[e.id].owner)
      BY <3>1, <3>5
    <3> QED
      BY <1>3, <2>2, <3>2, <3>6
  <2> QED
    BY <2>1, <2>2
<1>7. ASSUME project.strict, NEW c \in project.constraints, NEW e \in trace, e.id \in c, e.owner # {}
      PROVE  e \in projected.events
  <2>1. e.public
    BY <1>7 DEF StrictInv
  <2>2. PICK name : e.owner = {name} /\ SlotOf(project, e.id, e.type, name, e.public)
    BY <1>5, <1>7
  <2>3. Visible(e)
    BY <1>2, <2>1, <2>2, OwnedVisible
  <2> QED
    BY <1>3, <2>3
<1> QED
  BY <1>6, <1>7

\* Of a project whose names tell, the projection follows the owners: an event that was
\* completed from a slot is kept exactly if its module has a port of its type, whatever the
\* composition of the completed trace instantiates, an observation exactly if its type is
\* private to no module, and what a strict composition says of completed events it says of
\* kept ones (project_interface_trace and compose_modules, called one after the other).
THEOREM ProjectionKeepsPorts == Spec => [](WellNamed(project) => ProjectionFollowsOwner)
<1> DEFINE Inv == TraceInv /\ ComposeInv /\ OriginInv /\ StrictInv /\ SeenInv
<1>1. Init => Inv
  BY CompositionInit, ProjectionInit
<1>2. Inv /\ [Next]_vars => Inv'
  BY CompositionStep, OriginStep, StrictStep, SeenStep
<1>3. Inv => (WellNamed(project) => ProjectionFollowsOwner)
  BY OwnersTell
<1> QED
  BY <1>1, <1>2, <1>3, PTL DEF Spec
=============================================================================
