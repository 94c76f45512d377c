------------------------------ MODULE Hierarchy ------------------------------
(***************************************************************************)
(* The way of a trace through the hierarchy: a composition is instantiated *)
(* on a partial trace, the trace is completed, the composition is made     *)
(* again on the completed trace to project it (umcm project-interface),    *)
(* and a trace is abstracted and its abstraction checked.                  *)
(***************************************************************************)
EXTENDS Composition, TraceAbstraction

CONSTANTS Project       \* compositions, each with a trace and an abstraction

VARIABLES completed,    \* whether the trace is the completed one
          projected,    \* the interface trace
          source,       \* the trace that is abstracted
          actual,       \* an abstraction that is given to be checked
          verdict

EventFields == {"id", "type", "cycle", "occurs", "values", "owner", "public"}

\* What the files are read into: lists, and traces that name their events apart.
ASSUME ProjectAssumption ==
    \A p \in Project :
        /\ IsFiniteSet(p.events)
        /\ \A e \in p.events : DOMAIN e = EventFields
        /\ \A d, e \in p.events : d.id = e.id => d = e
        /\ IsList(p.modules) /\ IsList(p.connections) /\ IsList(p.roles)
        /\ \A x \in DOMAIN p.lists : IsList(p.lists[x])
        /\ \A role \in Range(p.roles) : role.copies \in Int
        /\ \A t \in Range(p.modules) : IsTemplate(t)

vars == <<project, trace, phase, composing, completed, projected, source, actual, verdict>>

later == <<completed, projected, source, actual, verdict>>

None == [events |-> {}, constraints |-> {}]

Init ==
    /\ project \in Project
    /\ trace = project.events
    /\ phase = "open"
    /\ context = Start
    /\ roles = 0 /\ loaded = << >> /\ wired = 0
    /\ merged = 0 /\ mapped = 0 /\ model = EmptyModel
    /\ completed = FALSE
    /\ projected = None
    /\ source = None
    /\ actual = None
    /\ verdict = "none"

Composing == ComposeNext /\ UNCHANGED later

-----------------------------------------------------------------------------
(* Hiding what is private to a module, project_interface_trace in          *)
(* src/src/umcm/hierarchy/interface.py.  The owner of an event is a set of *)
(* modules: none for an observation of the outside, several if the type is *)
(* private to several.                                                     *)

PublicTypes == UNION {Types(m.ports) : m \in ToSet(loaded)}

PrivateTypes(m) == m.internal \cup (Types(m.slots) \ Types(m.ports))

PrivateTo(type) == {m.name : m \in {n \in ToSet(loaded) : type \in PrivateTypes(n) \ PublicTypes}}

\* Mutant: the annotations of the events are forgotten.
SlotsOnly(e) ==
    IF e.id \in DOMAIN model.slots
    THEN [owner |-> {model.slots[e.id].owner}, public |-> model.slots[e.id].public]
    ELSE [owner |-> {}, public |-> FALSE]

\* The slots of this composition come first, then what the event says of itself.
Annotated(e) ==
    IF e.id \in DOMAIN model.slots
    THEN [owner |-> {model.slots[e.id].owner}, public |-> model.slots[e.id].public]
    ELSE [owner |-> e.owner, public |-> e.public]

\* Observations of private types are hidden as well.
Visibility(e) ==
    LET v == Annotated(e)
    IN  IF v.owner = {} /\ PrivateTo(e.type) # {}
        THEN [owner |-> PrivateTo(e.type), public |-> FALSE] ELSE v

Visible(e) == Visibility(e).owner = {} \/ Visibility(e).public

Ids(events) == {e.id : e \in events}

\* A constraint stays if all the events it refers to do.
Preserved(constraints, events) == {c \in constraints : c \subseteq Ids(events)}

ProjectTrace(events, constraints) ==
    LET kept == {e \in events : Visible(e)}
    IN  [events |-> kept, constraints |-> Preserved(constraints, kept)]

-----------------------------------------------------------------------------
(* The commands. *)

\* The solver: any slots may be selected, and any event whose occurrence is open.
SlotEvent(id) ==
    LET s == model.slots[id]
    IN  [id |-> id, type |-> s.type, cycle |-> s.cycle, occurs |-> TRUE, values |-> s.values,
         owner |-> {s.owner}, public |-> s.public]

\* Constraints of a trace refer to its own events.
ValidTrace(t) == \A c \in t.constraints : c \subseteq Ids(t.events)

Completable ==
    /\ ValidTrace([events |-> trace, constraints |-> project.claims])
    /\ Ids(trace) \cap DOMAIN model.slots = {}
    /\ \A c \in model.constraints : c \subseteq Ids(trace) \cup DOMAIN model.slots

\* Events that do not occur are left out; the constraints stay.
Materialized(slots, optional) ==
    [events |-> {e \in trace : e.occurs} \cup {[e EXCEPT !.occurs = TRUE] : e \in optional}
                    \cup {SlotEvent(id) : id \in slots},
     constraints |-> project.claims]

Complete ==
    /\ phase = "composed"
    /\ ~ completed
    /\ \/ /\ ~ Completable
          /\ phase' = "raised"
          /\ UNCHANGED <<trace, completed>>
       \/ /\ Completable
          /\ \E S \in SUBSET DOMAIN model.slots : \E O \in SUBSET {e \in trace : ~ e.occurs} :
                IF ValidTrace(Materialized(S, O))
                THEN /\ trace' = Materialized(S, O).events
                     /\ completed' = TRUE
                     /\ phase' = "completed"
                ELSE phase' = "raised" /\ UNCHANGED <<trace, completed>>
    /\ UNCHANGED <<project, composing, projected, source, actual, verdict>>

Recompose ==
    /\ phase = "completed"
    /\ phase' = "open"
    /\ context' = Start
    /\ roles' = 0 /\ loaded' = << >> /\ wired' = 0
    /\ merged' = 0 /\ mapped' = 0 /\ model' = EmptyModel
    /\ UNCHANGED <<project, trace, later>>

CompletedTrace == [events |-> trace, constraints |-> project.claims]

ProjectInterface ==
    /\ phase = "composed"
    /\ completed
    /\ projected' = ProjectTrace(trace, CompletedTrace.constraints)
    /\ phase' = "projected"
    /\ UNCHANGED <<project, trace, composing, completed, source, actual, verdict>>

Abstract ==
    /\ phase = "projected"
    /\ source' \in {projected, CompletedTrace}
    /\ LET spec == project.abstraction
           result == IF ValidAbstraction(spec) THEN AbstractTrace(spec, source') ELSE NoTrace
       IN  IF result = NoTrace THEN phase' = "refused" /\ UNCHANGED actual
           ELSE phase' = "abstracted" /\ actual' = result
    /\ UNCHANGED <<project, trace, composing, completed, projected, verdict>>

\* A trace that was edited, or that was made from another one.
Edited(t) ==
    {[t EXCEPT !.events = @ \ {e}] : e \in t.events}
        \cup {[t EXCEPT !.events = (@ \ {e}) \cup {[e EXCEPT !.cycle = @ + 1]}] : e \in t.events}
        \cup {[t EXCEPT !.constraints = @ \ {c}] : c \in t.constraints}
        \cup {[t EXCEPT !.certificate.hidden = {}]}

Others == {AbstractTrace(project.abstraction, s) : s \in {projected, CompletedTrace}} \ {NoTrace}

CheckRefinement ==
    /\ phase = "abstracted"
    /\ actual' \in {actual} \cup Edited(actual) \cup Others
    /\ verdict' = Verdict(project.abstraction, source, actual')
    /\ phase' = "checked"
    /\ UNCHANGED <<project, trace, composing, completed, projected, source>>

Next == Composing \/ Complete \/ Recompose \/ ProjectInterface \/ Abstract \/ CheckRefinement

Spec == Init /\ [][Next]_vars

-----------------------------------------------------------------------------
(* Composition. *)

\* What the templates declare, once for every instance.
AllDeclarations(section) ==
    UNION {{<<k, d>> : d \in Declarations(project.modules[k], context, section)} : k \in DOMAIN project.modules}

Mappings == {c \in ToSet(project.connections) : ~ c.shared}

\* In a composed model no instance of a template shares a slot, a cell or a rule with another
\* one, nothing is lost in merging, a rule touches only cells of its own module, and no input
\* port has two drivers: indexes that wrap, equal items and equal names in two modules are
\* all refused, never merged.
NothingIsShared ==
    phase = "composed" =>
        /\ Cardinality(DOMAIN model.slots) = Cardinality(AllDeclarations("slots"))
        /\ Cardinality(DOMAIN model.states) = Cardinality(AllDeclarations("states"))
        /\ Cardinality(DOMAIN model.rules) = Cardinality(AllDeclarations("rules")) + Cardinality(Mappings)
        /\ \A n \in DOMAIN model.rules : \A s \in model.rules[n].states :
            s \in DOMAIN model.states /\ model.states[s] = model.rules[n].owner
        /\ \A c, d \in ToSet(project.connections) : c.target = d.target => c = d

\* Templates that use the position of every item they combine.
UsesPositions(p) ==
    \A r \in ToSet(p.include.rules) : \A i \in DOMAIN p.axes :
        <<p.axes[i].as, "repeat_index">> \in ToSet(r.name.args)

\* Equal items stay apart: rules for pairs of items that are named by the positions of these
\* never collide, also if two items of a list given as a parameter are equal.
EqualItemsStayApart ==
    \A t \in ToSet(project.modules) : phase = "load" /\ Expands(t, context) =>
        \A p \in ToSet(t.products) :
            p.include.rules # << >> /\ UsesPositions(p) /\ IsInjective(Names(p.include.rules)) =>
                IsInjective([f \in Positions(p, context) |->
                                Names(Render(p.include, Combined(p, context, f)).rules)])

-----------------------------------------------------------------------------
(* Projection. *)

\* The composition of the completed trace may instantiate other slots than the first one.
\* An event that was completed from a slot is kept by the projection all the same exactly if
\* its module has a port of its type; an observation, if its type is private to no module.
\* Whatever a strict composition says of completed events it says of those that are kept.
ProjectionFollowsOwner ==
    phase = "projected" =>
        /\ \A e \in trace :
            e \in projected.events <=>
                IF e.owner = {} /\ e.id \notin DOMAIN model.slots THEN PrivateTo(e.type) = {}
                ELSE \E m \in ToSet(loaded) :
                        /\ e.type \in Types(m.ports)
                        /\ m.name \in e.owner \/ (e.owner = {} /\ m.name = model.slots[e.id].owner)
        /\ project.strict => \A c \in project.constraints : \A e \in trace :
            e.id \in c /\ e.owner # {} => e \in projected.events

-----------------------------------------------------------------------------
(* Abstraction. *)

\* No summary is named like an event that is hidden.
NewNames == {v.output.id : v \in actual.certificate.summaries} \cap actual.certificate.hidden = {}

\* A constraint that survives the abstraction speaks of the same events as before.
ConstraintsKeepMeaning ==
    phase = "abstracted" /\ NewNames =>
        \A c \in actual.constraints : \A id \in c :
            {e \in actual.events : e.id = id} = {e \in source.events : e.id = id}

\* What the trace a was abstracted from: every event is an event of s that is not due to be
\* hidden, or the summary of a match in s, and no summary is missing.
Justified(spec, s, a) ==
    LET concrete == {e \in s.events : e.occurs}
        summaries == UNION {{Summary(r, m) : m \in Matches(r, concrete)} : r \in ToSet(spec.rules)}
    IN  /\ summaries \subseteq a.events
        /\ \A e \in a.events \ summaries :
            e \in concrete /\ (e.id \in SourcesToHide(spec, concrete) => Explicit(spec, e))
        /\ a.certificate.source = s

\* Only justified traces pass the check.
OnlyJustifiedPasses == verdict = "valid" => Justified(project.abstraction, source, actual)
=============================================================================
