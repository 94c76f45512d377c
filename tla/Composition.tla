----------------------------- MODULE Composition -----------------------------
(***************************************************************************)
(* Composition of modules into one completion model, compose_modules in    *)
(* src/src/umcm/composition/engine.py: roles are resolved on the trace,    *)
(* modules loaded and validated one by one, connections checked in their   *)
(* order, then modules merged and connection rules generated.              *)
(*                                                                         *)
(* Expressions are left out; of a rule there remain its event types and    *)
(* the cells it touches, of a constraint the events it refers to.          *)
(***************************************************************************)
EXTENDS RoleExpansion

CONSTANTS Catalog       \* the sorts of the fields of every event type

VARIABLES project,      \* the composition, and the trace and abstraction it is used with
          trace,        \* the trace it is instantiated with
          phase,        \* "open", "roles", "load", "wire", "merge", "map", "compose", "composed", "raised"
          context, roles,       \* what the roles gave, and how many are resolved
          loaded,               \* the modules instantiated so far
          wired,                \* connections checked so far
          merged, mapped,       \* modules merged, connections turned into rules
          model                 \* the completion model

composing == <<context, roles, loaded, wired, merged, mapped, model>>

NoRules == [x \in {} |-> {}]
EmptyModel == [slots |-> NoRules, states |-> NoRules, rules |-> NoRules, constraints |-> {}]

\* Parameters may be lists of items as well.
Start == [one |-> project.parameters, many |-> project.lists]

Names(s) == [i \in DOMAIN s |-> s[i].name]

-----------------------------------------------------------------------------
(* The composition file. *)

ValidConnection(c) == c.source # c.target /\ (c.shared => DOMAIN c.map = {})

ValidComposition ==
    /\ \A role \in ToSet(project.roles) : ValidRole(role)
    /\ \A c \in ToSet(project.connections) : ValidConnection(c)
    /\ \A s \in {project.modules, project.connections, project.roles} : IsInjective(Names(s))
    /\ (DOMAIN project.parameters \cup DOMAIN project.lists) \cap Range(Names(project.roles)) = {}

Open ==
    /\ phase = "open"
    /\ phase' = IF ValidComposition THEN "roles" ELSE "raised"
    /\ UNCHANGED <<project, trace, composing>>

-----------------------------------------------------------------------------
(* Modules. *)

Types(ports) == {p.type : p \in Range(ports)}
EventTypes(r) == r.inputs \cup r.outputs
Declared(m) == Types(m.ports) \cup m.internal \cup Types(m.slots)

LocalState(m) == \A r \in Range(m.rules) : r.states \subseteq Range(m.states)

\* Mutant: equal names of cells are not noticed.
CellsUnchecked(m) ==
    /\ IsInjective(Names(m.ports)) /\ IsInjective(Names(m.slots)) /\ IsInjective(Names(m.rules))
    /\ Declared(m) \subseteq DOMAIN Catalog
    /\ \A r \in Range(m.rules) : EventTypes(r) \subseteq Declared(m)
    /\ LocalState(m)

ValidModule(m) ==
    /\ IsInjective(Names(m.ports)) /\ IsInjective(Names(m.slots))
    /\ IsInjective(m.states) /\ IsInjective(Names(m.rules))
    /\ Declared(m) \subseteq DOMAIN Catalog
    /\ \A r \in Range(m.rules) : EventTypes(r) \subseteq Declared(m)
    /\ LocalState(m)

\* Ports that are not enabled disappear with the template.
Module(t) ==
    LET f == Expand(t, context)
    IN  [name |-> t.name, internal |-> t.internal,
         ports |-> [d \in {x \in DOMAIN f.ports : f.ports[x].enabled} |-> f.ports[d]],
         slots |-> f.slots, states |-> f.states, rules |-> f.rules, constraints |-> f.constraints]

Loads(t) == Expands(t, context) /\ t.declared = t.name /\ ValidModule(Module(t))

ResolveRole ==
    /\ phase = "roles"
    /\ roles < Len(project.roles)
    /\ LET role == project.roles[roles + 1]
       IN  IF RoleResolves(role, trace, context.one)
           THEN context' = Resolve(role, trace, context) /\ roles' = roles + 1 /\ UNCHANGED phase
           ELSE phase' = "raised" /\ UNCHANGED <<context, roles>>
    /\ UNCHANGED <<project, trace, loaded, wired, merged, mapped, model>>

RolesResolved ==
    /\ phase = "roles"
    /\ roles = Len(project.roles)
    /\ phase' = "load"
    /\ UNCHANGED <<project, trace, composing>>

LoadModule ==
    /\ phase = "load"
    /\ Len(loaded) < Len(project.modules)
    /\ LET t == project.modules[Len(loaded) + 1]
       IN  IF Loads(t) THEN loaded' = Append(loaded, Module(t)) /\ UNCHANGED phase
           ELSE phase' = "raised" /\ UNCHANGED loaded
    /\ UNCHANGED <<project, trace, context, roles, wired, merged, mapped, model>>

Loaded ==
    /\ phase = "load"
    /\ Len(loaded) = Len(project.modules)
    /\ phase' = "wire"
    /\ UNCHANGED <<project, trace, composing>>

-----------------------------------------------------------------------------
(* Connections. *)

PortsOf(end) == {p \in UNION {Range(m.ports) : m \in {n \in ToSet(loaded) : n.name = end.module}} :
                    p.name = end.port}
PortType(end) == (CHOOSE p \in PortsOf(end) : TRUE).type

\* Without a mapping, the fields that both types have.
FieldMap(c, source, target) ==
    IF DOMAIN c.map = {} THEN [f \in DOMAIN Catalog[source] \cap DOMAIN Catalog[target] |-> f] ELSE c.map

FieldsFit(c, source, target) ==
    LET map == FieldMap(c, source, target)
    IN  \A f \in DOMAIN map :
            /\ f \in DOMAIN Catalog[target]
            /\ map[f] \in DOMAIN Catalog[source]
            /\ Catalog[target][f] = Catalog[source][map[f]]

Wires(c, targets) ==
    /\ PortsOf(c.source) # {} /\ PortsOf(c.target) # {}
    /\ \A p \in PortsOf(c.source) : p.output
    /\ \A p \in PortsOf(c.target) : ~ p.output
    /\ c.target \notin targets
    /\ IF c.shared THEN PortType(c.source) = PortType(c.target)
       ELSE FieldsFit(c, PortType(c.source), PortType(c.target))

Connections == SubSeq(project.connections, 1, wired)
Targets == {c.target : c \in ToSet(Connections)}
Connected == Targets \cup {c.source : c \in ToSet(Connections)}

Connect ==
    /\ phase = "wire"
    /\ wired < Len(project.connections)
    /\ IF Wires(project.connections[wired + 1], Targets) THEN wired' = wired + 1 /\ UNCHANGED phase
       ELSE phase' = "raised" /\ UNCHANGED wired
    /\ UNCHANGED <<project, trace, context, roles, loaded, merged, mapped, model>>

RequirePorts ==
    /\ phase = "wire"
    /\ wired = Len(project.connections)
    /\ phase' = IF \A m \in ToSet(loaded) : \A p \in Range(m.ports) :
                    p.required => [module |-> m.name, port |-> p.name] \in Connected
                THEN "merge" ELSE "raised"
    /\ UNCHANGED <<project, trace, composing>>

-----------------------------------------------------------------------------
(* Merging.  Every slot, cell and rule has one owner; a constraint has none. *)

Merging(m) ==
    [slots |-> [id \in Range(Names(m.slots)) |->
                    LET s == CHOOSE x \in Range(m.slots) : x.name = id
                    IN  [type |-> s.type, cycle |-> s.cycle, values |-> s.values,
                         owner |-> m.name, public |-> s.type \in Types(m.ports)]],
     states |-> [s \in Range(m.states) |-> m.name],
     rules |-> [n \in Range(Names(m.rules)) |->
                    LET r == CHOOSE x \in Range(m.rules) : x.name = n
                    IN  [inputs |-> r.inputs, outputs |-> r.outputs, states |-> r.states, owner |-> m.name]]]

Merge ==
    /\ phase = "merge"
    /\ merged < Len(loaded)
    /\ LET new == Merging(loaded[merged + 1])
           collide(part) == DOMAIN new[part] \cap DOMAIN model[part] # {}
       IN  IF \E part \in {"slots", "states", "rules"} : collide(part)
           THEN phase' = "raised" /\ UNCHANGED <<merged, model>>
           ELSE /\ model' = [model EXCEPT !.slots = Updated(@, new.slots), !.states = Updated(@, new.states),
                                          !.rules = Updated(@, new.rules),
                                          !.constraints = @ \cup Range(loaded[merged + 1].constraints)]
                /\ merged' = merged + 1
                /\ UNCHANGED phase
    /\ UNCHANGED <<project, trace, context, roles, loaded, wired, mapped>>

AllMerged ==
    /\ phase = "merge"
    /\ merged = Len(loaded)
    /\ phase' = "map"
    /\ UNCHANGED <<project, trace, composing>>

\* A shared event needs no rule; a mapped one gets a rule from the source to the target.
ConnectionName(c) == <<c.name>>

MappedRule(c) ==
    [inputs |-> {PortType(c.source)}, outputs |-> {PortType(c.target)}, states |-> {}, owner |-> c.name]

MapConnection ==
    /\ phase = "map"
    /\ mapped < Len(project.connections)
    /\ LET c == project.connections[mapped + 1]
           n == ConnectionName(c)
       IN  \/ /\ c.shared
              /\ mapped' = mapped + 1
              /\ UNCHANGED <<phase, model>>
           \/ /\ ~ c.shared /\ n \in DOMAIN model.rules
              /\ phase' = "raised"
              /\ UNCHANGED <<mapped, model>>
           \/ /\ ~ c.shared /\ n \notin DOMAIN model.rules
              /\ model' = [model EXCEPT !.rules = Put(@, n, MappedRule(c))]
              /\ mapped' = mapped + 1
              /\ UNCHANGED phase
    /\ UNCHANGED <<project, trace, context, roles, loaded, wired, merged>>

\* Strict: a constraint of the composition may not name a private slot.  Those of the
\* modules are not looked at.
Encapsulated(constraints) ==
    \A c \in constraints : \A id \in c \cap DOMAIN model.slots : model.slots[id].public

Compose ==
    /\ phase = "map"
    /\ mapped = Len(project.connections)
    /\ IF project.strict /\ ~ Encapsulated(project.constraints)
       THEN phase' = "raised" /\ UNCHANGED model
       ELSE phase' = "composed" /\ model' = [model EXCEPT !.constraints = @ \cup project.constraints]
    /\ UNCHANGED <<project, trace, context, roles, loaded, wired, merged, mapped>>

ComposeNext ==
    \/ Open \/ ResolveRole \/ RolesResolved \/ LoadModule \/ Loaded \/ Connect \/ RequirePorts
    \/ Merge \/ AllMerged \/ MapConnection \/ Compose
=============================================================================
