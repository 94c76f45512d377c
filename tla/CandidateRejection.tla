------------------------- MODULE CandidateRejection -------------------------
(***************************************************************************)
(* The Z3 completion backend: `solve_z3` and `_block_clause`,              *)
(* src/src/umcm/solver/z3ctypes.py.                                        *)
(*                                                                         *)
(* Z3 itself is external: asked for a model of the assertions, it gives    *)
(* any that is minimal in the number of occurring slots, if that is asked  *)
(* for.  A candidate is judged by check_state_semantics; a rejected one is *)
(* excluded by a clause over the symbols of the events that occur.         *)
(*                                                                         *)
(* A candidate assigns a value to every symbol: to <<"occurs", s>> for an  *)
(* optional slot, to <<"data", s>> for the cycle and the fields of a slot, *)
(* and to <<"trace">> for the symbols of the observed events.              *)
(***************************************************************************)
EXTENDS Integers, FiniteSets

CONSTANTS Slot,           \* the slots of the completion
          Query,          \* the problems considered
          MaxRejections   \* max_state_rejections

ASSUME SlotAssumption == IsFiniteSet(Slot)
ASSUME LimitAssumption == MaxRejections \in Nat

Data(s) == <<"data", s>>
Occurs(s) == <<"occurs", s>>
TraceSymbol == <<"trace">>

\* A required slot occurs by a literal: there is no symbol for it.
Symbols(required) ==
    {Data(s) : s \in Slot} \cup {Occurs(s) : s \in Slot \ required} \cup {TraceSymbol}

Restricted(a, names) == [n \in names |-> a[n]]

\* The slots that occur, and the part of a candidate that its events carry.
Occurring(required, a) == required \cup {s \in Slot \ required : a[Occurs(s)] = TRUE}

Footprint(required, a) ==
    Restricted(a, Symbols(required) \ {Data(s) : s \in Slot \ Occurring(required, a)})

VARIABLES query,       \* required slots, models of the assertions, accepted footprints
          outcome,     \* "search", or the status returned
          blocks,      \* the assignments excluded, each by the symbols it names
          iteration,   \* rejected candidates so far
          candidate    \* the last model Z3 gave

candidateVars == <<query, outcome, blocks, iteration, candidate>>

NoCandidate == << >>

Required == query.required

\* check_state_semantics only looks at events that occur.
Feasible(a) == Footprint(Required, a) \in query.accepted

Blocked(a) == \E clause \in blocks : \A n \in DOMAIN clause : a[n] = clause[n]

Unblocked == {a \in query.models : ~ Blocked(a)}

\* The value of the minimize objective: required slots have no term in it.
Weight(a) == Cardinality({s \in Slot \ Required : a[Occurs(s)] = TRUE})

\* Mutant: Z3 is not asked to minimize.
AnyOf(S) == S

Minimal(S) ==
    {a \in S : query.minimize => \A b \in S : Weight(a) <= Weight(b)}

CandidateInit ==
    /\ query \in Query
    /\ outcome = "search"
    /\ blocks = {}
    /\ iteration = 0
    /\ candidate = NoCandidate

\* Mutant: the data of no slot at all is named, as if none occurred.
OccurrencesOnly(a) == Restricted(a, Symbols(Required) \ {Data(s) : s \in Slot})

\* The clause names the data of a slot only when its occurrence symbol is True: for a
\* required slot there is no such symbol, and its data is left out.
BlockClause(a) ==
    Restricted(a, Symbols(Required) \
        {Data(s) : s \in {r \in Slot : ~ (r \notin Required /\ a[Occurs(r)] = TRUE)}})

Unsat ==
    /\ outcome = "search"
    /\ iteration <= MaxRejections
    /\ Unblocked = {}
    /\ outcome' = "unsat"
    /\ UNCHANGED <<query, blocks, iteration, candidate>>

\* Z3 gives up, on a time-out or a theory it cannot decide.
GiveUp ==
    /\ outcome = "search"
    /\ iteration <= MaxRejections
    /\ query.hard
    /\ outcome' = "unknown"
    /\ UNCHANGED <<query, blocks, iteration, candidate>>

Accept ==
    /\ outcome = "search"
    /\ iteration <= MaxRejections
    /\ \E a \in Minimal(Unblocked) :
        /\ Feasible(a)
        /\ candidate' = a
    /\ outcome' = "sat"
    /\ UNCHANGED <<query, blocks, iteration>>

Reject ==
    /\ outcome = "search"
    /\ iteration <= MaxRejections
    /\ \E a \in Minimal(Unblocked) :
        /\ ~ Feasible(a)
        /\ candidate' = a
        /\ blocks' = blocks \cup {BlockClause(a)}
    /\ iteration' = iteration + 1
    /\ UNCHANGED <<query, outcome>>

TooMany ==
    /\ outcome = "search"
    /\ iteration > MaxRejections
    /\ outcome' = "unknown"
    /\ UNCHANGED <<query, blocks, iteration, candidate>>

Answered == outcome \in {"sat", "unsat", "unknown"} /\ UNCHANGED candidateVars

CandidateNext == Unsat \/ GiveUp \/ Accept \/ Reject \/ TooMany \/ Answered

CandidateSpec == CandidateInit /\ [][CandidateNext]_candidateVars

-----------------------------------------------------------------------------
(* What the rejection of candidates must keep of the completions. *)

\* Candidates are models, and clauses name symbols of the problem.
CandidateTypeOK ==
    /\ outcome \in {"search", "sat", "unsat", "unknown"}
    /\ iteration \in 0 .. MaxRejections + 1
    /\ candidate = NoCandidate \/ candidate \in query.models
    /\ \A clause \in blocks : DOMAIN clause \subseteq Symbols(Required)

Completions == {a \in query.models : Feasible(a)}

\* Rejecting candidates loses no completion: the trace is only reported infeasible
\* when every model of the assertions violates the state semantics.  "blocks rejected
\* concrete event assignments until a state-feasible witness is found" (z3ctypes.py:5).
UnsatHasNoCompletion == outcome = "unsat" => Completions = {}

\* The witness is a completion with as few optional events as any completion has.
WitnessIsSmallest ==
    outcome = "sat" =>
        /\ candidate \in Completions
        /\ query.minimize => \A b \in Completions : Weight(candidate) <= Weight(b)
=============================================================================
