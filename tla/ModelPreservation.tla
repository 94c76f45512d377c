-------------------------- MODULE ModelPreservation --------------------------
(***************************************************************************)
(* `check_memory_model_preservation`, src/src/umcm/hierarchy/engine.py: a  *)
(* trace and its abstraction are checked against one memory model, one     *)
(* after the other, and the executions of both are compared by what the    *)
(* signature of a graph holds: the operations without their metadata, and  *)
(* the relations.  An abstraction hides events and replaces them by        *)
(* summaries, so it may lose operations, attributes and evidence and may   *)
(* add evidence.  A trace may also be checked alone.                       *)
(***************************************************************************)
EXTENDS ExecutionCandidates

CONSTANT Pairs          \* the arguments [trace, reduced, model]

VARIABLES reduced,      \* the abstracted trace, or NoTrace
          concrete      \* the result of the first check, or NoResult

pairVars == <<vars, reduced, concrete>>

NoResult == [trace |-> << >>, ops |-> << >>, checked |-> {}, status |-> "none"]

NoTrace == [events |-> {}, hints |-> << >>, rfHints |-> {}, coHints |-> {}]

Given(t, m) == trace = t /\ model = m

PairInit ==
    /\ \/ \E c \in Checks : Given(c.trace, c.model) /\ reduced = NoTrace
       \/ \E p \in Pairs : Given(p.trace, p.model) /\ reduced = p.reduced
    /\ phase = "project"
    /\ ops = << >>
    /\ pending = {}
    /\ checked = {}
    /\ status = "none"
    /\ concrete = NoResult

CheckStep == Next /\ UNCHANGED <<reduced, concrete>>

\* The second check starts from the abstracted trace.
CheckAbstraction ==
    /\ phase = "done"
    /\ concrete = NoResult /\ reduced # NoTrace
    /\ concrete' = [trace |-> trace, ops |-> ops, checked |-> checked, status |-> status]
    /\ trace' = reduced
    /\ phase' = "project"
    /\ ops' = << >>
    /\ pending' = {}
    /\ checked' = {}
    /\ status' = "none"
    /\ UNCHANGED <<model, reduced>>

PairNext == CheckStep \/ CheckAbstraction

PairSpec == PairInit /\ [][PairNext]_pairVars

-----------------------------------------------------------------------------
(* The comparison. *)

\* What is said of a trace and its operations under a model.
At(t, m, o) == INSTANCE ExecutionCandidates WITH
    trace <- t, model <- m, ops <- o, phase <- "done", pending <- {}, checked <- {}, status <- "none"

Compared == phase = "done" /\ concrete # NoResult

\* Metadata and written values of AMOs are left out.
Visible(operations) ==
    [i \in DOMAIN operations |->
        [kind |-> operations[i].kind, address |-> operations[i].address, value |-> operations[i].value,
         hart |-> operations[i].hart, index |-> operations[i].index]]

\* Mutant: of the relations, only those that the candidate was chosen by.
SignatureOfChoice(operations, c, table) == <<Visible(operations), c>>

Signature(operations, c, table) == <<Visible(operations), table>>

AbstractSignatures ==
    {Signature(ops, k.candidate, WithDerived(Table(k.candidate), model.derived)) : k \in checked}
ConcreteSignatures ==
    {Signature(concrete.ops, k.candidate,
               WithDerived(At(concrete.trace, model, concrete.ops)!Table(k.candidate), model.derived)) :
        k \in concrete.checked}

Preserved == concrete.status = status /\ ConcreteSignatures = AbstractSignatures

-----------------------------------------------------------------------------
(* Correctness. *)

\* What the signature leaves out does not matter: a preserved abstraction has exactly
\* the executions of the concrete trace, each allowed or forbidden as it was, and not
\* just the same verdict on the whole.
PreservedMeansSameExecutions ==
    Compared /\ Preserved =>
        /\ Executions = At(concrete.trace, model, concrete.ops)!Executions
        /\ \A x \in Executions : Passes(x) <=> At(concrete.trace, model, concrete.ops)!Passes(x)
=============================================================================
