------------------------------ MODULE Completion ------------------------------
(***************************************************************************)
(* The completion of a bounded problem: `complete_problem`,                *)
(* src/src/umcm/solver/completion.py.                                      *)
(*                                                                         *)
(* One of two solvers is asked, and what it answers decides the status of  *)
(* the completion.  Each sees the problem in its own terms: solve_finite   *)
(* as variables with domains and constraints, solve_z3 as a set of models. *)
(* The solver that is not asked is given nothing and takes no step.        *)
(***************************************************************************)
EXTENDS FiniteCompletion, CandidateRejection

CONSTANT Backend        \* the backends that callers ask for

VARIABLES backend,      \* the backend asked for
          status        \* the status of the completion, or "none"

completionVars == <<backend, status, vars, candidateVars>>

Finite == backend \in {"auto", "finite"}
Z3     == backend = "z3"

NoProblem ==
    [names |-> << >>, domains |-> << >>, events |-> << >>, rules |-> << >>, constraints |-> << >>,
     guards |-> << >>, effects |-> << >>, limit |-> 0]

NoQuery == [required |-> {}, models |-> {}, accepted |-> {}, minimize |-> FALSE, hard |-> FALSE]

FiniteIdle ==
    /\ problem = NoProblem /\ phase = "idle" /\ path = << >>
    /\ explored = 0 /\ unresolved = FALSE /\ witness = [found |-> FALSE, values |-> NoWitness]

Z3Idle ==
    /\ query = NoQuery /\ outcome = "idle"
    /\ blocks = {} /\ iteration = 0 /\ candidate = NoCandidate

CompletionInit ==
    /\ backend \in Backend
    /\ status = "none"
    /\ IF Finite THEN Init ELSE FiniteIdle
    /\ IF Z3 THEN CandidateInit ELSE Z3Idle

SolveFinite == Next /\ UNCHANGED <<backend, status, candidateVars>>

SolveZ3 == CandidateNext /\ UNCHANGED <<backend, status, vars>>

Answer(solved) ==
    CASE solved = "unsat"   -> "infeasible"
      [] solved = "unknown" -> "unknown"
      [] solved = "sat"     -> "feasible"

Conclude ==
    /\ status = "none"
    /\ \/ phase = "done" /\ status' = Answer(Status)
       \/ outcome \in {"sat", "unsat", "unknown"} /\ status' = Answer(outcome)
    /\ UNCHANGED <<backend, vars, candidateVars>>

\* An unsupported backend, or an error of the evaluator that nothing catches.
Abort ==
    /\ status = "none"
    /\ ~ (Finite \/ Z3) \/ phase = "raised"
    /\ status' = "raised"
    /\ UNCHANGED <<backend, vars, candidateVars>>

Completed == status # "none" /\ UNCHANGED completionVars

CompletionNext == SolveFinite \/ SolveZ3 \/ Conclude \/ Abort \/ Completed

CompletionSpec == CompletionInit /\ [][CompletionNext]_completionVars
=============================================================================
