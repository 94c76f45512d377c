----------------------------- MODULE GlobalOrder -----------------------------
(***************************************************************************)
(* The two ways the memory model looks at the same union of relations,     *)
(* src/src/umcm/graph/rvwmo.py.  `complete_rvwmo_relations` asks for the   *)
(* global memory order and keeps it in the metadata of the graph.  Later   *)
(* `check_rvwmo` searches the four relations for a cycle, and the checks   *)
(* that need the order are silent when there is none.                      *)
(***************************************************************************)
EXTENDS TopologicalOrder, CycleSearch

globalVars == <<vars, searchVars>>

GlobalInit == Init /\ SearchInit

CompleteStep ==
    /\ Next
    /\ UNCHANGED <<color, stack, position, examined, cycle, verdict>>

CheckStep ==
    /\ phase = "done"
    /\ SearchNext
    /\ UNCHANGED <<loaded, successors, indegree, ready, order, phase>>

Terminated == verdict # "search" /\ UNCHANGED globalVars

GlobalNext == CompleteStep \/ CheckStep \/ Terminated

GlobalSpec == GlobalInit /\ [][GlobalNext]_globalVars /\ WF_globalVars(GlobalNext)

-----------------------------------------------------------------------------
(* What `_load_value_offenses` relies on. *)

\* An axiom is never passed for want of an order: whenever no order was found, so
\* that the load values were not checked, the cycle axiom fails, and only then.
OrderXorCycle == verdict # "search" => (Ordered <=> verdict = "none")

\* Both loops end, one after the other.
VerdictIsReached == <>(phase = "done" /\ verdict # "search")
=============================================================================
