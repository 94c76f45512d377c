--------------------------- MODULE OrderRelations ---------------------------
(***************************************************************************)
(* The argument that both graph algorithms of src/src/umcm/graph take: the *)
(* relations whose union is to be ordered, or searched for a cycle.        *)
(*                                                                         *)
(* Operation identifiers are strings in the code and only compared; here   *)
(* they are naturals, in the order the code sorts the strings.  A relation *)
(* is named by its place in the argument.                                  *)
(***************************************************************************)
EXTENDS EdgeSets

CONSTANTS Node,      \* the operations of the execution graph
          Input      \* the sequences of relations the algorithms are given

ASSUME NodeAssumption == Node \in SUBSET Nat /\ IsFiniteSet(Node)
ASSUME InputAssumption == Input \in SUBSET Seq(SUBSET (Node \X Node))

VARIABLE relations      \* the argument, a sequence of edge sets

Edges == UNION {relations[i] : i \in 1 .. Len(relations)}
=============================================================================
