------------------------- MODULE MCExecutionContext -------------------------
(***************************************************************************)
(* Two executions that share a parent context, as the entities of a        *)
(* parallel system do; one of them reaches another context by association, *)
(* and the parent itself has none.                                         *)
(***************************************************************************)
EXTENDS ExecutionContext

CONSTANTS child1, child2, parent, other

MCLive == [c \in {child1, child2} |->
             IF c = child1 THEN {child1, parent, other} ELSE {child2, parent}]
MCParent == [c \in Contexts |-> IF c = parent THEN Null ELSE parent]
MCOthers == [c \in Contexts |-> IF c = child1 THEN {other} ELSE {}]
AllImports == ImportNames
=============================================================================
