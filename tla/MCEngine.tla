------------------------------ MODULE MCEngine ------------------------------
(***************************************************************************)
(* Instances of Engine for TLC: two executions with an id each, or sharing *)
(* one, as two nameless workflows of a pipeline do.                        *)
(***************************************************************************)
EXTENDS Engine

CONSTANTS r1, r2, build, unnamed

OwnIds == [r \in Run |-> IF r = r1 THEN build ELSE unnamed]
SharedId == [r \in Run |-> unnamed]
AnyNaming == {OwnIds, SharedId}
Lengths == [r \in Run |-> IF r = r1 THEN 2 ELSE 1]
=============================================================================
