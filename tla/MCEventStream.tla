--------------------------- MODULE MCEventStream ---------------------------
(***************************************************************************)
(* Instances of EventStream for TLC: one subscriber, and two emitters      *)
(* whose emissions may overlap.                                            *)
(***************************************************************************)
EXTENDS EventStream

CONSTANTS e1, e2, c1

TwoEmitters == {e1, e2}
OneClient == {c1}
=============================================================================
