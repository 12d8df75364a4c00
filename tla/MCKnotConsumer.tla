--------------------------- MODULE MCKnotConsumer ---------------------------
(***************************************************************************)
(* An instance of KnotConsumer for TLC: one knot and two callers, so that  *)
(* a subscribe can meet an unsubscribe that holds the lock.                *)
(***************************************************************************)
EXTENDS KnotConsumer

CONSTANTS k1, c1, c2

OneKnot == {k1}
TwoCallers == {c1, c2}
=============================================================================
