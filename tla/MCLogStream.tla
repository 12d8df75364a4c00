---------------------------- MODULE MCLogStream -----------------------------
(***************************************************************************)
(* An instance of LogStream for TLC: two steps, so that a step can find    *)
(* the output of the one before.                                           *)
(***************************************************************************)
EXTENDS LogStream
=============================================================================
