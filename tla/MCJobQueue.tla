----------------------------- MODULE MCJobQueue -----------------------------
(***************************************************************************)
(* An instance of JobQueue for TLC: jobs enough to fill both workers, the  *)
(* dispatcher's hand and the channel.                                      *)
(***************************************************************************)
EXTENDS JobQueue

CONSTANTS j1, j2, j3, j4, j5

FiveJobs == {j1, j2, j3, j4, j5}
=============================================================================
