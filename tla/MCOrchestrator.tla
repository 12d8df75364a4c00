--------------------------- MODULE MCOrchestrator ---------------------------
(***************************************************************************)
(* Instances of Orchestrator for TLC: two pipelines that compete for one   *)
(* permit, one of them with two workflows and one that is refused; and a   *)
(* pipeline among events that must leave no trace.                         *)
(***************************************************************************)
EXTENDS Orchestrator

CONSTANTS d1, d2, d3

Good(name) == [name |-> name, raw |-> TRUE, valid |-> TRUE]
Invalid == [name |-> "bad", raw |-> TRUE, valid |-> FALSE]
Empty == [name |-> "bad", raw |-> FALSE, valid |-> TRUE]

\* Every delivery announces a pipeline of its own.
Distinct(D) == [d \in D |-> d]

\* Two pipelines: two workflows and one that init_workflow refuses; one workflow.
Pair == {d1, d2}
PairPipelines == Distinct(Pair)
PairManifests ==
    [d \in Pair |-> IF d = d1 THEN <<Good("build"), Invalid, Good("test")>>
                              ELSE <<Good("none")>>]

\* One pipeline, one event without anything to run, and one of a repository
\* nobody registered (d3 is not in Tracked).
Mixed == {d1, d2, d3}
MixedPipelines == Distinct(Mixed)
MixedManifests ==
    [d \in Mixed |-> IF d = d2 THEN <<Empty>> ELSE <<Good("build"), Empty>>]
=============================================================================
