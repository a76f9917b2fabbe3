--------------------------- MODULE MCExperimentBatch ---------------------------
(* Instances of ExperimentBatch for TLC. *)
EXTENDS ExperimentBatch

CONSTANTS c1, c2

Pair == {c1, c2}
AllEvents == EventKinds
CtrlC == {"interrupt"}
=============================================================================
