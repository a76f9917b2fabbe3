--------------------------- MODULE MCExperimentRunner ---------------------------
(* Instances of ExperimentRunner for TLC. *)
EXTENDS ExperimentRunner

(* Payloads that fit the pipe, fill it, and exceed it. *)
AnyPayload == {1, 3, 4, 6}
AllFaults == WorkerFaults
NoFaults == {}
=============================================================================
