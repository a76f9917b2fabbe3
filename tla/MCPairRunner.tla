------------------------------ MODULE MCPairRunner ------------------------------
(* Instances of PairRunner for TLC. *)
EXTENDS PairRunner

(* Payloads that fit the pipe, fill it, and exceed it. *)
AnyPayload == {1, 3, 4, 6}
AllFaults == WorkerFaults
NoFaults == {}
=============================================================================
