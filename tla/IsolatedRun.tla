------------------------------ MODULE IsolatedRun ------------------------------
(***************************************************************************)
(* What a run in a worker process promises its caller.                     *)
(*                                                                         *)
(* A run begins once, forks one worker, and concludes at most once; when   *)
(* it has concluded its worker is gone, unless it was interrupted; it      *)
(* reports a result only if the worker produced one.                       *)
(***************************************************************************)
VARIABLES
  begun,     \* the worker has been forked
  alive,     \* it still occupies the GPU
  produced,  \* it put a payload on the queue
  verdict    \* what the caller was told

vars == <<begun, alive, produced, verdict>>
Failures == {"timeout", "no_result", "interruption"}

Init == begun = FALSE /\ alive = FALSE /\ produced = FALSE /\ verdict = "none"

Begin == ~begun /\ begun' = TRUE /\ alive' = TRUE /\ UNCHANGED <<produced, verdict>>
Produce == alive /\ ~produced /\ produced' = TRUE /\ UNCHANGED <<begun, alive, verdict>>
End == alive /\ alive' = FALSE /\ UNCHANGED <<begun, produced, verdict>>
Conclude ==
  /\ begun /\ verdict = "none"
  /\ verdict' \in Failures \cup {"result"}
  /\ verdict' = "result" => produced
  /\ verdict' # "interruption" => ~alive
  /\ UNCHANGED <<begun, alive, produced>>

Next == Begin \/ Produce \/ End \/ Conclude
Spec == Init /\ [][Next]_vars
=============================================================================
