------------------------------- MODULE BatchLog -------------------------------
(***************************************************************************)
(* What batch_results.json promises those who read it after the batch      *)
(* process is gone.                                                        *)
(*                                                                         *)
(* The file exists before the first experiment starts.  Experiments run    *)
(* one at a time, and none starts before the previous one is on file, so   *)
(* the file misses at most one of them whenever the process dies.  A final *)
(* status is only written when it misses none, and nothing runs after it.  *)
(***************************************************************************)
EXTENDS Naturals

CONSTANT Batches
VARIABLES
  log,       \* for each batch, the status and number of experiments on file
  launched   \* for each batch, the experiments that were started

vars == <<log, launched>>
Final == {"success", "completed_with_failures", "interrupted", "configuration_failed"}

Init ==
  /\ log = [b \in Batches |-> [status |-> "none", listed |-> 0]]
  /\ launched = [b \in Batches |-> 0]

Write(b, status, listed) ==
  /\ log' = [log EXCEPT ![b] = [status |-> status, listed |-> listed]]
  /\ UNCHANGED launched

Open(b) == log[b].status = "none" /\ \E s \in {"running", "configuration_failed"} : Write(b, s, 0)

Launch(b) ==
  /\ log[b].status = "running"
  /\ launched[b] = log[b].listed
  /\ launched' = [launched EXCEPT ![b] = @ + 1]
  /\ UNCHANGED log

Record(b) ==
  /\ log[b].status = "running"
  /\ launched[b] = log[b].listed + 1
  /\ \E s \in {"running", "interrupted"} : Write(b, s, launched[b])

Close(b) ==
  /\ log[b].status = "running"
  /\ launched[b] = log[b].listed
  /\ \E s \in {"success", "completed_with_failures"} : Write(b, s, launched[b])

Next == \E b \in Batches : Open(b) \/ Launch(b) \/ Record(b) \/ Close(b)
Spec == Init /\ [][Next]_vars
=============================================================================
