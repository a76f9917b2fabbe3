--------------------------- MODULE ExperimentRunner ---------------------------
(***************************************************************************)
(* run_experiment (src/src/matmul_inspector/experiment.py): one experiment *)
(* in a worker process, with a timeout and an interruption path.           *)
(*                                                                         *)
(* The controller joins the worker first and reads the queue afterwards.   *)
(***************************************************************************)
EXTENDS WorkerProcess

Waiting == {"join", "term_join", "kill_join", "get", "recv"}
Start == Fork("join")

(* process.join(timeout) *)
JoinReturns == pc = "join" /\ ~Alive /\ Goto("get") /\ UNCHANGED workerVars
JoinTimesOut == pc = "join" /\ TimeIsUp /\ Signal("term") /\ Goto("term_join")

(* Mutant of GetEmpty: a get without a timeout. *)
GetIgnoresPipe == pc = "get" /\ Conclude("no_result") /\ UNCHANGED workerVars

(* messages.get(timeout=1.0): the timeout only bounds the wait for the      *)
(* first bytes; once there are some, the rest is read without one.          *)
GetEmpty == pc = "get" /\ pipe = 0 /\ Conclude("no_result") /\ UNCHANGED workerVars
GetBegins == pc = "get" /\ pipe > 0 /\ Goto("recv") /\ UNCHANGED workerVars
RecvDone == pc = "recv" /\ got = size /\ Conclude("result") /\ UNCHANGED workerVars

(* KeyboardInterrupt: terminate and join(5), without a kill. *)
Interrupt ==
  /\ "interrupt" \in Faults
  /\ pc \in Waiting
  /\ IF Alive THEN Signal("term") /\ Goto("int_join")
     ELSE Conclude("interruption") /\ UNCHANGED workerVars
InterruptJoined == pc = "int_join" /\ ~Alive /\ Conclude("interruption") /\ UNCHANGED workerVars
InterruptGivesUp == pc = "int_join" /\ Outlives /\ Conclude("interruption") /\ UNCHANGED workerVars

(* A Ctrl-C outside the try block, or a second one inside the handler,      *)
(* leaves run_experiment as an exception.                                   *)
InterruptEscapes ==
  /\ "interrupt" \in Faults
  /\ pc = "int_join" \/ (pc = "join" /\ wk = "running")
  /\ pc' = "raised"
  /\ UNCHANGED <<got, outcome, workerVars>>

ControllerStep ==
  \/ Start
  \/ JoinReturns \/ JoinTimesOut
  \/ StopWorker
  \/ GetEmpty \/ GetBegins \/ Recv \/ RecvDone
  \/ InterruptJoined \/ InterruptGivesUp

Next ==
  \/ ControllerStep
  \/ Interrupt \/ InterruptEscapes
  \/ WorkerStep
  \/ Finished

Spec == Init /\ [][Next]_vars
FairSpec == Spec /\ WF_vars(ControllerStep) /\ WorkerFairness
-----------------------------------------------------------------------------
(* Every variable holds a value of its kind. *)
TypeOK ==
  /\ WorkerTypeOK
  /\ pc \in Waiting \cup Returned \cup {"start", "int_join"}

(* A run keeps the promise of IsolatedRun: it concludes once, reports only  *)
(* results that exist, and gives every answer but that of an interruption   *)
(* after its worker's death, whatever signals the worker survives.          *)
ImplementsIsolatedRun == Isolated!Spec

(* Under an ample timeout, a payload that fits the pipe reaches the caller  *)
(* once the worker has put it: neither the join nor the one-second get      *)
(* loses it, only an interruption or the worker's own death does.           *)
ResultsDelivered ==
  pc = "done" /\ Produced /\ size <= Capacity /\ ample /\ ~DiedAlone =>
    outcome \in {"result", "interruption"}

(* The controller always returns, whatever the computation does, unless the *)
(* worker dies half way through writing its answer: then the controller,    *)
(* which holds a write end of the pipe itself, waits for the rest for ever. *)
ControllerReturns == <>(pc \in Returned \/ Torn)
-----------------------------------------------------------------------------
(* A claim that the code does not keep. *)

(* experiment_pair.py: "Drain the result before joining: the child cannot   *)
(* exit while its Queue feeder waits for the parent to read a payload       *)
(* larger than the pipe buffer."                                            *)
FinishedIsNoTimeout == ample /\ outcome = "timeout" => ~Produced
=============================================================================
