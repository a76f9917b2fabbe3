------------------------------ MODULE PairRunner ------------------------------
(***************************************************************************)
(* run_worker (src/src/matmul_inspector/experiment_pair.py): the same      *)
(* worker, but the controller reads the queue before it joins.  A loop     *)
(* polls the queue until a deadline and stops early when the worker is     *)
(* found dead.                                                             *)
(***************************************************************************)
EXTENDS WorkerProcess

(* Mutant of Start: join before drain. *)
StartByJoining == Fork("join")

Waiting == {"poll", "check", "recv", "join", "term_join", "kill_join"}
Start == Fork("poll")

(* messages.get(timeout <= 0.1) raises Empty, or finds the first bytes. *)
PollEmpty == pc = "poll" /\ pipe = 0 /\ Goto("check") /\ UNCHANGED workerVars
PollBegins == pc = "poll" /\ pipe > 0 /\ Goto("recv") /\ UNCHANGED workerVars

(* After Empty: a live worker is polled again, a dead one ends the loop     *)
(* without a message.                                                       *)
CheckAlive == pc = "check" /\ Alive /\ Goto("poll") /\ UNCHANGED workerVars
CheckDead == pc = "check" /\ ~Alive /\ Conclude("no_result") /\ UNCHANGED workerVars

RecvDone == pc = "recv" /\ got = size /\ Goto("join") /\ UNCHANGED workerVars

(* The deadline ends the loop, or the join after a message: a worker that   *)
(* is still alive is terminated, and a message already received dropped.    *)
(* Under an ample timeout an answer that is waiting in the pipe is read     *)
(* first.                                                                   *)
DeadlineExpires ==
  /\ pc = "join" \/ (pc = "poll" /\ (pipe = 0 \/ ~ample))
  /\ TimeIsUp
  /\ Signal("term") /\ Goto("term_join")

(* The loop may also end by the clock between the worker's death and the    *)
(* next poll.                                                               *)
DeadlineFindsDead ==
  /\ pc = "poll" /\ ~ample /\ ~Alive
  /\ Conclude("no_result") /\ UNCHANGED workerVars

(* Mutant of Joined: an answer is taken for the death of the worker. *)
JoinedWithoutDeath == pc = "join" /\ Conclude("result") /\ UNCHANGED workerVars

Joined == pc = "join" /\ ~Alive /\ Conclude("result") /\ UNCHANGED workerVars

(* There is no handler: Ctrl-C leaves the worker to itself. *)
Interrupt ==
  /\ "interrupt" \in Faults
  /\ pc \in Waiting
  /\ pc' = "raised"
  /\ UNCHANGED <<got, outcome, workerVars>>

ControllerStep ==
  \/ Start
  \/ PollEmpty \/ PollBegins \/ CheckAlive \/ CheckDead
  \/ Recv \/ RecvDone
  \/ DeadlineExpires \/ DeadlineFindsDead \/ Joined
  \/ StopWorker

Next ==
  \/ ControllerStep
  \/ Interrupt
  \/ WorkerStep
  \/ Finished

Spec == Init /\ [][Next]_vars
(* The poll loop runs against a clock: its deadline is not postponed for    *)
(* ever by polling again.                                                   *)
FairSpec ==
  Spec /\ WF_vars(ControllerStep) /\ SF_vars(DeadlineExpires) /\ WorkerFairness
-----------------------------------------------------------------------------
(* Every variable holds a value of its kind. *)
TypeOK ==
  /\ WorkerTypeOK
  /\ pc \in Waiting \cup Returned \cup {"start"}

(* A run keeps the promise of IsolatedRun. *)
ImplementsIsolatedRun == Isolated!Spec

(* Draining first keeps the feeder moving: under an ample timeout a worker  *)
(* that has put its payload is never reported as a timeout, however large   *)
(* the payload is.                                                          *)
FinishedIsNoTimeout == ample /\ outcome = "timeout" => ~Produced

(* The controller always returns, whatever the computation does, unless the *)
(* worker dies half way through writing its answer.                         *)
ControllerReturns == <>(pc \in Returned \/ Torn)
-----------------------------------------------------------------------------
(* A claim of the code that it does not keep. *)

(* experiment_pair.py reports "worker exited ... without a result". *)
NoResultMeansNone == ample /\ outcome = "no_result" => ~Produced
=============================================================================
