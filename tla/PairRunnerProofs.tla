---------------------------- MODULE PairRunnerProofs ----------------------------
(***************************************************************************)
(* Proofs about PairRunner, for any payload sizes, pipe capacity and       *)
(* faults.                                                                 *)
(***************************************************************************)
EXTENDS PairRunner, TLAPS

(* No unit of the payload is lost on its way to the controller. *)
PayloadInv ==
  /\ got + pipe + left = size
  /\ wk \in {"absent", "running", "hung"} => size = 0
  /\ wk \in {"flushing", "exited"} => size > 0

(* Where the controller is says what has happened to the worker. *)
ControlInv ==
  /\ pc = "start" <=> wk = "absent"
  /\ pc \in {"recv", "join"} => size > 0
  /\ pc = "join" => got = size
  /\ outcome = "none" <=> pc # "done"
  /\ outcome = "result" => Produced
  /\ pc = "done" => ~Alive

PInv == TypeOK /\ PayloadInv /\ ControlInv

(* run_worker starts in a state of the invariant.                           *)
LEMMA PairInit == ASSUME Init, WorkerAssumption PROVE PInv
  BY DEF Init, PInv, TypeOK, WorkerTypeOK, PayloadInv, ControlInv, Waiting, Returned, Alive,
     Produced, WorkerAssumption

(* Every step of the controller, the worker and the kernel keeps the        *)
(* invariant of run_worker.                                                 *)
LEMMA PairNext == ASSUME PInv, [Next]_vars, WorkerAssumption PROVE PInv'
<1> USE DEF PInv, TypeOK, WorkerTypeOK, PayloadInv, ControlInv, Waiting, Returned, Alive, Produced,
        WorkerAssumption, workerVars, Control, Goto, Conclude, Signal, Become, Outlives
<1>1. CASE Start \/ PollEmpty \/ PollBegins \/ CheckAlive \/ CheckDead
  BY <1>1 DEF Start, Fork, PollEmpty, PollBegins, CheckAlive, CheckDead
<1>2. CASE Recv \/ RecvDone \/ Joined
  BY <1>2 DEF Recv, RecvDone, Joined
<1>3. CASE DeadlineExpires \/ DeadlineFindsDead \/ StopWorker
  BY <1>3 DEF DeadlineExpires, DeadlineFindsDead, StopWorker, TermJoined, TermTimesOut, KillJoined
<1>4. CASE Interrupt
  BY <1>4 DEF Interrupt
<1>5. CASE Finish \/ Feed
  BY <1>5 DEF Finish, Feed
<1>6. CASE Exit \/ Hang \/ Crash \/ DieOnTerm \/ DieOnKill
  BY <1>6 DEF Exit, Hang, Crash, DieOnTerm, DieOnKill
<1>7. CASE Finished \/ UNCHANGED vars
  BY <1>7 DEF Finished, vars
<1> QED
  BY <1>1, <1>2, <1>3, <1>4, <1>5, <1>6, <1>7 DEF Next, ControllerStep, WorkerStep

(* The inductive invariant of run_worker holds in every reachable state.    *)
THEOREM PairInvariant == Spec => []PInv
<1>1. Init => PInv
  BY PairInit, WorkerAssumption
<1>2. PInv /\ [Next]_vars => PInv'
  BY PairNext, WorkerAssumption
<1> QED
  BY <1>1, <1>2, PTL DEF Spec

(* Every variable keeps its type. *)
THEOREM PairTypeCorrect == Spec => []TypeOK
<1>1. PInv => TypeOK
  BY DEF PInv
<1> QED
  BY <1>1, PairInvariant, PTL
-----------------------------------------------------------------------------
(* A run that has not forked its worker is an IsolatedRun that has not      *)
(* begun.                                                                   *)
LEMMA MapsInit == ASSUME Init PROVE Isolated!Init
  BY DEF Init, Isolated!Init, Alive, Produced

(* Every step of run_worker is a step of IsolatedRun or leaves it alone.    *)
LEMMA MapsStep ==
  ASSUME PInv, PInv', [Next]_vars, WorkerAssumption
  PROVE  [Isolated!Next]_(Isolated!vars)
<1> USE DEF PInv, TypeOK, WorkerTypeOK, PayloadInv, ControlInv, Waiting, Returned, Alive, Produced,
        WorkerAssumption, workerVars, Control, Goto, Conclude, Signal, Become, Outlives,
        Isolated!vars, Isolated!Failures
<1>1. CASE Start
  BY <1>1 DEF Start, Fork, Isolated!Next, Isolated!Begin
<1>2. CASE \/ PollEmpty \/ PollBegins \/ CheckAlive \/ Recv \/ RecvDone
           \/ DeadlineExpires \/ TermTimesOut \/ Interrupt
  BY <1>2 DEF PollEmpty, PollBegins, CheckAlive, Recv, RecvDone, DeadlineExpires, TermTimesOut,
     Interrupt
<1>3. CASE CheckDead \/ DeadlineFindsDead \/ Joined \/ TermJoined \/ KillJoined
  BY <1>3 DEF CheckDead, DeadlineFindsDead, Joined, TermJoined, KillJoined,
     Isolated!Next, Isolated!Conclude
<1>4. CASE Feed \/ Hang
  BY <1>4 DEF Feed, Hang
<1>5. CASE Finish
  BY <1>5 DEF Finish, Isolated!Next, Isolated!Produce
<1>6. CASE Exit \/ Crash \/ DieOnTerm \/ DieOnKill
  BY <1>6 DEF Exit, Crash, DieOnTerm, DieOnKill, Isolated!Next, Isolated!End
<1>7. CASE Finished \/ UNCHANGED vars
  BY <1>7 DEF Finished, vars
<1> QED
  BY <1>1, <1>2, <1>3, <1>4, <1>5, <1>6, <1>7 DEF Next, ControllerStep, WorkerStep, StopWorker

(* Whatever fails, a run keeps the promise of IsolatedRun: it is concluded  *)
(* once, after the worker's death, and only with a result that was put.     *)
THEOREM PairImplementsIsolatedRun == Spec => ImplementsIsolatedRun
<1>1. Init => Isolated!Init
  BY MapsInit
<1>2. PInv /\ PInv' /\ [Next]_vars => [Isolated!Next]_(Isolated!vars)
  BY MapsStep, WorkerAssumption
<1> QED
  BY <1>1, <1>2, PairInvariant, PTL DEF Spec, ImplementsIsolatedRun, Isolated!Spec
-----------------------------------------------------------------------------
(* While the timeout is ample only a hung worker is ever signalled. *)
SignalInv == ample =>
  /\ sig # "none" => wk \in {"hung", "dead"} /\ size = 0
  /\ pc \in {"term_join", "kill_join"} => sig # "none"
  /\ outcome = "timeout" => size = 0 /\ wk \in {"dead", "exited"}

(* Under an ample timeout, a worker that has put                            *)
(* its payload is never signalled.                                          *)
LEMMA SignalNext ==
  ASSUME PInv, SignalInv, [Next]_vars, WorkerAssumption
  PROVE  SignalInv'
<1> USE DEF PInv, SignalInv, TypeOK, WorkerTypeOK, PayloadInv, ControlInv, Waiting, Returned,
        Alive, Produced, WorkerAssumption, workerVars, Control, Goto, Conclude, Signal, Become,
        Outlives
<1>1. CASE Start \/ PollEmpty \/ PollBegins \/ CheckAlive \/ CheckDead
  BY <1>1 DEF Start, Fork, PollEmpty, PollBegins, CheckAlive, CheckDead
<1>2. CASE Recv \/ RecvDone \/ Joined
  BY <1>2 DEF Recv, RecvDone, Joined
<1>3. CASE DeadlineExpires
  <2>1. ample => wk = "hung"
    BY <1>3 DEF DeadlineExpires, TimeIsUp, Stuck
  <2> QED
    BY <1>3, <2>1 DEF DeadlineExpires
<1>4. CASE DeadlineFindsDead \/ StopWorker
  BY <1>4 DEF DeadlineFindsDead, StopWorker, TermJoined, TermTimesOut, KillJoined
<1>5. CASE Interrupt
  BY <1>5 DEF Interrupt
<1>6. CASE Finish \/ Feed
  BY <1>6 DEF Finish, Feed
<1>7. CASE Exit \/ Hang \/ Crash \/ DieOnTerm \/ DieOnKill
  BY <1>7 DEF Exit, Hang, Crash, DieOnTerm, DieOnKill
<1>8. CASE Finished \/ UNCHANGED vars
  BY <1>8 DEF Finished, vars
<1> QED
  BY <1>1, <1>2, <1>3, <1>4, <1>5, <1>6, <1>7, <1>8 DEF Next, ControllerStep, WorkerStep

(* Drain before join: under an ample timeout, a worker that has put its     *)
(* payload is never reported as a timeout, however large the payload and    *)
(* however small the pipe.                                                  *)
THEOREM PairFinishedIsNoTimeout == Spec => []FinishedIsNoTimeout
<1>1. Init => SignalInv
  BY DEF Init, SignalInv
<1>2. PInv /\ SignalInv /\ [Next]_vars => SignalInv'
  BY SignalNext, WorkerAssumption
<1>3. SignalInv => FinishedIsNoTimeout
  BY DEF SignalInv, FinishedIsNoTimeout, Produced
<1> QED
  BY <1>1, <1>2, <1>3, PairInvariant, PTL DEF Spec

-----------------------------------------------------------------------------
(* The controller has signalled the worker it waits the end of, and none    *)
(* whose answer it reads; it reads nothing that has not begun.              *)
WaitInv ==
  /\ pc = "term_join" => sig = "term"
  /\ pc = "kill_join" => sig = "kill"
  /\ pc \in {"start", "poll", "check", "recv", "join"} => sig = "none"
  /\ pc = "recv" => got + pipe > 0
  /\ wk = "exited" => left = 0

(* Every step of the run keeps it.                                         *)
LEMMA WaitNext ==
  ASSUME PInv, WaitInv, [Next]_vars, WorkerAssumption
  PROVE  WaitInv'
<1> USE DEF PInv, WaitInv, TypeOK, WorkerTypeOK, PayloadInv, ControlInv, Waiting, Returned, Alive,
        WorkerAssumption, workerVars, Control, Goto, Conclude, Signal, Become, Outlives
<1>1. CASE Start \/ PollEmpty \/ PollBegins \/ CheckAlive \/ CheckDead
  BY <1>1 DEF Start, Fork, PollEmpty, PollBegins, CheckAlive, CheckDead
<1>2. CASE Recv \/ RecvDone \/ Joined
  BY <1>2 DEF Recv, RecvDone, Joined
<1>3. CASE DeadlineExpires \/ DeadlineFindsDead \/ StopWorker
  BY <1>3 DEF DeadlineExpires, DeadlineFindsDead, StopWorker, TermJoined, TermTimesOut, KillJoined
<1>4. CASE Interrupt
  BY <1>4 DEF Interrupt
<1>5. CASE Finish \/ Feed
  BY <1>5 DEF Finish, Feed
<1>6. CASE Exit \/ Hang \/ Crash \/ DieOnTerm \/ DieOnKill
  BY <1>6 DEF Exit, Hang, Crash, DieOnTerm, DieOnKill
<1>7. CASE Finished \/ UNCHANGED vars
  BY <1>7 DEF Finished, vars
<1> QED
  BY <1>1, <1>2, <1>3, <1>4, <1>5, <1>6, <1>7 DEF Next, ControllerStep, WorkerStep

(* Who can take a step, by the guards of the controller and of its worker;  *)
(* a worker that may outlive SIGTERM is not counted on.                     *)
ControllerGoesOn ==
  \/ pc \in {"start", "poll", "check"}
  \/ pc = "recv" /\ (pipe > 0 \/ got = size)
  \/ pc = "join" /\ (~Alive \/ TimeIsUp)
  \/ pc \in {"term_join", "kill_join"} /\ ~Alive
  \/ pc = "term_join" /\ Outlives
WorkerGoesOn ==
  \/ wk = "running"
  \/ wk = "flushing" /\ (left = 0 \/ pipe < Capacity)
  \/ Alive /\ (sig = "kill" \/ (sig = "term" /\ "stubborn" \notin Faults))

(* Whatever the computation does and whatever the payload's size: until the *)
(* controller has returned it can take a step, or its worker can, or the    *)
(* worker has torn its answer.  Nothing else makes them wait for each other.*)
THEOREM PairWaitsOnlyForTorn ==
  Spec => [](pc \notin Returned => ControllerGoesOn \/ WorkerGoesOn \/ Torn)
<1>1. Init => WaitInv
  BY DEF Init, WaitInv
<1>2. PInv /\ WaitInv /\ [Next]_vars => WaitInv'
  BY WaitNext, WorkerAssumption
<1>3. PInv /\ WaitInv => (pc \notin Returned => ControllerGoesOn \/ WorkerGoesOn \/ Torn)
  <2> SUFFICES ASSUME PInv, WaitInv, pc \notin Returned
               PROVE  ControllerGoesOn \/ WorkerGoesOn \/ Torn
    OBVIOUS
  <2> USE DEF PInv, WaitInv, TypeOK, WorkerTypeOK, PayloadInv, ControlInv, Alive, WorkerAssumption,
          ControllerGoesOn, WorkerGoesOn, Outlives
  <2>1. CASE pc \in {"start", "poll", "check", "term_join", "kill_join"}
    BY <2>1
  <2>2. CASE pc = "join"
    BY <2>2, WorkerAssumption DEF TimeIsUp, Stuck
  <2>3. CASE pc = "recv"
    BY <2>3, WorkerAssumption DEF Torn, DiedAlone
  <2> QED
    BY <2>1, <2>2, <2>3 DEF Waiting
<1> QED
  BY <1>1, <1>2, <1>3, PairInvariant, PTL DEF Spec
=============================================================================
