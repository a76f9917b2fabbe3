------------------------ MODULE ExperimentRunnerProofs ------------------------
(***************************************************************************)
(* Proofs about ExperimentRunner, for any payload sizes, pipe capacity and *)
(* faults.                                                                 *)
(***************************************************************************)
EXTENDS ExperimentRunner, TLAPS

(* No unit of the payload is lost or made up on its way to the controller,  *)
(* and there is one to find as soon as there is a payload.                  *)
PayloadInv ==
  /\ got + pipe + left = size
  /\ wk \in {"absent", "running", "hung"} => size = 0
  /\ wk \in {"flushing", "exited"} => size > 0
  /\ wk = "exited" => left = 0

(* Where the controller is says what has happened to the worker.           *)
ControlInv ==
  /\ pc = "start" <=> wk = "absent"
  /\ pc \in {"get", "recv"} => ~Alive
  /\ pc = "recv" => size > 0
  /\ outcome = "none" <=> pc # "done"
  /\ outcome = "result" => Produced
  /\ pc = "done" /\ outcome # "interruption" => ~Alive

RInv == TypeOK /\ PayloadInv /\ ControlInv

(* run_experiment starts in a state of the invariant.                       *)
LEMMA RunnerInit == ASSUME Init, WorkerAssumption PROVE RInv
  BY DEF Init, RInv, TypeOK, WorkerTypeOK, PayloadInv, ControlInv, Waiting, Returned, Alive,
     Produced, WorkerAssumption

(* Every step of the controller, the worker and the kernel keeps the        *)
(* invariant of run_experiment.                                             *)
LEMMA RunnerNext == ASSUME RInv, [Next]_vars, WorkerAssumption PROVE RInv'
<1> USE DEF RInv, TypeOK, WorkerTypeOK, PayloadInv, ControlInv, Waiting, Returned, Alive, Produced,
        WorkerAssumption, workerVars, Control, Goto, Conclude, Signal, Become, Outlives
<1>1. CASE Start \/ JoinReturns \/ JoinTimesOut
  BY <1>1 DEF Start, Fork, JoinReturns, JoinTimesOut
<1>2. CASE StopWorker
  BY <1>2 DEF StopWorker, TermJoined, TermTimesOut, KillJoined
<1>3. CASE GetEmpty \/ GetBegins \/ Recv \/ RecvDone
  BY <1>3 DEF GetEmpty, GetBegins, Recv, RecvDone
<1>4. CASE InterruptJoined \/ InterruptGivesUp \/ Interrupt \/ InterruptEscapes
  BY <1>4 DEF InterruptJoined, InterruptGivesUp, Interrupt, InterruptEscapes
<1>5. CASE Finish
  BY <1>5 DEF Finish
<1>6. CASE Feed
  BY <1>6 DEF Feed
<1>7. CASE Exit \/ Hang \/ Crash \/ DieOnTerm \/ DieOnKill
  BY <1>7 DEF Exit, Hang, Crash, DieOnTerm, DieOnKill
<1>8. CASE Finished \/ UNCHANGED vars
  BY <1>8 DEF Finished, vars
<1> QED
  BY <1>1, <1>2, <1>3, <1>4, <1>5, <1>6, <1>7, <1>8 DEF Next, ControllerStep, WorkerStep

(* The inductive invariant of run_experiment holds in every reachable       *)
(* state.                                                                   *)
THEOREM RunnerInvariant == Spec => []RInv
<1>1. Init => RInv
  BY RunnerInit, WorkerAssumption
<1>2. RInv /\ [Next]_vars => RInv'
  BY RunnerNext, WorkerAssumption
<1> QED
  BY <1>1, <1>2, PTL DEF Spec

(* Every variable keeps its type. *)
THEOREM RunnerTypeCorrect == Spec => []TypeOK
<1>1. RInv => TypeOK
  BY DEF RInv
<1> QED
  BY <1>1, RunnerInvariant, PTL

(* A run that has not forked its worker is an IsolatedRun that has not      *)
(* begun.                                                                   *)
LEMMA MapsInit == ASSUME Init PROVE Isolated!Init
  BY DEF Init, Isolated!Init, Alive, Produced

(* Every step of run_experiment is a step of IsolatedRun or leaves it       *)
(* alone.                                                                   *)
LEMMA MapsStep ==
  ASSUME RInv, RInv', [Next]_vars, WorkerAssumption
  PROVE  [Isolated!Next]_(Isolated!vars)
<1> USE DEF RInv, TypeOK, WorkerTypeOK, PayloadInv, ControlInv, Waiting, Returned, Alive, Produced,
        WorkerAssumption, workerVars, Control, Goto, Conclude, Signal, Become, Outlives,
        Isolated!vars, Isolated!Failures
<1>1. CASE Start
  BY <1>1 DEF Start, Fork, Isolated!Next, Isolated!Begin
<1>2. CASE JoinReturns \/ JoinTimesOut \/ GetBegins \/ Recv \/ TermTimesOut
  BY <1>2 DEF JoinReturns, JoinTimesOut, GetBegins, Recv, TermTimesOut
<1>3. CASE TermJoined \/ KillJoined \/ GetEmpty \/ RecvDone \/ InterruptJoined \/ InterruptGivesUp
  BY <1>3 DEF TermJoined, KillJoined, GetEmpty, RecvDone, InterruptJoined, InterruptGivesUp,
     Isolated!Next, Isolated!Conclude
<1>4. CASE Interrupt
  <2>1. CASE Alive
    BY <1>4, <2>1 DEF Interrupt
  <2>2. CASE ~Alive
    BY <1>4, <2>2 DEF Interrupt, Isolated!Next, Isolated!Conclude
  <2> QED
    BY <2>1, <2>2
<1>5. CASE InterruptEscapes \/ Feed \/ Hang
  BY <1>5 DEF InterruptEscapes, Feed, Hang
<1>6. CASE Finish
  BY <1>6 DEF Finish, Isolated!Next, Isolated!Produce
<1>7. CASE Exit \/ Crash \/ DieOnTerm \/ DieOnKill
  BY <1>7 DEF Exit, Crash, DieOnTerm, DieOnKill, Isolated!Next, Isolated!End
<1>8. CASE Finished \/ UNCHANGED vars
  BY <1>8 DEF Finished, vars
<1> QED
  BY <1>1, <1>2, <1>3, <1>4, <1>5, <1>6, <1>7, <1>8
  DEF Next, ControllerStep, WorkerStep, StopWorker

(* Whatever fails, a run keeps the promise of IsolatedRun: it is concluded  *)
(* once, only with a result that was put, and, unless it is interrupted,    *)
(* after the worker's death.                                                *)
THEOREM RunnerImplementsIsolatedRun == Spec => ImplementsIsolatedRun
<1>1. Init => Isolated!Init
  BY MapsInit
<1>2. RInv /\ RInv' /\ [Next]_vars => [Isolated!Next]_(Isolated!vars)
  BY MapsStep, WorkerAssumption
<1> QED
  BY <1>1, <1>2, RunnerInvariant, PTL DEF Spec, ImplementsIsolatedRun, Isolated!Spec
-----------------------------------------------------------------------------
(* While the timeout is ample and nobody interrupts the run: a worker whose *)
(* payload fits the pipe is never stuck, so only a hung one is signalled,   *)
(* and the queue is found full when the worker is gone.                     *)
Undisturbed == ample /\ pc \notin {"int_join", "raised"} /\ outcome # "interruption"

DeliveryInv ==
  /\ pc \in {"term_join", "kill_join"} => sig # "none"
  /\ pc \notin {"recv", "done"} => got = 0
  /\ Undisturbed /\ size <= Capacity /\ sig # "none" => wk \in {"hung", "dead"} /\ size = 0
  /\ Undisturbed /\ pc = "done" /\ size > 0 /\ size <= Capacity /\ ~DiedAlone =>
       outcome = "result"

(* No undisturbed step can conclude a run whose payload fits the pipe with  *)
(* anything but that payload.                                               *)
LEMMA DeliveryNext ==
  ASSUME RInv, DeliveryInv, [Next]_vars, WorkerAssumption
  PROVE  DeliveryInv'
<1> USE DEF RInv, DeliveryInv, Undisturbed, TypeOK, WorkerTypeOK, PayloadInv, ControlInv, Waiting,
        Returned, Alive, Produced, DiedAlone, WorkerAssumption, workerVars, Control, Goto,
        Conclude, Signal, Become, Outlives
<1>1. CASE Start \/ JoinReturns
  BY <1>1 DEF Start, Fork, JoinReturns
<1>2. CASE JoinTimesOut
  <2>1. ample /\ size <= Capacity => wk = "hung"
    BY <1>2 DEF JoinTimesOut, TimeIsUp, Stuck
  <2> QED
    BY <1>2, <2>1 DEF JoinTimesOut
<1>3. CASE StopWorker
  BY <1>3 DEF StopWorker, TermJoined, TermTimesOut, KillJoined
<1>4. CASE GetEmpty \/ GetBegins \/ Recv \/ RecvDone
  BY <1>4 DEF GetEmpty, GetBegins, Recv, RecvDone
<1>5. CASE InterruptJoined \/ InterruptGivesUp \/ Interrupt \/ InterruptEscapes
  BY <1>5 DEF InterruptJoined, InterruptGivesUp, Interrupt, InterruptEscapes
<1>6. CASE Finish \/ Feed
  BY <1>6 DEF Finish, Feed
<1>7. CASE Exit \/ Hang \/ Crash \/ DieOnTerm \/ DieOnKill
  BY <1>7 DEF Exit, Hang, Crash, DieOnTerm, DieOnKill
<1>8. CASE Finished \/ UNCHANGED vars
  BY <1>8 DEF Finished, vars
<1> QED
  BY <1>1, <1>2, <1>3, <1>4, <1>5, <1>6, <1>7, <1>8 DEF Next, ControllerStep, WorkerStep

(* For all payload sizes, capacities and faults: under an ample timeout a   *)
(* payload that fits the pipe is lost only to an interruption or to the     *)
(* worker's own death.  Join-before-read loses none.                        *)
THEOREM RunnerDelivers == Spec => []ResultsDelivered
<1>1. Init => DeliveryInv
  BY DEF Init, DeliveryInv
<1>2. RInv /\ DeliveryInv /\ [Next]_vars => DeliveryInv'
  BY DeliveryNext, WorkerAssumption
<1>3. DeliveryInv => ResultsDelivered
  BY DEF DeliveryInv, Undisturbed, ResultsDelivered, Produced
<1> QED
  BY <1>1, <1>2, <1>3, RunnerInvariant, PTL DEF Spec

-----------------------------------------------------------------------------
(* The controller has signalled the worker it waits the end of, and no      *)
(* worker whose answer it reads; it reads nothing that has not begun.       *)
WaitInv ==
  /\ pc \in {"term_join", "int_join"} => sig = "term"
  /\ pc = "kill_join" => sig = "kill"
  /\ pc \in {"start", "join", "get", "recv"} => sig = "none"
  /\ pc = "recv" => got + pipe > 0

(* Every step of the run keeps it.                                         *)
LEMMA WaitNext ==
  ASSUME RInv, WaitInv, [Next]_vars, WorkerAssumption
  PROVE  WaitInv'
<1> USE DEF RInv, WaitInv, TypeOK, WorkerTypeOK, PayloadInv, ControlInv, Waiting, Returned, Alive,
        WorkerAssumption, workerVars, Control, Goto, Conclude, Signal, Become, Outlives
<1>1. CASE Start \/ JoinReturns \/ JoinTimesOut \/ StopWorker
  BY <1>1 DEF Start, Fork, JoinReturns, JoinTimesOut, StopWorker, TermJoined, TermTimesOut, KillJoined
<1>2. CASE GetEmpty \/ GetBegins \/ Recv \/ RecvDone
  BY <1>2 DEF GetEmpty, GetBegins, Recv, RecvDone
<1>3. CASE InterruptJoined \/ InterruptGivesUp \/ Interrupt \/ InterruptEscapes
  BY <1>3 DEF InterruptJoined, InterruptGivesUp, Interrupt, InterruptEscapes
<1>4. CASE Finish \/ Feed
  BY <1>4 DEF Finish, Feed
<1>5. CASE Exit \/ Hang \/ Crash \/ DieOnTerm \/ DieOnKill
  BY <1>5 DEF Exit, Hang, Crash, DieOnTerm, DieOnKill
<1>6. CASE Finished \/ UNCHANGED vars
  BY <1>6 DEF Finished, vars
<1> QED
  BY <1>1, <1>2, <1>3, <1>4, <1>5, <1>6 DEF Next, ControllerStep, WorkerStep

(* Who can take a step, by the guards of the controller and of its worker;  *)
(* a worker that may outlive SIGTERM is not counted on.                     *)
ControllerGoesOn ==
  \/ pc \in {"start", "get"}
  \/ pc = "join" /\ (~Alive \/ TimeIsUp)
  \/ pc \in {"term_join", "kill_join", "int_join"} /\ ~Alive
  \/ pc = "recv" /\ (pipe > 0 \/ got = size)
  \/ pc \in {"term_join", "int_join"} /\ Outlives
WorkerGoesOn ==
  \/ wk = "running"
  \/ wk = "flushing" /\ (left = 0 \/ pipe < Capacity)
  \/ Alive /\ (sig = "kill" \/ (sig = "term" /\ "stubborn" \notin Faults))

(* Whatever the computation does and whatever the payload's size: until the *)
(* controller has returned it can take a step, or its worker can, or the    *)
(* worker has torn its answer.  Nothing else makes them wait for each other.*)
THEOREM RunnerWaitsOnlyForTorn ==
  Spec => [](pc \notin Returned => ControllerGoesOn \/ WorkerGoesOn \/ Torn)
<1>1. Init => WaitInv
  BY DEF Init, WaitInv
<1>2. RInv /\ WaitInv /\ [Next]_vars => WaitInv'
  BY WaitNext, WorkerAssumption
<1>3. RInv /\ WaitInv => (pc \notin Returned => ControllerGoesOn \/ WorkerGoesOn \/ Torn)
  <2> SUFFICES ASSUME RInv, WaitInv, pc \notin Returned
               PROVE  ControllerGoesOn \/ WorkerGoesOn \/ Torn
    OBVIOUS
  <2> USE DEF RInv, WaitInv, TypeOK, WorkerTypeOK, PayloadInv, ControlInv, Alive, WorkerAssumption,
          ControllerGoesOn, WorkerGoesOn, Outlives
  <2>1. CASE pc \in {"start", "get", "term_join", "kill_join", "int_join"}
    BY <2>1
  <2>2. CASE pc = "join"
    BY <2>2, WorkerAssumption DEF TimeIsUp, Stuck
  <2>3. CASE pc = "recv"
    BY <2>3, WorkerAssumption DEF Torn, DiedAlone
  <2> QED
    BY <2>1, <2>2, <2>3 DEF Waiting
<1> QED
  BY <1>1, <1>2, <1>3, RunnerInvariant, PTL DEF Spec
=============================================================================
