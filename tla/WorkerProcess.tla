----------------------------- MODULE WorkerProcess -----------------------------
(***************************************************************************)
(* The forked GPU worker of experiment.py and the multiprocessing.Queue    *)
(* through which it answers (external: the Python library).                *)
(*                                                                         *)
(* `_worker` computes a payload, turns every exception into a failure      *)
(* payload, and puts it on the queue.  put() only buffers: a feeder thread *)
(* writes the pickled payload to a pipe, and the process cannot exit       *)
(* before the feeder is done.  The pipe holds Capacity units; the feeder   *)
(* of a larger payload waits for the parent to read.                       *)
(***************************************************************************)
EXTENDS Integers

CONSTANTS
  Sizes,     \* sizes a pickled payload may have, in units of the pipe buffer
  Capacity,  \* units the pipe holds
  Faults     \* which events of WorkerFaults may happen

(* "hang": the computation never ends; "crash": the process dies while it   *)
(* computes; "crash_flush": it dies while its feeder writes; "stubborn":    *)
(* SIGTERM need not kill it; "interrupt": Ctrl-C in the controller.         *)
WorkerFaults == {"hang", "crash", "crash_flush", "stubborn", "interrupt"}

ASSUME WorkerAssumption ==
  /\ Capacity \in Nat \ {0}
  /\ Sizes \subseteq Nat \ {0}
  /\ Faults \subseteq WorkerFaults

VARIABLES
  wk,      \* "absent", "running", "hung", "flushing", "exited" or "dead"
  sig,     \* strongest signal sent: "none", "term" or "kill"
  size,    \* size of the payload that was put, 0 before
  left,    \* units the feeder has still to write
  pipe,    \* units in the pipe
  ample,   \* the timeout is longer than every computation that ends
  pc,      \* where the controller is
  got,     \* units of the payload it has read
  outcome  \* what it tells its caller, "none" before

workerVars == <<wk, sig, size, left, pipe, ample>>
vars == <<wk, sig, size, left, pipe, ample, pc, got, outcome>>

WorkerTypeOK ==
  /\ wk \in {"absent", "running", "hung", "flushing", "exited", "dead"}
  /\ sig \in {"none", "term", "kill"}
  /\ size \in Sizes \cup {0}
  /\ left \in 0 .. size
  /\ pipe \in 0 .. Capacity
  /\ ample \in BOOLEAN
  /\ got \in 0 .. size
  /\ outcome \in {"none", "result", "timeout", "no_result", "interruption"}

Init ==
  /\ wk = "absent" /\ sig = "none" /\ size = 0 /\ left = 0 /\ pipe = 0
  /\ ample \in BOOLEAN
  /\ pc = "start" /\ got = 0 /\ outcome = "none"

Alive == wk \in {"running", "hung", "flushing"}
Produced == size > 0

(* The worker waits for somebody else, or for ever. *)
Stuck == wk = "hung" \/ (wk = "flushing" /\ left > 0 /\ pipe = Capacity)

(* A timeout that is not ample may strike at any moment. *)
TimeIsUp == Alive /\ (Stuck \/ ~ample)

(* The worker died, but not of a signal of the controller. *)
DiedAlone == wk = "dead" /\ sig = "none"

(* It did so between the first and the last unit of its payload. *)
Torn == DiedAlone /\ left > 0 /\ got + pipe > 0

-----------------------------------------------------------------------------
(* The worker.  Its steps leave the controller alone. *)

Control == <<pc, got, outcome>>

(* backend.run returned or raised, and _worker calls output.put. *)
Finish ==
  /\ wk = "running"
  /\ \E n \in Sizes : size' = n /\ left' = n
  /\ wk' = "flushing"
  /\ UNCHANGED <<sig, pipe, ample, Control>>

Feed ==
  /\ wk = "flushing" /\ left > 0 /\ pipe < Capacity
  /\ left' = left - 1 /\ pipe' = pipe + 1
  /\ UNCHANGED <<wk, sig, size, ample, Control>>

Become(state) == wk' = state /\ UNCHANGED <<sig, size, left, pipe, ample, Control>>

Exit == wk = "flushing" /\ left = 0 /\ Become("exited")

Hang == "hang" \in Faults /\ wk = "running" /\ Become("hung")

Crash ==
  /\ \/ "crash" \in Faults /\ wk \in {"running", "hung"}
     \/ "crash_flush" \in Faults /\ wk = "flushing"
  /\ Become("dead")

(* SIGTERM has its default disposition, but a process stuck in the driver   *)
(* may outlive the five seconds it is given.                                *)
DieOnTerm == sig = "term" /\ Alive /\ Become("dead")
DieOnKill == sig = "kill" /\ Alive /\ Become("dead")
Outlives == Alive /\ sig = "term" /\ "stubborn" \in Faults

WorkerStep == Finish \/ Feed \/ Exit \/ Hang \/ Crash \/ DieOnTerm \/ DieOnKill

(* The operating system schedules the worker, its feeder and its death; a   *)
(* running computation ends or hangs.  A stubborn worker need not heed      *)
(* SIGTERM.                                                                 *)
WorkerFairness ==
  /\ WF_vars(Finish \/ Hang)
  /\ WF_vars(Feed)
  /\ WF_vars(Exit)
  /\ WF_vars(DieOnKill)
  /\ "stubborn" \notin Faults => WF_vars(DieOnTerm)
-----------------------------------------------------------------------------
(* What the two controllers do alike. *)

Goto(p) == pc' = p /\ UNCHANGED <<got, outcome>>
Conclude(o) == pc' = "done" /\ outcome' = o /\ UNCHANGED got
Signal(s) == sig' = s /\ UNCHANGED <<wk, size, left, pipe, ample>>

Fork(p) ==
  /\ pc = "start" /\ Goto(p)
  /\ wk' = "running" /\ UNCHANGED <<sig, size, left, pipe, ample>>

(* recv_bytes: once a payload has begun, all of it is awaited, with no      *)
(* timeout.                                                                 *)
Recv ==
  /\ pc = "recv" /\ got < size
  /\ pipe > 0 /\ pipe' = pipe - 1 /\ got' = got + 1
  /\ UNCHANGED <<wk, sig, size, left, ample, pc, outcome>>

(* Mutant of TermTimesOut: no SIGKILL after SIGTERM. *)
TermGivesUp == pc = "term_join" /\ Outlives /\ Conclude("timeout") /\ UNCHANGED workerVars

(* Mutant of TermTimesOut: the second join waits without a SIGKILL. *)
TermForgetsKill == pc = "term_join" /\ Outlives /\ Goto("kill_join") /\ UNCHANGED workerVars

(* terminate, join(5), then kill, join: the worker is gone afterwards. *)
TermJoined == pc = "term_join" /\ ~Alive /\ Conclude("timeout") /\ UNCHANGED workerVars
TermTimesOut == pc = "term_join" /\ Outlives /\ Signal("kill") /\ Goto("kill_join")
KillJoined == pc = "kill_join" /\ ~Alive /\ Conclude("timeout") /\ UNCHANGED workerVars
StopWorker == TermJoined \/ TermTimesOut \/ KillJoined

Returned == {"done", "raised"}

(* The caller goes on with whatever it was given. *)
Finished == pc \in Returned /\ UNCHANGED vars

(* The run as IsolatedRun sees it. *)
Isolated == INSTANCE IsolatedRun WITH
  begun <- wk # "absent", alive <- Alive, produced <- Produced, verdict <- outcome
=============================================================================
