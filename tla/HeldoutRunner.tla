----------------------------- MODULE HeldoutRunner -----------------------------
(***************************************************************************)
(* run_heldout_evaluation (src/src/matmul_inspector/                       *)
(* tensor_game_heldout_runner.py) and its TrialStore                       *)
(* (tensor_game_heldout_execution.py): the frozen schedule of trials, run  *)
(* one after the other by an invocation that may be stopped at any moment  *)
(* and resumed by another.  One file per trial and progress.json, each     *)
(* replaced atomically, are all that outlives an invocation.               *)
(*                                                                         *)
(* Invocations follow one another; two at a time are not modelled.         *)
(***************************************************************************)
EXTENDS Integers, FiniteSets, Functions

CONSTANTS
  Trials,          \* length of the schedule; a trial is its place in it
  ProgressEvery,   \* progress_every
  Protocols,       \* digests of the addendum and its checkpoints
  MaxInvocations,  \* bound on the invocations TLC explores
  NoRecord, NoProtocol

ASSUME HeldoutConstants ==
  /\ Trials \in Nat \ {0}
  /\ ProgressEvery \in Nat \ {0}
  /\ MaxInvocations \in Nat
  /\ NoProtocol \notin Protocols

Schedule == 1 .. Trials
EpisodeStatus == {"completed_success", "bounded_search_failure", "episode_timeout", "interrupted"}
Record == [status : EpisodeStatus \cup {"infrastructure_failure"}, protocol : Protocols]
ASSUME NoRecordAssumption == NoRecord \notin Record

VARIABLES
  manifest,   \* protocol in resume_manifest.json
  store,      \* trials/<trial_id>.json
  progress,   \* "recorded" in progress.json
  pc,         \* where the invocation is
  protocol,   \* the protocol it was given
  completed,  \* the trials it found recorded
  at,         \* the trial it is at
  executed,   \* trials it has executed
  status,     \* status of the record it is about to write
  started,    \* history: invocations
  stopped,    \* history: invocations that did not return
  attempts    \* history: episodes run, per trial

files == <<manifest, store, progress>>
memory == <<protocol, completed, at, executed, status>>
vars == <<files, pc, memory, started, stopped, attempts>>

Recorded == {t \in Schedule : store[t] # NoRecord}
Idle == {"new", "returned", "stopped"}

Init ==
  /\ manifest = NoProtocol
  /\ store = [t \in Schedule |-> NoRecord] /\ progress = 0
  /\ pc = "new"
  /\ protocol = NoProtocol /\ completed = {} /\ at = 1 /\ executed = 0
  /\ status = "none"
  /\ started = 0 /\ stopped = 0 /\ attempts = [t \in Schedule |-> 0]

Goto(l) == pc' = l /\ UNCHANGED <<started, stopped>>
Stop == pc' = "stopped" /\ stopped' = stopped + 1 /\ UNCHANGED started
-----------------------------------------------------------------------------
(* An accepted start: approved, without --resume the first time, with it    *)
(* ever after.  A refused one changes nothing.                             *)
Invoke(p) ==
  /\ pc \in Idle /\ started < MaxInvocations
  /\ started' = started + 1
  /\ protocol' = p
  /\ pc' = "bind"
  /\ UNCHANGED <<manifest, store, progress, completed, at, executed, status, stopped, attempts>>

(* Mutant of Bind: the manifest is written by every invocation. *)
BindAnew ==
  /\ pc = "bind"
  /\ manifest' = protocol
  /\ Goto("recover")
  /\ UNCHANGED <<store, progress, memory, attempts>>

(* The first invocation that gets here binds the directory to its protocol. *)
Bind ==
  /\ pc = "bind"
  /\ manifest \in {NoProtocol, protocol}
  /\ manifest' = protocol
  /\ Goto("recover")
  /\ UNCHANGED <<store, progress, memory, attempts>>
Conflict ==
  /\ pc = "bind"
  /\ manifest \notin {NoProtocol, protocol}
  /\ Stop
  /\ UNCHANGED <<files, memory, attempts>>

(* Mutant of RecoverProgress: progress.json is taken for the records. *)
RecoverFromProgress ==
  /\ pc = "recover"
  /\ completed' = 1 .. progress
  /\ at' = 1 /\ executed' = 0
  /\ Goto("loop")
  /\ UNCHANGED <<files, protocol, status, attempts>>

(* recover_progress, completed_trial_ids *)
RecoverProgress ==
  /\ pc = "recover"
  /\ progress' = Cardinality(Recorded)
  /\ completed' = Recorded
  /\ at' = 1 /\ executed' = 0
  /\ Goto("loop")
  /\ UNCHANGED <<manifest, store, protocol, status, attempts>>
-----------------------------------------------------------------------------
(* The loop over the schedule *)

(* Mutant of Skip: the loop does not get past a recorded trial. *)
SkipInPlace ==
  /\ pc = "loop" /\ at \in completed
  /\ UNCHANGED vars

Skip ==
  /\ pc = "loop" /\ at \in completed
  /\ at' = at + 1
  /\ UNCHANGED <<files, pc, protocol, completed, executed, status, started, stopped, attempts>>

RunEpisode ==
  /\ pc = "loop" /\ at \in Schedule \ completed
  /\ attempts' = [attempts EXCEPT ![at] = @ + 1]
  /\ Goto("episode")
  /\ UNCHANGED <<files, memory>>

(* run_episode returns, and record_from_episode names its outcome. *)
EpisodeEnds(s) ==
  /\ pc = "episode"
  /\ status' = s
  /\ Goto("write")
  /\ UNCHANGED <<files, protocol, completed, at, executed, attempts>>

(* Mutant of EpisodeFails: a failed trial is passed over. *)
EpisodeFailsUnrecorded ==
  /\ pc \in {"episode", "write"}
  /\ Goto("count")
  /\ UNCHANGED <<files, memory, attempts>>

(* `except Exception`: the episode, or writing its record, failed. *)
EpisodeFails ==
  /\ pc \in {"episode", "write"}
  /\ status' = "infrastructure_failure"
  /\ Goto("write_failure")
  /\ UNCHANGED <<files, protocol, completed, at, executed, attempts>>

(* `except KeyboardInterrupt`: also after the record was written, while the *)
(* call of TrialStore.write returns.                                       *)
Interrupt ==
  /\ pc \in {"episode", "write", "written"}
  /\ status' = "interrupted"
  /\ Goto("write_interrupted")
  /\ UNCHANGED <<files, protocol, completed, at, executed, attempts>>

(* TrialStore.write of a record that is not there yet. *)
WriteRecord(l) ==
  /\ store[at] = NoRecord
  /\ store' = [store EXCEPT ![at] = [status |-> status, protocol |-> protocol]]
  /\ Goto(l)
  /\ UNCHANGED <<manifest, progress, memory, attempts>>

Write == pc = "write" /\ WriteRecord("written")
Written == pc = "written" /\ Goto("count") /\ UNCHANGED <<files, memory, attempts>>
WriteFailure == pc = "write_failure" /\ WriteRecord("count")
WriteInterrupted == pc = "write_interrupted" /\ WriteRecord("interrupted_progress")

(* "conflicting duplicate trial result": the ValueError replaces the        *)
(* KeyboardInterrupt, and progress.json is not updated.                    *)
RejectDuplicate ==
  /\ pc = "write_interrupted" /\ store[at] # NoRecord
  /\ Stop
  /\ UNCHANGED <<files, memory, attempts>>

Save == progress' = Cardinality(Recorded) /\ UNCHANGED <<manifest, store, attempts>>

InterruptedProgress ==
  /\ pc = "interrupted_progress"
  /\ Save /\ Stop
  /\ UNCHANGED memory

(* Mutant of Count: progress.json is only updated at the end. *)
CountSilently ==
  /\ pc = "count"
  /\ executed' = executed + 1 /\ at' = at + 1
  /\ Goto("loop")
  /\ UNCHANGED <<files, protocol, completed, status, attempts>>

Count ==
  /\ pc = "count"
  /\ executed' = executed + 1 /\ at' = at + 1
  /\ Goto(IF executed' % ProgressEvery = 0 THEN "progress" ELSE "loop")
  /\ UNCHANGED <<files, protocol, completed, status, attempts>>

Progress ==
  /\ pc = "progress"
  /\ Save /\ Goto("loop")
  /\ UNCHANGED memory

(* Mutant of Finish: the last trials are not reported. *)
FinishUnsaved ==
  /\ pc = "loop" /\ at > Trials
  /\ Goto("returned")
  /\ UNCHANGED <<files, memory, attempts>>

Finish ==
  /\ pc = "loop" /\ at > Trials
  /\ Save /\ Goto("returned")
  /\ UNCHANGED memory

(* The process is killed, an exception leaves run_heldout_evaluation, or a  *)
(* Ctrl-C hits it outside the try block.                                   *)
Escape ==
  /\ pc \notin Idle
  /\ Stop
  /\ UNCHANGED <<files, memory, attempts>>

Step ==
  \/ Bind \/ Conflict \/ RecoverProgress
  \/ Skip \/ RunEpisode
  \/ \E s \in EpisodeStatus : EpisodeEnds(s)
  \/ EpisodeFails
  \/ Write \/ Written \/ WriteFailure
  \/ WriteInterrupted \/ RejectDuplicate \/ InterruptedProgress
  \/ Count \/ Progress \/ Finish

Next ==
  \/ \E p \in Protocols : Invoke(p)
  \/ Step
  \/ Interrupt
  \/ Escape

Spec == Init /\ [][Next]_vars

(* An invocation keeps taking steps: every episode ends, since it has a     *)
(* move limit and a wall-time limit.  Invocations are not fair.             *)
FairSpec == Spec /\ WF_vars(Step)
-----------------------------------------------------------------------------
(* Every variable holds a value of its kind. *)
TypeOK ==
  /\ manifest \in Protocols \cup {NoProtocol}
  /\ store \in [Schedule -> Record \cup {NoRecord}]
  /\ progress \in 0 .. Trials
  /\ pc \in Idle \cup {"bind", "recover", "loop", "episode", "write", "written", "write_failure",
                       "write_interrupted", "interrupted_progress", "count", "progress"}
  /\ protocol \in Protocols \cup {NoProtocol}
  /\ completed \subseteq Schedule
  /\ at \in 1 .. Trials + 1 /\ executed \in 0 .. Trials
  /\ status \in EpisodeStatus \cup {"none", "infrastructure_failure"}
  /\ started \in Nat /\ stopped \in Nat
  /\ attempts \in [Schedule -> Nat]

(* docs/tensor_game_heldout_protocol.md: "There is no automatic retry", and *)
(* a crash "cannot cause that trial to execute twice": once a trial has a   *)
(* record, of whatever outcome, no invocation ever changes the record or    *)
(* runs the trial again.                                                    *)
RecordsAreFinal ==
  [][\A t \in Recorded : store'[t] = store[t] /\ attempts'[t] = attempts[t]]_vars

(* An invocation that does not return loses at most the one episode it was  *)
(* running: however often the evaluation is stopped and resumed, all other  *)
(* episodes ever run have their record.                                     *)
StopsLoseOneEpisode ==
  LET running == IF pc \in {"episode", "write", "write_failure", "write_interrupted"} THEN 1 ELSE 0
  IN SumFunction(attempts) <= Cardinality(Recorded) + stopped + running

(* "a resume manifest bound to protocol and checkpoint digests": all the    *)
(* records of a directory were made under the protocol of its manifest,     *)
(* even if invocations under different protocols were stopped in turns.     *)
RecordsFollowManifest == \A t \in Recorded : store[t].protocol = manifest

(* progress.json never claims a record that is not there, and lags behind   *)
(* the records by at most progress_every, whatever stopped the invocation.  *)
ProgressLags ==
  /\ progress <= Cardinality(Recorded)
  /\ Cardinality(Recorded) <= progress + ProgressEvery

(* An invocation that returns leaves no trial behind, and says so.          *)
ReturnedIsComplete == pc = "returned" => Recorded = Schedule /\ progress = Trials

(* An invocation that is not stopped gets through its schedule.             *)
InvocationEnds == pc \notin Idle ~> pc \in Idle
=============================================================================
