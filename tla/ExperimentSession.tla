--------------------------- MODULE ExperimentSession ---------------------------
(***************************************************************************)
(* Persistent, budgeted search sessions                                    *)
(* (src/src/matmul_inspector/experiment_session.py).                       *)
(*                                                                         *)
(* A session directory holds session.json (the proposals, the rejected     *)
(* ids, the candidate fingerprints and the budget), one directory per      *)
(* proposal with proposal_state.json and the batch artifacts, and a flock  *)
(* file.  Every `submit` and `recover` command is a process: it takes the  *)
(* lock without blocking, loads session.json into memory, works on the     *)
(* copy and writes the copy back.  A crash loses the copy and keeps the    *)
(* files.  The batch runner is modelled at the grain its files show: it    *)
(* opens a batch, invokes the single-experiment runner, records the        *)
(* invocation, persists batch_results.json, and finishes.                  *)
(***************************************************************************)
EXTENDS Integers, Sequences, FiniteSets, Functions

CONSTANTS
  Procs,        \* controller processes that run the session CLI
  NoProc,       \* value of `lock` when the flock is free
  Ids,          \* well-formed proposal identifiers
  NoId,         \* value of `cur` while a process handles no proposal
  BadIds,       \* JSON values that are no identifier and cannot be hashed
  Submissions,  \* the raw proposals an operator may submit
  Total,        \* total_experiment_budget
  Faults        \* which events of FaultKinds the environment may cause

(* "interrupt": Ctrl-C; "kill": death of the controller; "escape": an       *)
(* OSError while a file is written; "invalid": the batch finds a candidate  *)
(* invalid although the session accepted it; "survive": a worker that does  *)
(* not die on SIGTERM; "tear": a worker that dies inside its payload.       *)
FaultKinds == {"interrupt", "kill", "escape", "invalid", "survive", "tear"}

Fingerprints == UNION {{s.cands[i].fp : i \in DOMAIN s.cands} : s \in Submissions}

ASSUME ConstantsOK ==
  /\ NoProc \notin Procs
  /\ NoId \notin Ids
  /\ Ids \cap BadIds = {}
  /\ Total \in Nat \ {0}
  /\ Faults \subseteq FaultKinds
  /\ \A s \in Submissions :
       /\ s.id \in Ids \cup BadIds
       /\ s.id \in BadIds => ~s.wellformed
       /\ s.reps * Len(s.cands) \in Nat
       /\ s.wellformed => /\ s.reps \in Nat \ {0}
                          /\ s.reps * Len(s.cands) > 0

-----------------------------------------------------------------------------
(* Durable state *)
VARIABLES
  session,   \* session.json
  dirs,      \* proposals/<id> directories that exist
  rec,       \* proposals/<id>/proposal_state.json
  batch,     \* the batch_results.json below proposals/<id>/batches

(* Volatile state *)
  lock,      \* process whose open file description holds the flock
  pc,        \* where each process is in submit_proposal / recover_session
  cur,       \* the proposal a process works on
  mem,       \* its copy of session.json
  run,       \* its in-memory batch record
  worker,    \* the GPU worker a process has forked

(* History: what really happened on the machine *)
  launched,  \* invocations of run_experiment, per proposal
  durable    \* of those, how many left a conclusive result.json

vars == <<session, dirs, rec, batch, lock, pc, cur, mem, run, worker, launched, durable>>
-----------------------------------------------------------------------------
(* Mutant of Recoverable: a failed proposal can be recovered again. *)
RecoverableTooWide == {"accepted", "running", "needs_reconciliation", "failed"}

Terminal    == {"completed", "failed", "interrupted"}
Recoverable == {"accepted", "running", "needs_reconciliation"}
FinalBatch  == {"success", "completed_with_failures", "interrupted", "configuration_failed"}
Resolutions == {"inspect", "consume", "release"}

(* A proposal record.  `linked` says that batch_directory is set, `results` *)
(* counts the entries with a result_path, and <<resolution, units>> is its  *)
(* "recovery" field.                                                        *)
Entry == [st : Terminal \cup Recoverable \cup {"absent"},
          cost : Nat, reps : Nat, consumed : Nat, reserved : Nat,
          linked : BOOLEAN, results : Nat,
          resolution : Resolutions \cup {"none"}, units : Nat]

Absent == [st |-> "absent", cost |-> 0, reps |-> 0, consumed |-> 0, reserved |-> 0,
           linked |-> FALSE, results |-> 0, resolution |-> "none", units |-> 0]

(* The value of `remaining` is the business of BudgetBalanced. *)
IsSession(s) ==
  /\ s = [ledger |-> s.ledger, rejected |-> s.rejected, seen |-> s.seen,
          remaining |-> s.remaining]
  /\ s.ledger \in [Ids -> Entry]
  /\ s.rejected \subseteq Ids \cup BadIds
  /\ s.seen \subseteq Fingerprints

Fresh == [ledger |-> [p \in Ids |-> Absent], rejected |-> {}, seen |-> {},
          remaining |-> Total]

(* A batch record: scheduled entries with a run id and a result path       *)
(* (confirmed), scheduled entries without one (uncertain).                 *)
NoBatch == [status |-> "none", conf |-> 0, unc |-> 0]
BatchRecord == [status : FinalBatch \cup {"none", "running"}, conf : Nat, unc : Nat]

NoRun == [planned |-> 0, status |-> "none", conf |-> 0, unc |-> 0, ok |-> TRUE]
RunRecord == [planned : Nat, status : FinalBatch \cup {"none", "running"},
              conf : Nat, unc : Nat, ok : BOOLEAN]

BatchPhase == {"open", "loop", "child", "persist"}
SubmitPhase == {"mkdir", "save_accepted", "save_running", "settle", "settle_error"}
Active == BatchPhase \cup SubmitPhase \cup {"save_rejection", "save_final"}

Init ==
  /\ session = Fresh
  /\ dirs = {}
  /\ rec = [p \in Ids |-> Absent]
  /\ batch = [p \in Ids |-> NoBatch]
  /\ lock = NoProc
  /\ pc = [q \in Procs |-> "idle"]
  /\ cur = [q \in Procs |-> NoId]
  /\ mem = [q \in Procs |-> Fresh]
  /\ run = [q \in Procs |-> NoRun]
  /\ worker = [q \in Procs |-> "none"]
  /\ launched = [p \in Ids |-> 0]
  /\ durable = [p \in Ids |-> 0]
-----------------------------------------------------------------------------
(* Validation and budget *)

Charge(e) == e.consumed + e.reserved

(* state["proposals"] *)
Proposals(s) == {p \in Ids : s.ledger[p].st # "absent"}

Spent(s) == SumFunctionOnSet([p \in Ids |-> Charge(s.ledger[p])], Proposals(s))

(* Mutant of Rebudget: only consumed units count against the budget. *)
ForgetReservations(s) ==
  [s EXCEPT !.remaining =
     Total - SumFunctionOnSet([p \in Ids |-> s.ledger[p].consumed], Proposals(s))]

(* _budget recomputes the totals over all proposals. *)
Rebudget(s) == [s EXCEPT !.remaining = Total - Spent(s)]

WithEntry(s, p, e) == Rebudget([s EXCEPT !.ledger[p] = e])

Known(s) ==
  {<<p, "batch">> : p \in {i \in Ids : s.ledger[i].linked}} \cup
  {<<p, "result">> : p \in {i \in Ids : s.ledger[i].results > 0}}

UsedIds(s) == Proposals(s) \cup s.rejected

(* A candidate repeats a configuration of an earlier proposal, or of an    *)
(* earlier position of this one, and gives no repeat_reason.               *)
UnexplainedDuplicate(s, sub) ==
  \E i \in DOMAIN sub.cands :
    /\ ~sub.cands[i].repeat
    /\ \/ sub.cands[i].fp \in s.seen
       \/ \E j \in 1 .. i - 1 : sub.cands[j].fp = sub.cands[i].fp

(* The reasons for which the documentation says a proposal is refused. *)
Unacceptable(s, sub) ==
  \/ ~sub.wellformed
  \/ sub.id \in UsedIds(s)
  \/ UnexplainedDuplicate(s, sub)
  \/ ~(sub.refs \subseteq Known(s))

(* validate_proposal raises.  It also raises when a rejected proposal left *)
(* an unhashable id behind: the set of used ids cannot be built.           *)
Invalid(s, sub) == Unacceptable(s, sub) \/ s.rejected \cap BadIds # {}

Cost(sub) == sub.reps * Len(sub.cands)
OverBudget(s, sub) == Cost(sub) > s.remaining

Accepted(sub) ==
  [st |-> "accepted", cost |-> Cost(sub), reps |-> sub.reps, consumed |-> 0,
   reserved |-> Cost(sub), linked |-> FALSE, results |-> 0, resolution |-> "none", units |-> 0]
-----------------------------------------------------------------------------
(* The session lock and process death *)

(* Mutant of Free: the session is used without its flock. *)
LockIgnored == TRUE

Free == lock = NoProc

(* The process stops working on the session: its copy is gone. *)
Forget(q) ==
  /\ mem' = [mem EXCEPT ![q] = Fresh]
  /\ run' = [run EXCEPT ![q] = NoRun]
  /\ cur' = [cur EXCEPT ![q] = NoId]

(* _session_lock's finally: LOCK_UN frees the flock even while a worker    *)
(* still shares the open file description.  The CLI process lives on until *)
(* its (non-daemonic) worker has been joined.                              *)
Unlock(q) ==
  /\ lock' = NoProc
  /\ pc' = [pc EXCEPT ![q] = IF worker[q] = "none" THEN "idle" ELSE "linger"]
  /\ Forget(q)

(* The worker forked by q runs; a torn one is dead, though q waits for it. *)
OnGpu(q) == worker[q] \in {"running", "survivor"}

(* Mutant of Kill: the flock dies with the controller, not with its last holder. *)
KillDropsLock(q) ==
  /\ "kill" \in Faults
  /\ pc[q] \in Active
  /\ lock' = NoProc
  /\ pc' = [pc EXCEPT ![q] = IF OnGpu(q) THEN "orphan" ELSE "idle"]
  /\ worker' = [worker EXCEPT ![q] = IF OnGpu(q) THEN @ ELSE "none"]
  /\ Forget(q)
  /\ UNCHANGED <<session, dirs, rec, batch, launched, durable>>

(* The kernel drops a flock when the last copy of the file description is  *)
(* closed: a forked worker keeps a dead controller's lock alive.           *)
Kill(q) ==
  /\ "kill" \in Faults
  /\ pc[q] \in Active
  /\ IF OnGpu(q)
     THEN lock' = lock   /\ pc' = [pc EXCEPT ![q] = "orphan"]
     ELSE lock' = NoProc /\ pc' = [pc EXCEPT ![q] = "idle"]
  /\ worker' = [worker EXCEPT ![q] = IF OnGpu(q) THEN @ ELSE "none"]
  /\ Forget(q)
  /\ UNCHANGED <<session, dirs, rec, batch, launched, durable>>

(* An orphan, or a worker that outlived an interrupted run, ends. *)
WorkerExit(q) ==
  /\ OnGpu(q)
  /\ worker[q] = "survivor" \/ pc[q] = "orphan"
  /\ worker' = [worker EXCEPT ![q] = "none"]
  /\ pc' = [pc EXCEPT ![q] = IF @ \in {"orphan", "linger"} THEN "idle" ELSE @]
  /\ lock' = IF pc[q] = "orphan" THEN NoProc ELSE lock
  /\ UNCHANGED <<session, dirs, rec, batch, cur, mem, run, launched, durable>>

(* An exception outside the batch call leaves submit/recover: the lock is  *)
(* released and nothing is written.                                        *)
Escape(q) ==
  /\ Faults \cap {"interrupt", "escape"} # {}
  /\ pc[q] \in SubmitPhase \cup {"save_rejection", "save_final"}
  /\ Unlock(q)
  /\ UNCHANGED <<session, dirs, rec, batch, worker, launched, durable>>
-----------------------------------------------------------------------------
(* submit_proposal *)

(* Lock, load, refuse.  The handlers catch BaseException, so a Ctrl-C      *)
(* during validation or source snapshotting is a refusal as well.          *)
BeginRejection(q, sub) ==
  /\ pc[q] = "idle" /\ Free
  /\ Invalid(session, sub) \/ OverBudget(session, sub) \/ "interrupt" \in Faults
  /\ lock' = q
  /\ mem' = [mem EXCEPT ![q] = [session EXCEPT !.rejected = @ \cup {sub.id}]]
  /\ pc' = [pc EXCEPT ![q] = "save_rejection"]
  /\ UNCHANGED <<session, dirs, rec, batch, cur, run, worker, launched, durable>>

SaveRejection(q) ==
  /\ pc[q] = "save_rejection"
  /\ session' = mem[q]
  /\ Unlock(q)
  /\ UNCHANGED <<dirs, rec, batch, worker, launched, durable>>

(* Lock, load, validate, reserve the whole cost in memory. *)
BeginSubmission(q, sub) ==
  /\ pc[q] = "idle" /\ Free
  /\ ~Invalid(session, sub) /\ ~OverBudget(session, sub)
  /\ lock' = q
  /\ cur' = [cur EXCEPT ![q] = sub.id]
  /\ mem' = [mem EXCEPT ![q] =
               [WithEntry(session, sub.id, Accepted(sub)) EXCEPT
                  !.seen = @ \cup {sub.cands[i].fp : i \in DOMAIN sub.cands}]]
  /\ pc' = [pc EXCEPT ![q] = "mkdir"]
  /\ UNCHANGED <<session, dirs, rec, batch, run, worker, launched, durable>>

(* mkdir(exist_ok=False), then accepted_proposal.json. *)
MakeDirectory(q) ==
  /\ pc[q] = "mkdir"
  /\ cur[q] \notin dirs
  /\ dirs' = dirs \cup {cur[q]}
  /\ pc' = [pc EXCEPT ![q] = "save_accepted"]
  /\ UNCHANGED <<session, rec, batch, lock, cur, mem, run, worker, launched, durable>>

(* Mutant of DirectoryExists: an existing directory is waited for. *)
DirectoryExistsRetries(q) == pc[q] = "mkdir" /\ cur[q] \in dirs /\ UNCHANGED vars

(* FileExistsError is no SessionError: the command dies with a traceback. *)
DirectoryExists(q) ==
  /\ pc[q] = "mkdir"
  /\ cur[q] \in dirs
  /\ Unlock(q)
  /\ UNCHANGED <<session, dirs, rec, batch, worker, launched, durable>>

SaveAccepted(q) ==
  /\ pc[q] = "save_accepted"
  /\ session' = mem[q]
  /\ pc' = [pc EXCEPT ![q] = "save_running"]
  /\ UNCHANGED <<dirs, rec, batch, lock, cur, mem, run, worker, launched, durable>>

SaveRunning(q) ==
  /\ pc[q] = "save_running"
  /\ mem' = [mem EXCEPT ![q].ledger[cur[q]].st = "running"]
  /\ session' = mem'[q]
  /\ pc' = [pc EXCEPT ![q] = "open"]
  /\ UNCHANGED <<dirs, rec, batch, lock, cur, run, worker, launched, durable>>
-----------------------------------------------------------------------------
(* run_batch, as far as the session sees it *)

Persisted(r) == [status |-> r.status, conf |-> r.conf, unc |-> r.unc]

FinalStatus(r) ==
  IF r.status = "interrupted" THEN "interrupted"
  ELSE IF r.ok /\ r.conf + r.unc = r.planned THEN "success"
  ELSE "completed_with_failures"

Stopped(r) == r.status = "interrupted" \/ r.conf + r.unc = r.planned

(* Validate the batch, write the planned schedule and the first records.   *)
(* The schedule holds `repetitions` invocations per valid candidate.       *)
OpenBatch(q) ==
  LET e == mem[q].ledger[cur[q]] IN
  /\ pc[q] = "open"
  /\ \E n \in {k \in 0 .. e.cost : k % e.reps = 0} :
       /\ n # e.cost => Faults \cap {"invalid", "interrupt"} # {}
       /\ run' = [run EXCEPT ![q] = [planned |-> n, status |-> "running",
                                     conf |-> 0, unc |-> 0, ok |-> n = e.cost]]
  /\ batch' = [batch EXCEPT ![cur[q]] = Persisted(run'[q])]
  /\ pc' = [pc EXCEPT ![q] = "loop"]
  /\ UNCHANGED <<session, dirs, rec, lock, cur, mem, worker, launched, durable>>

(* validate_batch_config raises: a final record without entries. *)
RefuseBatch(q) ==
  /\ pc[q] = "open"
  /\ Faults \cap {"invalid", "interrupt"} # {}
  /\ run' = [run EXCEPT ![q] = [planned |-> 0, status |-> "configuration_failed",
                                conf |-> 0, unc |-> 0, ok |-> FALSE]]
  /\ batch' = [batch EXCEPT ![cur[q]] = Persisted(run'[q])]
  /\ pc' = [pc EXCEPT ![q] = "settle"]
  /\ UNCHANGED <<session, dirs, rec, lock, cur, mem, worker, launched, durable>>

(* Mutant of Launch: an interrupted batch goes on. *)
LaunchAfterInterruption(q) ==
  /\ pc[q] = "loop"
  /\ run[q].conf + run[q].unc < run[q].planned
  /\ launched' = [launched EXCEPT ![cur[q]] = @ + 1]
  /\ worker' = [worker EXCEPT ![q] = "running"]
  /\ pc' = [pc EXCEPT ![q] = "child"]
  /\ UNCHANGED <<session, dirs, rec, batch, lock, cur, mem, run, durable>>

(* One invocation of the single-experiment runner: one budget unit. *)
Launch(q) ==
  /\ pc[q] = "loop"
  /\ ~Stopped(run[q])
  /\ launched' = [launched EXCEPT ![cur[q]] = @ + 1]
  /\ worker' = [worker EXCEPT ![q] = "running"]
  /\ pc' = [pc EXCEPT ![q] = "child"]
  /\ UNCHANGED <<session, dirs, rec, batch, lock, cur, mem, run, durable>>

(* The worker dies with part of its payload in the pipe.  messages.get     *)
(* finds data and blocks in recv, which has no timeout: only a Ctrl-C or   *)
(* the controller's death ends the wait.                                   *)
Tear(q) ==
  /\ "tear" \in Faults
  /\ pc[q] = "child" /\ worker[q] = "running"
  /\ worker' = [worker EXCEPT ![q] = "torn"]
  /\ UNCHANGED <<session, dirs, rec, batch, lock, pc, cur, mem, run, launched, durable>>

(* The interruption path terminates the worker but never kills it. *)
WorkerAfter(q, interrupted) ==
  IF interrupted /\ worker[q] = "running" /\ "survive" \in Faults
  THEN {"none", "survivor"} ELSE {"none"}

(* run_experiment returns: result.json is on disk, the entry names it. *)
ChildRecorded(q, outcome) ==
  /\ pc[q] = "child"
  /\ worker[q] = "torn" => outcome = "interrupted"
  /\ outcome = "interrupted" => "interrupt" \in Faults
  /\ durable' = [durable EXCEPT ![cur[q]] = @ + 1]
  /\ run' = [run EXCEPT ![q] =
               [planned |-> @.planned, conf |-> @.conf + 1, unc |-> @.unc,
                ok |-> @.ok /\ outcome = "success",
                status |-> IF outcome = "interrupted" THEN "interrupted" ELSE @.status]]
  /\ \E w \in WorkerAfter(q, outcome = "interrupted") : worker' = [worker EXCEPT ![q] = w]
  /\ pc' = [pc EXCEPT ![q] = "persist"]
  /\ UNCHANGED <<session, dirs, rec, batch, lock, cur, mem, launched>>

(* run_experiment raises: the entry has no run id and no result path,      *)
(* whether or not result.json had already been written.                    *)
ChildRaised(q, interrupted) ==
  /\ pc[q] = "child"
  /\ worker[q] = "torn" => interrupted
  /\ IF interrupted THEN "interrupt" \in Faults ELSE "escape" \in Faults
  /\ \E wrote \in {0, 1} : durable' = [durable EXCEPT ![cur[q]] = @ + wrote]
  /\ run' = [run EXCEPT ![q] =
               [planned |-> @.planned, conf |-> @.conf, unc |-> @.unc + 1, ok |-> FALSE,
                status |-> IF interrupted THEN "interrupted" ELSE @.status]]
  /\ \E w \in WorkerAfter(q, interrupted) : worker' = [worker EXCEPT ![q] = w]
  /\ pc' = [pc EXCEPT ![q] = "persist"]
  /\ UNCHANGED <<session, dirs, rec, batch, lock, cur, mem, launched>>

(* Mutant of PersistEntry: the entry is only kept in memory. *)
PersistEntryLater(q) ==
  /\ pc[q] = "persist"
  /\ pc' = [pc EXCEPT ![q] = "loop"]
  /\ UNCHANGED <<session, dirs, rec, batch, lock, cur, mem, run, worker, launched, durable>>

PersistEntry(q) ==
  /\ pc[q] = "persist"
  /\ batch' = [batch EXCEPT ![cur[q]] = Persisted(run[q])]
  /\ pc' = [pc EXCEPT ![q] = "loop"]
  /\ UNCHANGED <<session, dirs, rec, lock, cur, mem, run, worker, launched, durable>>

FinishBatch(q) ==
  /\ pc[q] = "loop"
  /\ Stopped(run[q])
  /\ run' = [run EXCEPT ![q].status = FinalStatus(run[q])]
  /\ batch' = [batch EXCEPT ![cur[q]] = Persisted(run'[q])]
  /\ pc' = [pc EXCEPT ![q] = "settle"]
  /\ UNCHANGED <<session, dirs, rec, lock, cur, mem, worker, launched, durable>>

(* What the writer at this point of run_batch may leave in                 *)
(* batch_results.json when it raises before, during or after the replace.  *)
PendingBatch(q) ==
  CASE pc[q] = "open" -> {[NoBatch EXCEPT !.status = s] : s \in {"running", "configuration_failed"}}
    [] pc[q] = "persist" -> {Persisted(run[q])}
    [] pc[q] = "loop" -> {[Persisted(run[q]) EXCEPT !.status = FinalStatus(run[q])]}
    [] OTHER -> {}

(* run_batch raises: submit_proposal goes on with the newest record on disk. *)
BatchRaises(q) ==
  /\ Faults \cap {"interrupt", "escape"} # {}
  /\ pc[q] \in {"open", "persist"} \/ (pc[q] = "loop" /\ Stopped(run[q]))
  /\ \E b \in PendingBatch(q) \cup {batch[cur[q]]} : batch' = [batch EXCEPT ![cur[q]] = b]
  /\ run' = [run EXCEPT ![q] = NoRun]
  /\ pc' = [pc EXCEPT ![q] = "settle_error"]
  /\ UNCHANGED <<session, dirs, rec, lock, cur, mem, worker, launched, durable>>
-----------------------------------------------------------------------------
(* submit_proposal after the batch: fold the evidence into the record *)

(* Mutant of SettledState: the batch status is used as the proposal state. *)
SettledStateUntranslated(r) == IF r.unc > 0 THEN "needs_reconciliation" ELSE r.status

SettledState(r) ==
  CASE r.unc > 0 -> "needs_reconciliation"
    [] r.unc = 0 /\ r.status = "interrupted" -> "interrupted"
    [] r.unc = 0 /\ r.status = "success" -> "completed"
    [] OTHER -> "failed"

SettledEntry(e, r) ==
  [st |-> SettledState(r), cost |-> e.cost, reps |-> e.reps, consumed |-> r.conf,
   reserved |-> r.unc, linked |-> TRUE, results |-> r.conf,
   resolution |-> e.resolution, units |-> e.units]

(* Mutant of FailedEntry: an escaped batch keeps only its listed units. *)
FailedEntryReleasesTail(e, b) ==
  [st |-> "needs_reconciliation", cost |-> e.cost, reps |-> e.reps, consumed |-> b.conf,
   reserved |-> b.unc, linked |-> b.status # "none", results |-> b.conf,
   resolution |-> e.resolution, units |-> e.units]

(* After an escaped batch call no absent artifact proves anything: what is *)
(* not confirmed stays reserved.                                           *)
FailedEntry(e, b) ==
  [st |-> "needs_reconciliation", cost |-> e.cost, reps |-> e.reps, consumed |-> b.conf,
   reserved |-> e.cost - b.conf, linked |-> b.status # "none", results |-> b.conf,
   resolution |-> e.resolution, units |-> e.units]

(* Mutant of Record: proposal_state.json is not written. *)
RecordForgetsFile(q, p, e) ==
  /\ rec' = rec
  /\ mem' = [mem EXCEPT ![q] = WithEntry(@, p, e)]
  /\ pc' = [pc EXCEPT ![q] = "save_final"]

(* proposal_state.json first, session.json in a later step. *)
Record(q, p, e) ==
  /\ rec' = [rec EXCEPT ![p] = e]
  /\ mem' = [mem EXCEPT ![q] = WithEntry(@, p, e)]
  /\ pc' = [pc EXCEPT ![q] = "save_final"]

Settle(q) ==
  /\ pc[q] = "settle"
  /\ Record(q, cur[q], SettledEntry(mem[q].ledger[cur[q]], run[q]))
  /\ UNCHANGED <<session, dirs, batch, lock, cur, run, worker, launched, durable>>

SettleAfterError(q) ==
  /\ pc[q] = "settle_error"
  /\ Record(q, cur[q], FailedEntry(mem[q].ledger[cur[q]], batch[cur[q]]))
  /\ UNCHANGED <<session, dirs, batch, lock, cur, run, worker, launched, durable>>

SaveFinal(q) ==
  /\ pc[q] = "save_final"
  /\ session' = mem[q]
  /\ Unlock(q)
  /\ UNCHANGED <<dirs, rec, batch, worker, launched, durable>>
-----------------------------------------------------------------------------
(* recover_session *)

LesserOf(a, b) == IF a < b THEN a ELSE b

(* Mutant of Moved: units confirmed before are charged again. *)
MovedTwice(e, b) == LesserOf(b.conf, e.reserved)

(* Units the batch record has confirmed since the record was last written. *)
Moved(e, b) == LesserOf(IF b.conf > e.consumed THEN b.conf - e.consumed ELSE 0, e.reserved)

(* What is still ambiguous once the evidence on disk has been folded in. *)
StillReserved(e, b) ==
  LET left == e.reserved - Moved(e, b) IN
  IF b.status \in FinalBatch THEN LesserOf(left, b.unc)
  ELSE IF e.st = "accepted" /\ b.status = "none" THEN 0
  ELSE left

(* Mutant of ResolvedState: no reservation left means completed. *)
ResolvedStateCompletes(b, resolution, left) ==
  IF left = 0 THEN "completed"
  ELSE IF resolution = "inspect" THEN "needs_reconciliation" ELSE "failed"

ResolvedState(b, resolution, left) ==
  CASE resolution = "inspect" /\ left > 0 -> "needs_reconciliation"
    [] resolution = "inspect" /\ left = 0 /\ b.status = "success" -> "completed"
    [] resolution = "inspect" /\ left = 0 /\ b.status = "interrupted" -> "interrupted"
    [] OTHER -> "failed"

RecoveredEntry(e, b, resolution) ==
  LET left  == StillReserved(e, b)
      stuck == resolution = "inspect" /\ left > 0
  IN [st         |-> ResolvedState(b, resolution, left),
      cost       |-> e.cost,
      reps       |-> e.reps,
      consumed   |-> e.consumed + Moved(e, b) + IF resolution = "consume" THEN left ELSE 0,
      reserved   |-> IF stuck THEN left ELSE 0,
      linked     |-> e.linked,
      results    |-> IF b.conf + b.unc > 0 THEN b.conf ELSE e.results,
      resolution |-> IF stuck THEN e.resolution ELSE resolution,
      units      |-> IF stuck THEN e.units ELSE left]

Recover(q, p, resolution) ==
  /\ pc[q] = "idle" /\ Free
  /\ session.ledger[p].st \in Recoverable
  /\ LET e == RecoveredEntry(session.ledger[p], batch[p], resolution) IN
     /\ rec' = [rec EXCEPT ![p] = e]
     /\ mem' = [mem EXCEPT ![q] = WithEntry(session, p, e)]
  /\ lock' = q
  /\ cur' = [cur EXCEPT ![q] = p]
  /\ pc' = [pc EXCEPT ![q] = "save_final"]
  /\ UNCHANGED <<session, dirs, batch, run, worker, launched, durable>>
-----------------------------------------------------------------------------
(* Steps a command takes once it holds the lock, faults aside. *)
Step(q) ==
  \/ SaveRejection(q)
  \/ MakeDirectory(q) \/ DirectoryExists(q)
  \/ SaveAccepted(q) \/ SaveRunning(q)
  \/ OpenBatch(q) \/ RefuseBatch(q)
  \/ Launch(q)
  \/ \E o \in {"success", "failed", "interrupted"} : ChildRecorded(q, o)
  \/ \E i \in BOOLEAN : ChildRaised(q, i)
  \/ PersistEntry(q) \/ FinishBatch(q) \/ BatchRaises(q)
  \/ Settle(q) \/ SettleAfterError(q) \/ SaveFinal(q)

Next ==
  \E q \in Procs :
    \/ \E sub \in Submissions : BeginRejection(q, sub) \/ BeginSubmission(q, sub)
    \/ \E p \in Ids, r \in Resolutions : Recover(q, p, r)
    \/ Step(q)
    \/ Tear(q)
    \/ Escape(q)
    \/ Kill(q)
    \/ WorkerExit(q)

Spec == Init /\ [][Next]_vars

(* A command that holds the lock keeps taking steps: its writes return, and *)
(* so does the single-experiment runner, unless it waits for the rest of a  *)
(* torn payload (ControllerReturns of ExperimentRunner makes the same       *)
(* exception).  Operators, faults and the end of stray workers are not      *)
(* fair: nothing limits how long an orphan runs.                            *)
FairSpec == Spec /\ \A q \in Procs : WF_vars(Step(q) /\ worker[q] # "torn")
-----------------------------------------------------------------------------
(* Every variable holds a value of its kind. *)
TypeOK ==
  /\ IsSession(session)
  /\ dirs \subseteq Ids
  /\ rec \in [Ids -> Entry]
  /\ batch \in [Ids -> BatchRecord]
  /\ lock \in Procs \cup {NoProc}
  /\ pc \in [Procs -> Active \cup {"idle", "linger", "orphan"}]
  /\ cur \in [Procs -> Ids \cup {NoId}]
  /\ mem = [q \in Procs |-> mem[q]]
  /\ \A q \in Procs : IsSession(mem[q])
  /\ run \in [Procs -> RunRecord]
  /\ worker \in [Procs -> {"none", "running", "torn", "survivor"}]
  /\ launched \in [Ids -> Nat]
  /\ durable \in [Ids -> Nat]

(* The budget in session.json is the sum over its proposals and is never    *)
(* overdrawn, whichever commands crash, race or recover.                    *)
BudgetBalanced ==
  /\ session.remaining >= 0
  /\ session.remaining = Total - Spent(session)

(* Units a "release" resolution gave back on the operator's word. *)
ReleasedUnits(e) == IF e.resolution = "release" THEN e.units ELSE 0
(* Units a "consume" resolution charged without evidence. *)
ForcedUnits(e) == IF e.resolution = "consume" THEN e.units ELSE 0

(* Every invocation of the runner is paid for on disk before it starts and  *)
(* stays paid for: through crashes, escapes, inspections and interruptions  *)
(* only an explicit release may give its unit back.                         *)
LaunchesCovered ==
  \A p \in Ids :
    LET e == session.ledger[p] IN launched[p] <= Charge(e) + ReleasedUnits(e)

(* Without an explicit "consume", a consumed unit is a conclusive           *)
(* result.json on disk: nothing is charged twice or on suspicion.           *)
ChargesBacked ==
  \A p \in Ids :
    LET e == session.ledger[p] IN e.consumed <= durable[p] + ForcedUnits(e)

(* A final batch record lists every invocation that was launched, which is  *)
(* what lets recover_session release the rest of the schedule.              *)
FinalBatchIsProof ==
  \A p \in Ids :
    batch[p].status \in FinalBatch => launched[p] = batch[p].conf + batch[p].unc

Log == INSTANCE BatchLog WITH
  Batches <- Ids,
  log <- [p \in Ids |-> [status |-> batch[p].status, listed |-> batch[p].conf + batch[p].unc]]

(* Whatever commands crash or race, the batch file of a proposal grows as  *)
(* BatchLog promises: that is what recover_session reads it by.            *)
ImplementsBatchLog == Log!Spec

(* "completed" and "interrupted" leave no doubt about what ran: the units   *)
(* consumed are the invocations launched, and a completed proposal ran all  *)
(* it was charged for.  No settled proposal keeps a reservation.            *)
SettledIsExact ==
  \A p \in Ids :
    LET e == session.ledger[p] IN
    /\ e.st \in Terminal => e.reserved = 0
    /\ e.st \in {"completed", "interrupted"} => launched[p] = e.consumed
    /\ e.st = "completed" => e.consumed = e.cost

(* Every worker on the GPU belongs to the process that holds the lock, a    *)
(* killed controller's orphan included, with one exception: the survivor of *)
(* an interrupted command, which ignored SIGTERM and is waited for after    *)
(* LOCK_UN.  So two workers overlap only when one of them is such a         *)
(* survivor; an orphan never runs beside another command's worker.          *)
GpuIsLocked ==
  \A q \in Procs : OnGpu(q) =>
    /\ lock = q \/ (worker[q] = "survivor" /\ pc[q] = "linger")
    /\ \A r \in Procs \ {q} : OnGpu(r) =>
         \E p \in {q, r} : worker[p] = "survivor" /\ pc[p] = "linger"

(* A settled proposal's own record was written before the session said so. *)
RecordPrecedesSession ==
  \A p \in Ids : session.ledger[p].st \in Terminal => rec[p] = session.ledger[p]

(* A settled proposal is never reopened, recharged or run again. *)
SettledIsFinal ==
  [][\A p \in Ids : session.ledger[p].st \in Terminal =>
       /\ session'.ledger[p] = session.ledger[p]
       /\ launched'[p] = launched[p]]_vars

(* No save of session.json loses what another command saved: proposals,     *)
(* consumed units, rejections and fingerprints only accumulate.             *)
NothingLost ==
  [][/\ session.rejected \subseteq session'.rejected
     /\ session.seen \subseteq session'.seen
     /\ \A p \in Ids : session.ledger[p].st # "absent" =>
          /\ session'.ledger[p].st # "absent"
          /\ session'.ledger[p].consumed >= session.ledger[p].consumed]_vars

(* Every command that got the lock gives it up again, however its batch     *)
(* goes, with two exceptions: it waits in recv for the rest of a torn       *)
(* payload, or it was killed and its worker still shares the flock.         *)
CommandsEnd ==
  \A q \in Procs : lock = q ~> lock # q \/ worker[q] = "torn" \/ pc[q] = "orphan"

-----------------------------------------------------------------------------
(* A claim of the documentation that the code does not keep. *)

(* docs/experiment_runner.md lists what is refused: unsupported             *)
(* implementations, out-of-range parameters, duplicate ids, unknown         *)
(* references and over-budget proposals.                                    *)
RefusedForAReason ==
  [][\A q \in Procs, sub \in Submissions :
       BeginRejection(q, sub) =>
         Unacceptable(session, sub) \/ OverBudget(session, sub)]_vars
=============================================================================
