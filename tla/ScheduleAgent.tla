----------------------------- MODULE ScheduleAgent -----------------------------
(***************************************************************************)
(* The two-batch schedule agent (src/scripts/                              *)
(* run_schedule_agent_prototype.py): one controller that asks a planner    *)
(* for a proposal, measures a batch in a GPU worker, feeds the evidence    *)
(* back, asks once more, measures once more, and writes everything to one  *)
(* bundle of files under a hash manifest.  The live planner's budgets are  *)
(* those of OpenAIPlanner (src/src/matmul_inspector/                       *)
(* tensor_game_schedule_agent.py).  The reader of the bundle is the        *)
(* proposal preflight, verified_batch2_feedback.                           *)
(*                                                                         *)
(* A file costs one unit of the bundle's size limit, but for failure.json  *)
(* and decision.json, whose size is that of the reason they give.  The     *)
(* controller may die between any two of its steps; its worker then goes   *)
(* on alone.                                                               *)
(***************************************************************************)
EXTENDS Integers, Sequences, FiniteSets, Functions

CONSTANTS
  Rooms,      \* size limits of a bundle, in files: max_artifact_bytes
  Reserve,    \* room kept free for failure.json and decision.json: 16,000 bytes
  Notes,      \* sizes failure.json and decision.json may each have
  MaxCalls,   \* max_planner_calls
  MaxRequest, \* tokens a request may take: max_planner_request_bytes
  MaxOutput,  \* max_planner_output_tokens_per_call
  MaxTokens,  \* max_planner_total_tokens
  Usages      \* totals of tokens the provider may report

ASSUME AgentConstants ==
  /\ Rooms \subseteq Nat /\ Notes \subseteq Nat
  /\ {Reserve, MaxCalls, MaxRequest, MaxOutput, MaxTokens} \subseteq Nat
  /\ Usages \subseteq Nat
  /\ \A r \in Rooms : r >= Reserve

Batches == 1 .. 2
Ended == {"returned", "raised", "crashed"}

(* A file is named by its batch, 0 when it belongs to none, and its kind.  *)
Setup == << "limits", "benchmark_config", "provenance", "candidate_universe",
            "batch1_selection", "batch2_frozen_control" >>
Results == << "cpu_gates", "gpu_correctness", "gpu_topology", "raw_device_timing",
              "timing_summary", "observations" >>
Temporary == <<0, "temporary">>   \* the .tmp of the write under way
Failure == <<0, "failure">>
Decision == <<0, "decision">>
Unfinished(b) == <<b, "worker">>  \* batchN_worker.json.tmp

VARIABLES
  args,      \* provider, gpu and room of this invocation, size of its closing notes
  files,     \* contents of the bundle's files
  manifest,  \* what hash_manifest.json lists, or Torn
  todo,      \* writes the controller makes before its next step
  step,      \* how far the first of them is
  pc,        \* where the controller is
  batch,     \* the batch it is at
  error,     \* the exception to be raised when todo is done
  outcome,   \* status and classification
  calls, tokens,  \* planner.calls, planner.total_tokens
  source,    \* source of each proposal
  worker,    \* the GPU worker process
  measured,  \* what the GPU worker measured, per batch
  sent,      \* history: batches of the requests sent
  given      \* history: what the provider answered, per batch

bundle == <<files, manifest>>
planner == <<calls, tokens, sent>>
proposals == <<source, given>>
vars == <<args, files, manifest, todo, step, pc, batch, error, outcome, calls, tokens,
          source, worker, measured, sent, given>>

Write(b, kind, content) == [name |-> <<b, kind>>, content |-> content]
All(b, kinds, content) == [i \in DOMAIN kinds |-> Write(b, kinds[i], content)]
Put(f, n, c) == [x \in DOMAIN f \cup {n} |-> IF x = n THEN c ELSE f[x]]
Without(f, n) == Restrict(f, DOMAIN f \ {n})
Nothing == [n \in {} |-> "data"]
Torn == Put(Nothing, Temporary, "torn")

Invocations ==
  [provider : {"live", "fallback", "saved"}, gpu : BOOLEAN, room : Rooms, note : Notes]

Init ==
  /\ args \in Invocations
  /\ files = Nothing /\ manifest = Nothing
  /\ todo = All(0, Setup, "data") /\ step = "check"
  /\ pc = "setup" /\ batch = 1 /\ error = "none"
  /\ outcome = [status |-> "BLOCKED", class |-> "D"]
  /\ calls = 0 /\ tokens = 0 /\ sent = << >>
  /\ source = [b \in Batches |-> "none"] /\ given = [b \in Batches |-> "none"]
  /\ worker = "none" /\ measured = [b \in Batches |-> "none"]

(* The controller is at l with nothing left to write or to raise. *)
At(l) == pc = l /\ todo = << >> /\ error = "none"
Raise(e) == error' = e /\ UNCHANGED <<todo, pc, batch>>
Goto(l, writes) == pc' = l /\ todo' = writes /\ UNCHANGED <<batch, error>>
-----------------------------------------------------------------------------
(* Bundle.write: the size check, the temporary file, its replacement and   *)
(* the manifest, which is rewritten in place and lists whatever is there.  *)
Writing(s) == pc \notin Ended /\ todo # << >> /\ step = s

Closers == {Failure, Decision}
Used(names) == Cardinality(names \ Closers) + args.note * Cardinality(names \cap Closers)

(* Mutant of Fits: no room is kept for the end of the run. *)
FitsUnreserved == Used(DOMAIN files \cup {Head(todo).name}) <= args.room

Fits ==
  LET name == Head(todo).name
  IN  Used(DOMAIN files \cup {name}) + (IF name \in Closers THEN 0 ELSE Reserve) <= args.room

WriteTemporary ==
  /\ Writing("check") /\ Fits
  /\ files' = Put(files, Temporary, "data")
  /\ step' = "temporary"
  /\ UNCHANGED <<args, manifest, todo, pc, batch, error, outcome, planner, proposals,
                 worker, measured>>

ReplaceFile ==
  /\ Writing("temporary")
  /\ files' = Put(Without(files, Temporary), Head(todo).name, Head(todo).content)
  /\ step' = "replaced"
  /\ UNCHANGED <<args, manifest, todo, pc, batch, error, outcome, planner, proposals,
                 worker, measured>>

TruncateManifest ==
  /\ Writing("replaced")
  /\ manifest' = Torn /\ step' = "manifest"
  /\ UNCHANGED <<args, files, todo, pc, batch, error, outcome, planner, proposals,
                 worker, measured>>

(* Mutant of WriteManifest: the file just written is added to the listing, *)
(* and nothing else that is there.                                         *)
ListOnlyWritten ==
  /\ Writing("manifest")
  /\ manifest' = Without(Without(files, Unfinished(1)), Unfinished(2))
  /\ step' = "check" /\ todo' = Tail(todo)
  /\ UNCHANGED <<args, files, pc, batch, error, outcome, planner, proposals, worker, measured>>

WriteManifest ==
  /\ Writing("manifest")
  /\ manifest' = files /\ step' = "check" /\ todo' = Tail(todo)
  /\ UNCHANGED <<args, files, pc, batch, error, outcome, planner, proposals, worker, measured>>

(* Mutant of RefuseWrite: the files that come after both batches are       *)
(* treated like failure.json.                                              *)
RefuseLateQuietly ==
  /\ Writing("check") /\ ~Fits
  /\ todo' = << >>
  /\ error' = IF pc \in {"classify", "record", "decide", "return"} THEN "none" ELSE "size"
  /\ pc' = IF Head(todo).name = Decision THEN "raised" ELSE pc
  /\ UNCHANGED <<args, bundle, step, batch, outcome, planner, proposals, worker, measured>>

(* A write that does not fit raises: that of failure.json is swallowed,    *)
(* that of decision.json leaves run(), any other comes to the handler.     *)
RefuseWrite ==
  /\ Writing("check") /\ ~Fits
  /\ todo' = << >>
  /\ error' = IF Head(todo).name \in Closers THEN "none" ELSE "size"
  /\ pc' = IF Head(todo).name = Decision THEN "raised" ELSE pc
  /\ UNCHANGED <<args, bundle, step, batch, outcome, planner, proposals, worker, measured>>
-----------------------------------------------------------------------------
(* The planner is built.  Without a GPU or a credential, or from saved      *)
(* proposals whose hashes are wrong, it is not.                            *)
ChoosePlanner ==
  /\ At("setup")
  /\ \/ (args.provider = "live" => args.gpu) /\ Goto("propose", << >>)
     \/ args.provider # "fallback" /\ Raise("invalid")
  /\ UNCHANGED <<args, bundle, step, outcome, planner, proposals, worker, measured>>

(* get_proposal after the planner answered: the proposal is written, then  *)
(* validated, then the verdict is written, and an invalid one raises.      *)
Propose(s, verdict) ==
  /\ pc' = IF batch = 1 THEN "gate" ELSE "select"
  /\ todo' = <<Write(batch, "proposal", s), Write(batch, "validation", verdict)>>
  /\ error' = IF verdict = "valid" THEN "none" ELSE "invalid"
  /\ source' = [source EXCEPT ![batch] = s]
  /\ UNCHANGED batch

(* A provider error is written down and answered with the deterministic    *)
(* proposal, which is always valid.                                        *)
FallBack ==
  /\ pc' = IF batch = 1 THEN "gate" ELSE "select"
  /\ todo' = << Write(batch, "provider_error", "fallback"),
                Write(batch, "proposal", "AFTER_ERROR"), Write(batch, "validation", "valid") >>
  /\ source' = [source EXCEPT ![batch] = "AFTER_ERROR"]
  /\ UNCHANGED <<batch, error>>

(* Mutant of Exhaust: the limit is answered like any other error. *)
ExhaustFallsBack ==
  /\ pc' = IF batch = 1 THEN "gate" ELSE "select"
  /\ todo' = << Write(batch, "provider_error", "terminal"),
                Write(batch, "proposal", "AFTER_ERROR"), Write(batch, "validation", "valid") >>
  /\ source' = [source EXCEPT ![batch] = "AFTER_ERROR"]
  /\ UNCHANGED <<batch, error>>

(* A planner limit is written down and ends the run. *)
Exhaust ==
  /\ todo' = <<Write(batch, "provider_error", "terminal")>> /\ error' = "budget"
  /\ UNCHANGED <<pc, batch, source>>

ProposeOffline ==
  /\ At("propose")
  /\ \/ args.provider = "fallback" /\ Propose("FALLBACK", "valid")
     \/ args.provider = "saved" /\ \E v \in {"valid", "invalid"} : Propose("SAVED", v)
     \/ args.provider = "saved" /\ Raise("invalid") /\ UNCHANGED source
  /\ UNCHANGED <<args, bundle, step, outcome, planner, given, worker, measured>>

(* Mutant of InOrder: the order of the batches is not looked at. *)
InRange == batch \in Batches

InOrder == batch = 1 + calls
Affordable == tokens + MaxRequest + MaxOutput <= MaxTokens

(* OpenAIPlanner.propose before the request: all calls are spent, or the   *)
(* request, in its order, is too long or not affordable.                   *)
PlannerLimit ==
  /\ At("propose") /\ args.provider = "live"
  /\ calls < MaxCalls => InOrder
  /\ Exhaust
  /\ UNCHANGED <<args, bundle, step, outcome, planner, given, worker, measured>>

(* Out of order, or the process's alarm is in use. *)
PlannerRefuses ==
  /\ At("propose") /\ args.provider = "live"
  /\ calls < MaxCalls /\ (InOrder => Affordable)
  /\ FallBack
  /\ UNCHANGED <<args, bundle, step, outcome, planner, given, worker, measured>>

SendRequest ==
  /\ At("propose") /\ args.provider = "live"
  /\ calls < MaxCalls /\ InOrder /\ Affordable
  /\ calls' = calls + 1 /\ sent' = Append(sent, batch)
  /\ pc' = "asked"
  /\ UNCHANGED <<args, bundle, todo, step, batch, error, outcome, tokens, proposals,
                 worker, measured>>

(* No answer in time: the alarm rings, the transport fails, or what comes  *)
(* is not JSON.  The tokens it cost are never known.                       *)
AnswerLost ==
  /\ At("asked")
  /\ FallBack
  /\ UNCHANGED <<args, bundle, step, outcome, planner, given, worker, measured>>

(* The response is too long, or reports no usage that adds up. *)
AnswerUnaccountable ==
  /\ At("asked")
  /\ Exhaust
  /\ UNCHANGED <<args, bundle, step, outcome, planner, given, worker, measured>>

(* Usage is accumulated before anything else is believed. *)
AnswerComes(usage, answer) ==
  /\ At("asked")
  /\ tokens' = tokens + usage
  /\ given' = [given EXCEPT ![batch] = answer]
  /\ IF usage > MaxRequest + MaxOutput \/ tokens + usage > MaxTokens THEN Exhaust
     ELSE IF answer \in {"valid", "invalid"} THEN Propose("LIVE", answer)
     ELSE FallBack
  /\ UNCHANGED <<args, bundle, step, outcome, calls, sent, worker, measured>>
-----------------------------------------------------------------------------
(* Batch 2 is selected from the evidence and the proposal's scope; a       *)
(* replay must reproduce the selection it replays.                         *)
Select ==
  /\ At("select")
  /\ \/ Goto("gate", <<Write(2, "controls_and_guidance", "data")>>)
     \/ /\ ~args.gpu   \* it replays a bundle of its own kind
        /\ Goto("gate", <<Write(2, "controls_and_guidance", "data"),
                          Write(0, "replay_comparison", "data")>>)
     \/ Raise("invalid")
  /\ UNCHANGED <<args, bundle, step, outcome, planner, proposals, worker, measured>>

Gate ==
  /\ At("gate")
  /\ \/ /\ args.gpu
        /\ Goto("launch", <<Write(batch, "cpu_gates", "complete"),
                            Write(batch, "requested_hashes", "data")>>)
     \/ /\ ~args.gpu
        /\ IF batch = 1 THEN Goto("replay", <<Write(1, "cpu_gates", "complete")>>)
           ELSE Goto("compare", <<Write(2, "cpu_gates", "complete"),
                                  Write(2, "replay_note", "data")>>)
     \/ Raise("invalid")
  /\ UNCHANGED <<args, bundle, step, outcome, planner, proposals, worker, measured>>

(* A CPU run takes the evidence of Batch 1 from an earlier bundle. *)
Replay ==
  /\ At("replay")
  /\ \/ Goto("calibrate", <<Write(0, "replay_source", "data")>>)
     \/ Raise("invalid")
  /\ UNCHANGED <<args, bundle, step, outcome, planner, proposals, worker, measured>>

LaunchWorker ==
  /\ At("launch")
  /\ \/ pc' = "waiting" /\ worker' = "running" /\ UNCHANGED <<todo, batch, error>>
     \/ Raise("timeout") /\ UNCHANGED worker   \* no time is left
  /\ UNCHANGED <<args, bundle, step, outcome, planner, proposals, measured>>

(* run_gpu_worker.  Its output, written in place, may be anything up to    *)
(* too large when it stops, and it may fail after it has written.          *)
WorkerWrites ==
  /\ worker = "running" /\ Unfinished(batch) \notin DOMAIN files
  /\ files' = Put(files, Unfinished(batch), "partial")
  /\ UNCHANGED <<args, manifest, todo, step, pc, batch, error, outcome, planner, proposals,
                 worker, measured>>

WorkerFinishes ==
  /\ worker = "running" /\ Unfinished(batch) \in DOMAIN files
  /\ \E c \in {"whole", "large"}, q \in {"complete", "limited"} :
       /\ files' = Put(files, Unfinished(batch), c)
       /\ measured' = [measured EXCEPT ![batch] = q]
  /\ worker' = "done"
  /\ UNCHANGED <<args, manifest, todo, step, pc, batch, error, outcome, planner, proposals>>

WorkerFails ==
  /\ worker \in {"running", "done"}
  /\ worker' = "failed"
  /\ UNCHANGED <<args, bundle, todo, step, pc, batch, error, outcome, planner, proposals,
                 measured>>

(* execute_gpu_batch after the worker: a timeout kills it, a failure or a  *)
(* timeout leaves its output where it is, one too large is removed.        *)
AwaitFailure ==
  /\ At("waiting")
  /\ \/ worker' = "none" /\ Raise("timeout")
     \/ worker = "failed" /\ worker' = "none" /\ \E e \in {"blocked", "budget"} : Raise(e)
  /\ UNCHANGED <<args, bundle, step, outcome, planner, proposals, measured>>

Collect ==
  /\ At("waiting") /\ worker = "done"
  /\ worker' = "none"
  /\ files' = Without(files, Unfinished(batch))
  /\ IF files[Unfinished(batch)] = "large" THEN Raise("size")
     ELSE Goto("calibrate", All(batch, Results, measured[batch]))
  /\ UNCHANGED <<args, manifest, step, outcome, planner, proposals, measured>>

Calibrate ==
  /\ At("calibrate")
  /\ IF batch = 1
     THEN /\ pc' = "propose" /\ batch' = 2
          /\ todo' = <<Write(1, "calibration", "data"), Write(1, "feedback", measured[1])>>
          /\ UNCHANGED error
     ELSE Goto("compare", <<Write(2, "calibration", "data")>>)
  /\ UNCHANGED <<args, bundle, step, outcome, planner, proposals, worker, measured>>

Complete == args.gpu => \A b \in Batches : measured[b] = "complete"

AllLive == args.gpu /\ \A b \in Batches : source[b] = "LIVE"

Compare ==
  /\ At("compare")
  /\ Goto("classify", <<Write(0, "control_comparisons", "data")>>)
  /\ UNCHANGED <<args, bundle, step, outcome, planner, proposals, worker, measured>>

(* The classification comes before the last file the handler guards. *)
Classify ==
  /\ At("classify")
  /\ outcome' = IF ~Complete THEN [status |-> "COMPLETED_WITH_LIMITATIONS", class |-> "C"]
                ELSE [status |-> "COMPLETED", class |-> IF AllLive THEN "A" ELSE "B"]
  /\ Goto("record", <<Write(0, "resource_usage", "data")>>)
  /\ UNCHANGED <<args, bundle, step, planner, proposals, worker, measured>>

(* The handler of run(): the exception names the terminal state. *)
Handle ==
  /\ pc \notin Ended /\ todo = << >> /\ error # "none"
  /\ outcome' = [class |-> "D",
                 status |-> CASE error = "invalid" -> "FAILED_VALIDATION"
                              [] error \in {"timeout", "budget", "size"} -> "BUDGET_EXHAUSTED"
                              [] OTHER -> "BLOCKED"]
  /\ pc' = "decide" /\ error' = "none" /\ todo' = <<Write(0, "failure", "data")>>
  /\ UNCHANGED <<args, bundle, step, batch, planner, proposals, worker, measured>>

Decide ==
  /\ At("record") \/ At("decide")
  /\ Goto("return", <<Write(0, "decision", outcome.class)>>)
  /\ UNCHANGED <<args, bundle, step, outcome, planner, proposals, worker, measured>>

Return ==
  /\ At("return")
  /\ pc' = "returned"
  /\ UNCHANGED <<args, bundle, todo, step, batch, error, outcome, planner, proposals,
                 worker, measured>>

(* The controller's process dies; a worker it has goes on. *)
Crash ==
  /\ pc \notin Ended
  /\ pc' = "crashed"
  /\ UNCHANGED <<args, bundle, todo, step, batch, error, outcome, planner, proposals,
                 worker, measured>>

Answers == {"valid", "invalid", "none"}   \* a proposal, or no usable one
Plan ==
  \/ ChoosePlanner \/ ProposeOffline \/ PlannerLimit \/ PlannerRefuses \/ SendRequest
  \/ AnswerLost \/ AnswerUnaccountable
  \/ \E usage \in Usages, answer \in Answers : AnswerComes(usage, answer)
Store == WriteTemporary \/ ReplaceFile \/ TruncateManifest \/ WriteManifest \/ RefuseWrite
Measure == LaunchWorker \/ AwaitFailure \/ Collect
Conclude ==
  Select \/ Gate \/ Replay \/ Calibrate \/ Compare \/ Classify \/ Handle \/ Decide \/ Return
Controller == Plan \/ Store \/ Measure \/ Conclude
Worker == WorkerWrites \/ WorkerFinishes \/ WorkerFails
Next == Controller \/ Worker \/ Crash

Spec == Init /\ [][Next]_vars
FairSpec == Spec /\ WF_vars(Controller)
-----------------------------------------------------------------------------
(* Every variable keeps its type; a file of the bundle is named by a batch *)
(* and a kind.                                                             *)
Phases == {"setup", "propose", "asked", "select", "gate", "launch", "replay", "waiting",
           "calibrate", "compare", "classify", "record", "decide", "return"}
Sources == {"none", "LIVE", "FALLBACK", "AFTER_ERROR", "SAVED"}
Qualities == {"none", "complete", "limited"}
Contents == {"data", "valid", "invalid", "fallback", "terminal", "partial", "whole", "large", "torn",
             "A", "B", "C", "D"} \cup Sources \cup Qualities
Kinds == {"limits", "benchmark_config", "provenance", "candidate_universe", "batch1_selection",
          "batch2_frozen_control", "cpu_gates", "gpu_correctness", "gpu_topology",
          "raw_device_timing", "timing_summary", "observations", "temporary", "failure", "decision",
          "worker", "provider_error", "proposal", "validation", "controls_and_guidance",
          "replay_comparison", "requested_hashes", "replay_note", "replay_source", "calibration",
          "feedback", "control_comparisons", "resource_usage"}
Names == (0 .. 2) \X Kinds
IsBundle(f) == DOMAIN f \subseteq Names /\ \A n \in DOMAIN f : f[n] \in Contents

TypeOK ==
  /\ args \in Invocations
  /\ IsBundle(files) /\ IsBundle(manifest)
  /\ todo \in Seq([name : Names, content : Contents])
  /\ step \in {"check", "temporary", "replaced", "manifest"}
  /\ pc \in Phases \cup Ended /\ batch \in Batches
  /\ error \in {"none", "invalid", "timeout", "budget", "size", "blocked"}
  /\ outcome \in [status : {"BLOCKED", "COMPLETED", "COMPLETED_WITH_LIMITATIONS",
                            "FAILED_VALIDATION", "BUDGET_EXHAUSTED"},
                  class : {"A", "B", "C", "D"}]
  /\ calls \in Nat /\ tokens \in Nat /\ sent \in Seq(Batches)
  /\ source \in [Batches -> Sources] /\ given \in [Batches -> Answers]
  /\ worker \in {"none", "running", "done", "failed"}
  /\ measured \in [Batches -> Qualities]

Holds(name, content) == name \in DOMAIN files /\ files[name] = content

(* verified_batch2_feedback: the manifest lists exactly what is there, and *)
(* Batch 1 is validated, measured in full, passed, and summarised.         *)
Accepted ==
  /\ manifest = files
  /\ <<0, "candidate_universe">> \in DOMAIN files
  /\ <<0, "batch1_selection">> \in DOMAIN files /\ <<0, "benchmark_config">> \in DOMAIN files
  /\ Holds(<<1, "validation">>, "valid")
  /\ \A i \in DOMAIN Results : Holds(<<1, Results[i]>>, "complete")
  /\ Holds(<<1, "feedback">>, "complete")

(* Whatever stopped the controller, and whatever its worker left behind or *)
(* still writes, the preflight takes a bundle for evidence only when the   *)
(* worker did measure Batch 1 in full; and a run that came to its decision *)
(* has not spoilt the Batch 1 it had checkpointed.                         *)
EvidenceIsExact ==
  /\ Accepted => args.gpu /\ measured[1] = "complete"
  /\ pc = "returned" /\ measured[1] = "complete" /\ <<1, "feedback">> \in DOMAIN files => Accepted

(* Decision A is reached only by a run whose two requests were both        *)
(* answered with a valid proposal, whose two batches were both measured    *)
(* in full, and whose comparison of the controls and resource usage are in *)
(* the bundle: no fallback, saved proposal or replay ends in A, and no run *)
(* that was refused a file, be it the last one before the decision.        *)
LiveMeansLive ==
  Holds(Decision, "A") =>
    /\ sent = <<1, 2>> /\ \A b \in Batches : given[b] = "valid"
    /\ \A b \in Batches : measured[b] = "complete" /\ Holds(<<b, "proposal">>, "LIVE")
    /\ {<<0, "control_comparisons">>, <<0, "resource_usage">>} \subseteq DOMAIN files

(* A request is never sent twice for a batch, whatever became of the first *)
(* one, the second is never sent without the first, and never before the   *)
(* feedback of Batch 1 is in the bundle.                                   *)
OneRequestPerBatch ==
  /\ sent \in {<< >>, <<1>>, <<1, 2>>}
  /\ sent = <<1, 2>> => <<1, "feedback">> \in DOMAIN files

(* Once a planner limit is reached, as the reported tokens or the bundle   *)
(* say, no request is sent and no GPU worker started any more.             *)
LimitReached ==
  tokens > MaxTokens \/ \E b \in Batches : Holds(<<b, "provider_error">>, "terminal")
LimitEndsRun == [][LimitReached => sent' = sent /\ worker' = worker]_vars

(* A run whose process lives returns with its decision in the bundle and   *)
(* in the manifest, however full the bundle got and wherever a write was   *)
(* refused.  Two things only may take the decision's place: the output of  *)
(* a failed worker, which counts against the size too, and a reason so     *)
(* long that the reserve does not hold failure.json and decision.json.     *)
Decided == pc = "returned" /\ Decision \in DOMAIN files /\ manifest = files
Long == 2 * args.note > Reserve
Crowded == pc = "raised" /\ (Long \/ \E b \in Batches : Unfinished(b) \in DOMAIN files)
EndsWithDecision == <>(pc = "crashed" \/ Decided \/ Crowded)
================================================================================
