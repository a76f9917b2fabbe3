---------------------------- MODULE ExperimentBatch ----------------------------
(***************************************************************************)
(* run_batch (src/src/matmul_inspector/experiment_batch.py): a sequential  *)
(* batch of predefined candidates with incrementally persisted results.    *)
(*                                                                         *)
(* Each persist replaces three files one after the other; the process may  *)
(* die between any two steps, and the files are all that is left of it.    *)
(***************************************************************************)
EXTENDS Integers, Sequences, SequencesExt

CONSTANTS
  Candidates,   \* the candidates of the configuration, told apart by id
  Repetitions,  \* how often each valid one is scheduled
  Events        \* which events of EventKinds may happen

(* "invalid": a candidate, or the batch, is misconfigured; "fail": an       *)
(* experiment fails; "raise": the runner raises; "tear": the worker dies    *)
(* inside its payload; "interrupt": Ctrl-C; "die": run_batch is killed or   *)
(* an exception leaves it.                                                  *)
EventKinds == {"invalid", "fail", "raise", "tear", "interrupt", "die"}

ASSUME BatchConstants ==
  /\ Candidates # {} /\ IsFiniteSet(Candidates)
  /\ Repetitions \in Nat \ {0}
  /\ Events \subseteq EventKinds

VARIABLES
  pc,        \* where run_batch is
  invalid,   \* candidates whose validation failed
  schedule,  \* the planned runs, in order
  entries,   \* the scheduled entries of batch["entries"]
  final,     \* finished_at_utc is set
  results,   \* batch_results.json
  summary,   \* summary.json
  csv,       \* summary.csv
  launched,  \* history: calls of run_experiment
  asked      \* history: a Ctrl-C was delivered

memory == <<invalid, schedule, entries, final>>
files == <<results, summary, csv>>
vars == <<pc, memory, files, launched, asked>>
-----------------------------------------------------------------------------
(* An entry: did the experiment succeed, is its failure stage              *)
(* "interruption", did it leave a result.json.  A Ctrl-C after the worker's *)
(* result was merged gives a success with an interruption.                 *)
BatchEntry == {e \in [ok : BOOLEAN, stop : BOOLEAN, recorded : BOOLEAN] : e.ok => e.recorded}

Valid == Candidates \ invalid
Planned(s) == Repetitions * Cardinality(s)

(* Every repetition is a permutation of the valid candidates. *)
Schedules(s) ==
  LET n == Cardinality(s) IN
  {f \in [1 .. Planned(s) -> s] : \A r \in 0 .. Repetitions - 1 :
     {f[r * n + k] : k \in 1 .. n} = s}

Interrupted == \E i \in DOMAIN entries : entries[i].stop
Runs(c) == {i \in DOMAIN entries : schedule[i] = c}

(* Mutant of Complete: the runs still to come are not waited for. *)
CompleteSoFar == {c \in Valid : Runs(c) # {} /\ \A i \in Runs(c) : entries[i].ok}

(* Candidates in the ranking: every repetition ran and succeeded. *)
Complete ==
  {c \in Valid : Cardinality(Runs(c)) = Repetitions /\ \A i \in Runs(c) : entries[i].ok}

(* Mutant of Aggregate: remaining runs are forgotten. *)
AggregateOfAttempts ==
  IF Interrupted THEN "interrupted"
  ELSE IF invalid # {} \/ \E i \in DOMAIN entries : ~entries[i].ok
  THEN "completed_with_failures" ELSE "success"

(* The status in summary.json, also while the batch runs. *)
Aggregate ==
  IF Interrupted THEN "interrupted"
  ELSE IF \/ invalid # {}
          \/ \E i \in DOMAIN entries : ~entries[i].ok
          \/ Len(entries) # Len(schedule)
  THEN "completed_with_failures" ELSE "success"

(* The status in batch_results.json. *)
Status == IF final \/ Interrupted THEN Aggregate ELSE "running"

Init ==
  /\ pc = "configure"
  /\ invalid = {} /\ schedule = <<>> /\ entries = <<>> /\ final = FALSE
  /\ results = [status |-> "none", entries |-> <<>>]
  /\ summary = [status |-> "none", listed |-> 0, ranked |-> {}]
  /\ csv = <<>>
  /\ launched = 0 /\ asked = FALSE

Goto(l) == pc' = l

(* The values of asked' if `event`, which may not be able to happen, is    *)
(* the cause of a step.                                                    *)
Cause(event, value) == IF event \in Events THEN {value} ELSE {}

(* validate_batch_config raises: three final files without entries.        *)
RefuseBatch ==
  /\ pc = "configure"
  /\ asked' \in Cause("invalid", asked) \cup Cause("interrupt", TRUE)
  /\ results' = [status |-> "configuration_failed", entries |-> <<>>]
  /\ Goto("refuse_summary")
  /\ UNCHANGED <<memory, summary, csv, launched>>
RefuseSummary ==
  /\ pc = "refuse_summary"
  /\ summary' = [status |-> "configuration_failed", listed |-> 0, ranked |-> {}]
  /\ Goto("refuse_csv")
  /\ UNCHANGED <<memory, results, csv, launched, asked>>
RefuseCsv == pc = "refuse_csv" /\ Goto("returned") /\ UNCHANGED <<memory, files, launched, asked>>

(* Validate the candidates one by one and plan the runs of the valid ones. *)
(* `except BaseException` takes a Ctrl-C for an invalid candidate.         *)
Plan ==
  /\ pc = "configure"
  /\ invalid' \in SUBSET Candidates
  /\ asked' \in IF invalid' = {} THEN {asked}
                ELSE Cause("invalid", asked) \cup Cause("interrupt", TRUE)
  /\ schedule' \in Schedules(Candidates \ invalid')
  /\ Goto("results")
  /\ UNCHANGED <<entries, final, files, launched>>
-----------------------------------------------------------------------------
(* _persist *)
WriteResults ==
  /\ pc = "results"
  /\ results' = [status |-> Status, entries |-> entries]
  /\ Goto("summary")
  /\ UNCHANGED <<memory, summary, csv, launched, asked>>

(* Mutant of WriteSummary: the table is only written at the end. *)
WriteSummarySkipsCsv ==
  /\ pc = "summary"
  /\ summary' = [status |-> Aggregate, listed |-> Len(entries), ranked |-> Complete]
  /\ IF final THEN Goto("csv") ELSE Goto("loop")
  /\ UNCHANGED <<memory, results, csv, launched, asked>>

WriteSummary ==
  /\ pc = "summary"
  /\ summary' = [status |-> Aggregate, listed |-> Len(entries), ranked |-> Complete]
  /\ Goto("csv")
  /\ UNCHANGED <<memory, results, csv, launched, asked>>

WriteCsv ==
  /\ pc = "csv"
  /\ csv' = entries
  /\ IF final THEN Goto("returned") ELSE Goto("loop")
  /\ UNCHANGED <<memory, results, summary, launched, asked>>
-----------------------------------------------------------------------------
(* The loop over the schedule *)

Launch ==
  /\ pc = "loop" /\ ~Interrupted
  /\ Len(entries) < Len(schedule)
  /\ launched' = launched + 1
  /\ Goto("child")
  /\ UNCHANGED <<memory, files, asked>>

(* Mutant of AppendEntry: the entry is only kept in memory. *)
AppendUnsaved(e) ==
  /\ entries' = Append(entries, e)
  /\ Goto("loop")
  /\ UNCHANGED <<invalid, schedule, final, files, launched>>

AppendEntry(e) ==
  /\ entries' = Append(entries, e)
  /\ Goto("results")
  /\ UNCHANGED <<invalid, schedule, final, files, launched>>

(* The worker dies with part of its payload in the pipe: run_experiment     *)
(* waits in recv, until a Ctrl-C, for the rest.                             *)
Tear ==
  /\ pc = "child"
  /\ "tear" \in Events
  /\ Goto("torn")
  /\ UNCHANGED <<memory, files, launched, asked>>

(* run_experiment returns a result, which result.json holds as well.  It    *)
(* takes a Ctrl-C during its own validation for a configuration failure.    *)
ChildReturns(ok, stop) ==
  /\ pc \in {"child", "torn"}
  /\ pc = "torn" => stop /\ ~ok
  /\ asked' \in IF stop THEN Cause("interrupt", TRUE)
                ELSE IF ok THEN {asked}
                ELSE Cause("fail", asked) \cup Cause("interrupt", TRUE)
  /\ AppendEntry([ok |-> ok, stop |-> stop, recorded |-> TRUE])

(* run_experiment raises KeyboardInterrupt, or anything else. *)
ChildRaises(stop) ==
  /\ pc \in {"child", "torn"}
  /\ pc = "torn" => stop
  /\ asked' \in IF stop THEN Cause("interrupt", TRUE) ELSE Cause("raise", asked)
  /\ AppendEntry([ok |-> FALSE, stop |-> stop, recorded |-> FALSE])

(* Mutant of LoopEnds: the first failure ends the batch. *)
LoopEndsOnFailure ==
  \/ \E i \in DOMAIN entries : ~entries[i].ok
  \/ Len(entries) = Len(schedule)

LoopEnds == Interrupted \/ Len(entries) = Len(schedule)

Finish ==
  /\ pc = "loop" /\ LoopEnds
  /\ final' = TRUE
  /\ Goto("results")
  /\ UNCHANGED <<invalid, schedule, entries, files, launched, asked>>

(* An exception outside the executor call, or the death of the process.    *)
Die ==
  /\ pc \notin {"returned", "dead"}
  /\ asked' \in Cause("die", asked) \cup
       IF pc \in {"child", "torn"} THEN {} ELSE Cause("interrupt", TRUE)
  /\ Goto("dead")
  /\ UNCHANGED <<memory, files, launched>>

Ended == pc \in {"returned", "dead"} /\ UNCHANGED vars

Step ==
  \/ RefuseBatch \/ RefuseSummary \/ RefuseCsv \/ Plan
  \/ WriteResults \/ WriteSummary \/ WriteCsv
  \/ Launch \/ Finish
  \/ \E ok, stop \in BOOLEAN : ChildReturns(ok, stop)
  \/ \E stop \in BOOLEAN : ChildRaises(stop)

Next == Step \/ Tear \/ Die \/ Ended
Spec == Init /\ [][Next]_vars

(* run_batch keeps taking steps: file writes return, and so does the        *)
(* runner, unless it waits for the rest of a torn payload (the exception of *)
(* ExperimentRunner's ControllerReturns).  No Ctrl-C can be counted on.     *)
FairSpec == Spec /\ WF_vars(Step /\ pc # "torn")
-----------------------------------------------------------------------------
(* Every variable holds a value of its kind. *)
TypeOK ==
  /\ pc \in {"configure", "refuse_summary", "refuse_csv", "results", "summary", "csv",
             "loop", "child", "torn", "returned", "dead"}
  /\ invalid \subseteq Candidates
  /\ schedule \in Seq(Candidates)
  /\ entries \in Seq(BatchEntry) /\ Len(entries) <= Len(schedule)
  /\ final \in BOOLEAN
  /\ results.entries \in Seq(BatchEntry) /\ csv \in Seq(BatchEntry)
  /\ summary.listed \in Nat /\ summary.ranked \subseteq Candidates
  /\ launched \in Nat /\ asked \in BOOLEAN

Log == INSTANCE BatchLog WITH
  Batches <- {"batch"},
  log <- [b \in {"batch"} |-> [status |-> results.status, listed |-> Len(results.entries)]],
  launched <- [b \in {"batch"} |-> launched]

(* Whenever the process dies, batch_results.json is what BatchLog promises: *)
(* at most one experiment is missing from it, and none when it is final.    *)
ImplementsBatchLog == Log!Spec

(* The three files are replaced one after the other: whenever the process   *)
(* dies they differ by one experiment at most, and the table is the older.  *)
FilesAgree ==
  /\ Len(csv) <= summary.listed
  /\ summary.listed <= Len(results.entries)
  /\ Len(results.entries) <= Len(csv) + 1
  /\ IsPrefix(csv, results.entries)

(* "success", in either file, at any time: every repetition of every        *)
(* candidate was launched and succeeded, and every candidate is ranked.     *)
SuccessIsComplete ==
  /\ summary.status = "success" =>
       launched = Planned(Candidates) /\ summary.ranked = Candidates
  /\ results.status = "success" =>
       launched = Planned(Candidates) /\ \A i \in DOMAIN results.entries : results.entries[i].ok

(* A recorded interruption is the last thing a batch records. *)
InterruptionIsLast == \A i \in DOMAIN entries : entries[i].stop => i = Len(entries)

(* A candidate that summary.json has ranked once stays ranked: no later     *)
(* run can take it out of the ranking a reader may have seen.               *)
RankedStayRanked == [][summary.ranked \subseteq summary'.ranked]_vars

(* "Compilation, execution, correctness, benchmark, and timeout failures do *)
(* not stop later candidates": unless it is interrupted, dies or is left    *)
(* waiting for a torn payload, every planned run of an accepted batch is    *)
(* made and the batch returns.                                              *)
FailuresDoNotStopIt ==
  <>(\/ asked \/ pc \in {"dead", "torn"}
     \/ pc = "returned" /\ results.status = "configuration_failed"
     \/ pc = "returned" /\ launched = Planned(Valid))
-----------------------------------------------------------------------------
(* A claim of the documentation that the code does not keep. *)

(* docs/experiment_runner.md: "An interruption stops new scheduling".       *)
InterruptionStopsScheduling == [][asked => launched' = launched]_vars
=============================================================================
