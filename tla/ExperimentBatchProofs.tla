------------------------- MODULE ExperimentBatchProofs -------------------------
(***************************************************************************)
(* Proofs about ExperimentBatch, for any candidates, repetitions and       *)
(* events.                                                                 *)
(***************************************************************************)
EXTENDS ExperimentBatch, SequenceTheorems, FiniteSetTheorems, TLAPS

(* t has the entries of s and at most one more. *)
Extends(t, s) == t = s \/ \E e \in BatchEntry : t = Append(s, e)

(* How far each file is behind the entries in memory, by where run_batch is. *)
FileInv ==
  /\ Extends(results.entries, csv)
  /\ summary.listed \in {Len(csv), Len(results.entries)}
  /\ pc \in {"results", "loop", "child", "torn"} =>
       csv = results.entries /\ summary.listed = Len(results.entries)
  /\ pc = "results" => Extends(entries, results.entries)
  /\ pc \in {"summary", "csv", "loop", "child", "torn"} => results.entries = entries
  /\ pc = "csv" => summary.listed = Len(results.entries)

(* What the status on file says. *)
StatusInv ==
  /\ pc = "configure" => results.status = "none"
  /\ pc \in {"configure", "refuse_summary", "refuse_csv"} =>
       results.entries = <<>> /\ csv = <<>> /\ schedule = <<>>
  /\ pc \in {"summary", "csv", "loop", "child", "torn"} => results.status = Status
  /\ pc \in {"loop", "child", "torn"} => ~final
  /\ pc = "results" =>
       \/ results.status = "none" /\ entries = <<>> /\ results.entries = <<>> /\ ~final
       \/ results.status = "running" /\ ~final /\ launched = Len(results.entries) + 1
       \/ final /\ entries = results.entries /\ ~Interrupted /\ results.status = "running"
       \/ final /\ entries = results.entries /\ Interrupted /\ results.status = "interrupted"

(* Every experiment in memory was launched, and at most one is not there.  *)
LaunchInv ==
  /\ pc \in {"configure", "refuse_summary", "refuse_csv"} => launched = 0 /\ entries = <<>> /\ ~final
  /\ pc \in {"results", "summary", "csv", "loop"} => launched = Len(entries)
  /\ pc \in {"child", "torn"} => launched = Len(entries) + 1 /\ Len(entries) < Len(schedule) /\ ~Interrupted

BInv == TypeOK /\ FileInv /\ StatusInv /\ LaunchInv /\ InterruptionIsLast

(* A function on 1 .. n with values in S is a sequence of members of S: the *)
(* schedule of run_batch is one.                                            *)
LEMMA FunctionIsSeq == ASSUME NEW n \in Nat, NEW S, NEW f \in [1 .. n -> S] PROVE f \in Seq(S)
  BY SeqDef

(* run_batch starts, before any file exists, in a state of the invariant.   *)
LEMMA BatchInit == ASSUME Init PROVE BInv
<1> USE DEF Init
<1>0. /\ schedule \in Seq(Candidates) /\ entries \in Seq(BatchEntry)
      /\ results.entries \in Seq(BatchEntry) /\ csv \in Seq(BatchEntry)
  BY EmptySeq
<1>6. Len(entries) <= Len(schedule)
  OBVIOUS
<1>1. TypeOK
  BY <1>0, <1>6 DEF TypeOK
<1>2. results.entries = <<>> /\ results.status = "none" /\ summary.listed = 0
  OBVIOUS
<1>4. FileInv
  BY <1>2 DEF FileInv, Extends
<1>5. StatusInv /\ LaunchInv
  BY <1>2 DEF StatusInv, LaunchInv
<1>3. InterruptionIsLast
  BY DEF InterruptionIsLast
<1> QED
  BY <1>1, <1>3, <1>4, <1>5 DEF BInv

(* A child's end adds one entry that the files do not have yet. *)
LEMMA AppendStep ==
  ASSUME BInv, pc \in {"child", "torn"}, NEW e \in BatchEntry, asked' \in BOOLEAN, AppendEntry(e)
  PROVE  BInv'
<1> USE DEF AppendEntry, Goto, files
<1>1. /\ entries \in Seq(BatchEntry) /\ Len(entries') = Len(entries) + 1
      /\ entries' \in Seq(BatchEntry) /\ entries' # entries
      /\ \A i \in 1 .. Len(entries) : entries'[i] = entries[i]
  BY AppendProperties DEF BInv, TypeOK
<1>2. TypeOK'
  BY <1>1 DEF BInv, TypeOK, LaunchInv
<1>3. FileInv'
  BY DEF BInv, FileInv, Extends
<1>4. ~Interrupted /\ ~final /\ results.status = "running" /\ results.entries = entries
      /\ launched = Len(entries) + 1
  BY DEF BInv, LaunchInv, StatusInv, FileInv, Status
<1>5. StatusInv' /\ LaunchInv'
  BY <1>1, <1>4 DEF StatusInv, LaunchInv
<1>6. InterruptionIsLast'
  BY <1>1, <1>4 DEF InterruptionIsLast, Interrupted, TypeOK, BInv
<1> QED
  BY <1>2, <1>3, <1>5, <1>6 DEF BInv

(* A refused batch has no entries, in memory or on file. *)
LEMMA RefusedStep ==
  ASSUME BInv, pc \in {"configure", "refuse_summary", "refuse_csv"},
         pc' \in {"refuse_summary", "refuse_csv", "returned"},
         UNCHANGED <<memory, csv, launched>>, results'.entries = <<>>,
         summary'.listed = 0, summary'.ranked \subseteq Candidates, asked' \in BOOLEAN
  PROVE  BInv'
<1> USE DEF memory
<1>1. /\ csv = <<>> /\ schedule = <<>> /\ entries = <<>> /\ launched = 0 /\ ~final
      /\ invalid \subseteq Candidates
  BY DEF BInv, TypeOK, StatusInv, LaunchInv
<1>2. /\ csv' = <<>> /\ schedule' = <<>> /\ entries' = <<>> /\ launched' = 0 /\ ~final'
      /\ invalid' \subseteq Candidates
  BY <1>1
<1>3. Len(csv') = 0 /\ Len(entries') = 0 /\ Len(schedule') = 0
  BY <1>2
<1>4. /\ schedule' \in Seq(Candidates) /\ entries' \in Seq(BatchEntry)
      /\ results'.entries \in Seq(BatchEntry) /\ csv' \in Seq(BatchEntry)
  BY <1>2, EmptySeq
<1>5. TypeOK'
  <2>1. final' \in BOOLEAN
    BY DEF BInv, TypeOK
  <2> QED
    BY <1>2, <1>3, <1>4, <2>1 DEF TypeOK
<1>6. FileInv'
  <2>1. results'.entries = csv' /\ summary'.listed = Len(csv') /\ entries' = results'.entries
    BY <1>2, <1>3
  <2> QED
    BY <2>1 DEF FileInv, Extends
<1>7. StatusInv' /\ LaunchInv'
  BY <1>2 DEF StatusInv, LaunchInv
<1>8. InterruptionIsLast'
  BY <1>2 DEF InterruptionIsLast
<1> QED
  BY <1>5, <1>6, <1>7, <1>8 DEF BInv

(* Every step of run_batch, its death included, keeps the invariant: one    *)
(* case per action.                                                         *)
LEMMA BatchNext == ASSUME BInv, BatchConstants, [Next]_vars PROVE BInv'
<1> USE DEF Goto, memory, files, Cause
<1>1. CASE RefuseBatch \/ RefuseSummary \/ RefuseCsv
  <2>0. results.entries = <<>> /\ summary.listed = 0
    BY <1>1, EmptySeq DEF RefuseBatch, RefuseSummary, RefuseCsv, BInv, StatusInv, FileInv
  <2>1. summary.ranked \subseteq Candidates /\ asked \in BOOLEAN
    BY DEF BInv, TypeOK
  <2>2. CASE RefuseBatch
    <3>1. results'.entries = <<>> /\ asked' \in BOOLEAN
      BY <2>1, <2>2 DEF RefuseBatch
    <3> QED
      BY <2>0, <2>1, <2>2, <3>1, RefusedStep DEF RefuseBatch
  <2>3. CASE RefuseSummary
    <3>1. summary'.listed = 0 /\ summary'.ranked = {}
      BY <2>3 DEF RefuseSummary
    <3> QED
      BY <2>0, <2>1, <2>3, <3>1, RefusedStep DEF RefuseSummary
  <2>4. CASE RefuseCsv
    BY <2>0, <2>1, <2>4, RefusedStep DEF RefuseCsv
  <2> QED
    BY <1>1, <2>2, <2>3, <2>4
<1>2. CASE Plan
  <2> USE <1>2 DEF Plan
  <2>1. schedule' \in Seq(Candidates)
    <3>1. Planned(Candidates \ invalid') \in Nat
      <4>1. IsFiniteSet(Candidates \ invalid')
        BY FS_Subset DEF BatchConstants
      <4> QED
        BY <4>1, FS_CardinalityType DEF BatchConstants, Planned
    <3> QED
      BY <3>1, FunctionIsSeq DEF Schedules
  <2>2. Len(schedule') \in Nat
    BY <2>1
  <2>3. TypeOK'
    <3>1. entries' = <<>> /\ Len(entries') = 0
      BY EmptySeq DEF BInv, LaunchInv
    <3>2. Len(entries') <= Len(schedule')
      BY <2>2, <3>1, <2>1, LenProperties
    <3>3. asked' \in BOOLEAN
      BY DEF BInv, TypeOK
    <3> QED
      BY <2>1, <3>2, <3>3 DEF BInv, TypeOK
  <2>4. FileInv'
    <3>1. /\ results.entries = csv /\ entries = results.entries /\ summary.listed = Len(csv)
      BY EmptySeq DEF BInv, FileInv, StatusInv, LaunchInv
    <3>2. UNCHANGED <<results, csv, entries, summary>> /\ pc' = "results"
      OBVIOUS
    <3> QED
      BY <3>1, <3>2 DEF FileInv, Extends
  <2>5. StatusInv' /\ LaunchInv'
    <3>1. /\ pc' = "results" /\ results' = results /\ results.status = "none" /\ ~final'
          /\ launched' = 0 /\ entries' = entries
      BY DEF BInv, StatusInv, LaunchInv
    <3>2. entries = <<>> /\ results.entries = <<>>
      BY DEF BInv, StatusInv, LaunchInv
    <3>3. Len(entries) = 0
      BY <3>2
    <3> QED
      BY <3>1, <3>2, <3>3 DEF StatusInv, LaunchInv
  <2>6. InterruptionIsLast'
    BY DEF BInv, InterruptionIsLast
  <2> QED
    BY <2>3, <2>4, <2>5, <2>6 DEF BInv
<1>3. CASE WriteResults
  <2>1. TypeOK'
    BY <1>3 DEF BInv, TypeOK, WriteResults
  <2>2. FileInv'
    BY <1>3 DEF BInv, FileInv, Extends, WriteResults
  <2>3. Status' = Status
    BY <1>3 DEF WriteResults, Status, Aggregate, Interrupted
  <2>4. StatusInv' /\ LaunchInv'
    BY <1>3, <2>3 DEF BInv, StatusInv, LaunchInv, WriteResults
  <2>5. InterruptionIsLast'
    BY <1>3 DEF BInv, InterruptionIsLast, WriteResults
  <2> QED
    BY <2>1, <2>2, <2>4, <2>5 DEF BInv
<1>4. CASE WriteSummary \/ WriteCsv
  <2>1. TypeOK'
    BY <1>4 DEF BInv, TypeOK, WriteSummary, WriteCsv, Complete, Valid
  <2>2. FileInv'
    BY <1>4 DEF BInv, FileInv, Extends, WriteSummary, WriteCsv
  <2>3. Status' = Status
    BY <1>4 DEF WriteSummary, WriteCsv, Status, Aggregate, Interrupted
  <2>4. StatusInv' /\ LaunchInv'
    BY <1>4, <2>3 DEF BInv, StatusInv, LaunchInv, WriteSummary, WriteCsv
  <2>5. InterruptionIsLast'
    BY <1>4 DEF BInv, InterruptionIsLast, WriteSummary, WriteCsv
  <2> QED
    BY <2>1, <2>2, <2>4, <2>5 DEF BInv
<1>5. CASE Launch
  <2>1. TypeOK'
    BY <1>5 DEF BInv, TypeOK, Launch
  <2>2. FileInv'
    BY <1>5 DEF BInv, FileInv, Extends, Launch
  <2>3. Status' = Status /\ Interrupted' = Interrupted
    BY <1>5 DEF Launch, Status, Aggregate, Interrupted
  <2>4. StatusInv' /\ LaunchInv'
    BY <1>5, <2>3 DEF BInv, StatusInv, LaunchInv, Launch
  <2>5. InterruptionIsLast'
    BY <1>5 DEF BInv, InterruptionIsLast, Launch
  <2> QED
    BY <2>1, <2>2, <2>4, <2>5 DEF BInv
<1>6. CASE Finish
  <2>1. TypeOK'
    BY <1>6 DEF BInv, TypeOK, Finish
  <2>2. FileInv'
    BY <1>6 DEF BInv, FileInv, Extends, Finish
  <2>3. results.status = IF Interrupted THEN "interrupted" ELSE "running"
    BY <1>6 DEF Finish, BInv, StatusInv, Status, Aggregate
  <2>4. Interrupted' = Interrupted
    BY <1>6 DEF Finish, Interrupted
  <2>5. StatusInv' /\ LaunchInv'
    BY <1>6, <2>3, <2>4 DEF BInv, StatusInv, LaunchInv, FileInv, Finish
  <2>6. InterruptionIsLast'
    BY <1>6 DEF BInv, InterruptionIsLast, Finish
  <2> QED
    BY <2>1, <2>2, <2>5, <2>6 DEF BInv
<1>7. ASSUME NEW ok \in BOOLEAN, NEW stop \in BOOLEAN, ChildReturns(ok, stop)
      PROVE  BInv'
  <2>1. [ok |-> ok, stop |-> stop, recorded |-> TRUE] \in BatchEntry
    BY DEF BatchEntry
  <2>2. asked' \in BOOLEAN
    BY <1>7 DEF ChildReturns, BInv, TypeOK
  <2> QED
    BY <1>7, <2>1, <2>2, AppendStep DEF ChildReturns
<1>8. ASSUME NEW stop \in BOOLEAN, ChildRaises(stop)
      PROVE  BInv'
  <2>1. [ok |-> FALSE, stop |-> stop, recorded |-> FALSE] \in BatchEntry
    BY DEF BatchEntry
  <2>2. asked' \in BOOLEAN
    BY <1>8 DEF ChildRaises, BInv, TypeOK
  <2> QED
    BY <1>8, <2>1, <2>2, AppendStep DEF ChildRaises
<1>9. CASE Die
  <2>1. TypeOK'
    BY <1>9 DEF BInv, TypeOK, Die
  <2>2. FileInv' /\ StatusInv' /\ LaunchInv' /\ InterruptionIsLast'
    BY <1>9 DEF BInv, FileInv, StatusInv, LaunchInv, InterruptionIsLast, Extends, Die
  <2> QED
    BY <2>1, <2>2 DEF BInv
<1>10. CASE Tear
  <2>1. TypeOK'
    BY <1>10 DEF BInv, TypeOK, Tear
  <2>2. Status' = Status
    BY <1>10 DEF Tear, Status, Aggregate, Interrupted
  <2>3. FileInv' /\ StatusInv' /\ LaunchInv' /\ InterruptionIsLast'
    BY <1>10, <2>2
    DEF BInv, FileInv, StatusInv, LaunchInv, InterruptionIsLast, Interrupted, Extends, Tear
  <2> QED
    BY <2>1, <2>3 DEF BInv
<1>11. CASE UNCHANGED vars
  BY <1>11 DEF vars, BInv, TypeOK, FileInv, StatusInv, LaunchInv, InterruptionIsLast, Extends,
     Status, Aggregate, Interrupted
<1> QED
  BY <1>1, <1>2, <1>3, <1>4, <1>5, <1>6, <1>7, <1>8, <1>9, <1>10, <1>11
  DEF Next, Step, Ended

(* The inductive invariant of run_batch holds in every reachable state.     *)
THEOREM BatchInvariant == Spec => []BInv
<1>1. Init => BInv
  BY BatchInit
<1>2. BInv /\ [Next]_vars => BInv'
  BY BatchNext, BatchConstants
<1> QED
  BY <1>1, <1>2, PTL DEF Spec

(* Every variable keeps its type, whatever the candidates, the number of    *)
(* repetitions and the events are.                                          *)
THEOREM BatchTypeCorrect == Spec => []TypeOK
<1>1. BInv => TypeOK
  BY DEF BInv
<1> QED
  BY <1>1, BatchInvariant, PTL

(* A recorded interruption is the last entry of any batch. *)
THEOREM BatchEndsWithInterruption == Spec => []InterruptionIsLast
<1>1. BInv => InterruptionIsLast
  BY DEF BInv
<1> QED
  BY <1>1, BatchInvariant, PTL

(* A sequence is a prefix of itself and of itself with one more entry:      *)
(* summary.csv lags the entries by one append at most.                      *)
LEMMA PrefixOfExtension ==
  ASSUME NEW s \in Seq(BatchEntry), NEW t \in Seq(BatchEntry), Extends(t, s)
  PROVE  IsPrefix(s, t) /\ Len(s) <= Len(t) /\ Len(t) <= Len(s) + 1
<1>1. Len(s) <= Len(t) /\ Len(t) <= Len(s) + 1 /\ \A i \in 1 .. Len(s) : t[i] = s[i]
  BY AppendProperties DEF Extends
<1>2. SubSeq(s, 1, Len(s)) = SubSeq(t, 1, Len(s))
  BY <1>1
<1> QED
  BY <1>1, <1>2 DEF IsPrefix

(* Wherever the process dies, the three files differ by one entry at most. *)
THEOREM BatchFilesAgree == Spec => []FilesAgree
<1>1. ASSUME BInv PROVE FilesAgree
  <2>1. /\ csv \in Seq(BatchEntry) /\ results.entries \in Seq(BatchEntry)
        /\ Extends(results.entries, csv)
        /\ summary.listed \in {Len(csv), Len(results.entries)}
    BY <1>1 DEF BInv, TypeOK, FileInv
  <2>2. IsPrefix(csv, results.entries) /\ Len(csv) <= Len(results.entries)
        /\ Len(results.entries) <= Len(csv) + 1
    BY <2>1, PrefixOfExtension
  <2>3. Len(csv) \in Nat /\ Len(results.entries) \in Nat
    BY <2>1
  <2> QED
    BY <2>1, <2>2, <2>3 DEF FilesAgree
<1> QED
  BY <1>1, BatchInvariant, PTL
-----------------------------------------------------------------------------
FileLog == [status |-> results.status, listed |-> Len(results.entries)]

(* The steps of BatchLog, for the one log that batch_results.json is. *)
LEMMA LogSteps ==
  /\ FileLog = [status |-> "none", listed |-> 0] /\ launched = 0 => Log!Init
  /\ results.status = "none" /\ launched' = launched
     /\ (\E s \in {"running", "configuration_failed"} : FileLog' = [status |-> s, listed |-> 0])
     => Log!Open("batch")
  /\ results.status = "running" /\ launched = Len(results.entries)
     /\ launched' = launched + 1 /\ FileLog' = FileLog
     => Log!Launch("batch")
  /\ results.status = "running" /\ launched = Len(results.entries) + 1 /\ launched' = launched
     /\ (\E s \in {"running", "interrupted"} : FileLog' = [status |-> s, listed |-> launched])
     => Log!Record("batch")
  /\ results.status = "running" /\ launched = Len(results.entries) /\ launched' = launched
     /\ (\E s \in {"success", "completed_with_failures"} : FileLog' = [status |-> s, listed |-> launched])
     => Log!Close("batch")
  /\ FileLog' = FileLog /\ launched' = launched => UNCHANGED Log!vars
  BY DEF FileLog, Log!Init, Log!Open, Log!Launch, Log!Record, Log!Close, Log!Write, Log!vars

(* Every step of run_batch is a step of the abstract log, or leaves it      *)
(* alone: only the writes of batch_results.json and the launches count.     *)
LEMMA LogStep == ASSUME BInv, [Next]_vars PROVE [Log!Next]_(Log!vars)
<1> USE DEF Goto, memory, files
<1>1. CASE RefuseBatch
  <2>1. results.status = "none" /\ launched' = launched
    BY <1>1 DEF BInv, StatusInv, RefuseBatch
  <2>2. FileLog' = [status |-> "configuration_failed", listed |-> 0]
    BY <1>1 DEF RefuseBatch, FileLog
  <2> QED
    BY <2>1, <2>2, LogSteps DEF Log!Next
<1>2. CASE WriteResults
  <2>1. FileLog' = [status |-> Status, listed |-> Len(entries)] /\ launched' = launched
    BY <1>2 DEF WriteResults, FileLog
  <2>2. launched = Len(entries) /\ Len(entries) \in Nat /\ Len(results.entries) \in Nat
        /\ final \in BOOLEAN
    BY <1>2 DEF BInv, TypeOK, LaunchInv, WriteResults
  <2>3. CASE results.status = "none" /\ entries = <<>> /\ ~final
    <3>1. Status = "running" /\ Len(entries) = 0
      BY <2>3 DEF Status, Interrupted
    <3> QED
      BY <2>1, <2>2, <2>3, <3>1, LogSteps DEF Log!Next
  <2>4. CASE results.status = "running" /\ ~final /\ launched = Len(results.entries) + 1
    <3>1. Status \in {"running", "interrupted"}
      BY <2>4 DEF Status, Aggregate
    <3> QED
      BY <2>1, <2>2, <2>4, <3>1, LogSteps DEF Log!Next
  <2>5. CASE final /\ entries = results.entries /\ ~Interrupted /\ results.status = "running"
    <3>1. Status \in {"success", "completed_with_failures"}
      BY <2>5 DEF Status, Aggregate
    <3> QED
      BY <2>1, <2>2, <2>5, <3>1, LogSteps DEF Log!Next
  <2>6. CASE final /\ entries = results.entries /\ Interrupted /\ results.status = "interrupted"
    <3>1. FileLog' = FileLog
      BY <2>1, <2>6 DEF FileLog, Status, Aggregate
    <3> QED
      BY <2>1, <3>1, LogSteps
  <2> QED
    BY <1>2, <2>3, <2>4, <2>5, <2>6 DEF BInv, StatusInv, WriteResults
<1>3. CASE Launch
  <2>1. Status = "running" /\ results.status = Status
    BY <1>3 DEF Launch, BInv, StatusInv, Status
  <2>2. launched = Len(results.entries)
    BY <1>3 DEF Launch, BInv, LaunchInv, FileInv
  <2> QED
    BY <1>3, <2>1, <2>2, LogSteps DEF Launch, FileLog, Log!Next
<1>4. ASSUME UNCHANGED <<results, launched>> PROVE [Log!Next]_(Log!vars)
  BY <1>4, LogSteps DEF FileLog
<1>5. CASE RefuseSummary \/ RefuseCsv \/ Plan \/ WriteSummary \/ WriteCsv \/ Finish
         \/ Tear \/ Die \/ Ended
  BY <1>4, <1>5
  DEF RefuseSummary, RefuseCsv, Plan, WriteSummary, WriteCsv, Finish, Tear, Die, Ended, vars
<1>6. ASSUME NEW ok \in BOOLEAN, NEW stop \in BOOLEAN, ChildReturns(ok, stop) \/ ChildRaises(stop)
      PROVE  [Log!Next]_(Log!vars)
  BY <1>4, <1>6 DEF ChildReturns, ChildRaises, AppendEntry
<1>7. CASE UNCHANGED vars
  BY <1>4, <1>7 DEF vars
<1> QED
  BY <1>1, <1>2, <1>3, <1>5, <1>6, <1>7 DEF Next, Step

(* Whatever the candidates, repetitions, failures and deaths: the file      *)
(* batch_results.json grows as BatchLog promises its readers.               *)
THEOREM BatchImplementsBatchLog == Spec => ImplementsBatchLog
<1>1. Init => Log!Init
  BY LogSteps DEF Init, FileLog
<1>2. BInv /\ [Next]_vars => [Log!Next]_(Log!vars)
  BY LogStep
<1> QED
  BY <1>1, <1>2, BatchInvariant, PTL DEF Spec, ImplementsBatchLog, Log!Spec
-----------------------------------------------------------------------------
(* The schedule: blocks of a permutation each, so that every candidate is   *)
(* in it once per repetition.                                               *)

(* The only multiple of n closer to 0 than n is 0.                          *)
LEMMA NoSmallMultiple ==
  ASSUME NEW n \in Nat \ {0}, NEW d \in Int, -n < n * d, n * d < n
  PROVE  d = 0
<1>1. CASE d >= 1
  BY <1>1
<1>2. CASE d <= -1
  BY <1>2
<1> QED
  BY <1>1, <1>2

(* The positions of R blocks of n: each is in one block, and in one only.   *)
InBlocks(R, n) ==
  /\ R * n \in Nat
  /\ \A r \in 0 .. R - 1, k \in 1 .. n : r * n + k \in 1 .. R * n
  /\ \A i \in 1 .. R * n : \E r \in 0 .. R - 1, k \in 1 .. n : i = r * n + k
  /\ \A r, s \in 0 .. R - 1 : \A k, l \in 1 .. n : r * n + k = s * n + l => r = s /\ k = l

LEMMA Blocks == ASSUME NEW n \in Nat \ {0}, NEW R \in Nat PROVE InBlocks(R, n)
<1>1. R * n \in Nat
  OBVIOUS
<1>2. ASSUME NEW r \in 0 .. R - 1, NEW k \in 1 .. n PROVE r * n + k \in 1 .. R * n
  <2>1. r * n \in Nat /\ (R - 1 - r) * n \in Nat
    OBVIOUS
  <2>2. (R - 1 - r) * n = R * n - n - r * n
    OBVIOUS
  <2> QED
    BY <2>1, <2>2, <1>1
<1>3. ASSUME NEW i \in 1 .. R * n PROVE \E r \in 0 .. R - 1, k \in 1 .. n : i = r * n + k
  <2> DEFINE r == (i - 1) \div n
             k == (i - 1) % n
  <2>1. r \in Int /\ k \in 0 .. n - 1 /\ i - 1 = n * r + k
    BY <1>1
  <2> HIDE DEF r, k
  <2>2. r >= 0
    <3>1. CASE r <= -1
      <4>1. n * r <= -n
        BY <2>1, <3>1
      <4> QED
        BY <2>1, <4>1, <1>1
    <3> QED
      BY <2>1, <3>1
  <2>3. r <= R - 1
    <3>1. CASE r >= R
      <4>1. n * r >= R * n
        BY <2>1, <3>1
      <4> QED
        BY <2>1, <4>1, <1>1
    <3> QED
      BY <2>1, <3>1
  <2>4. r * n = n * r
    BY <2>1
  <2> QED
    BY <2>1, <2>2, <2>3, <2>4, <1>1
<1>4. ASSUME NEW r \in 0 .. R - 1, NEW s \in 0 .. R - 1, NEW k \in 1 .. n, NEW l \in 1 .. n,
             r * n + k = s * n + l
      PROVE  r = s /\ k = l
  <2>1. n * (r - s) = l - k
    BY <1>4
  <2>2. r - s = 0
    BY <2>1, NoSmallMultiple
  <2> QED
    BY <2>1, <2>2, <1>4
<1> QED
  BY <1>1, <1>2, <1>3, <1>4 DEF InBlocks

(* A schedule holds each of its candidates once per repetition.             *)
Occurrences(f, c) == {i \in DOMAIN f : f[i] = c}

LEMMA OncePerRepetition ==
  ASSUME BatchConstants, NEW s \in SUBSET Candidates, NEW f \in Schedules(s), NEW c \in s
  PROVE  /\ IsFiniteSet(Occurrences(f, c)) /\ Cardinality(Occurrences(f, c)) = Repetitions
<1> DEFINE n == Cardinality(s)
           R == Repetitions
<1>1. IsFiniteSet(s) /\ n \in Nat \ {0} /\ R \in Nat \ {0}
  BY FS_Subset, FS_CardinalityType, FS_EmptySet DEF BatchConstants
<1>2. f \in [1 .. R * n -> s] /\ \A r \in 0 .. R - 1 : {f[r * n + k] : k \in 1 .. n} = s
  BY DEF Schedules, Planned
<1> HIDE DEF n, R
<1>3. InBlocks(R, n)
  BY <1>1, Blocks
<1> USE <1>3 DEF InBlocks
<1>4. ASSUME NEW r \in 0 .. R - 1
      PROVE  /\ \E k \in 1 .. n : f[r * n + k] = c
             /\ \A k, l \in 1 .. n : f[r * n + k] = f[r * n + l] => k = l
  <2> DEFINE g == [k \in 1 .. n |-> f[r * n + k]]
  <2>1. g \in Surjection(1 .. n, s)
    BY <1>2, <1>3 DEF Surjection
  <2>2. IsFiniteSet(1 .. n) /\ Cardinality(1 .. n) = Cardinality(s)
    BY <1>1, FS_Interval DEF n
  <2>3. g \in Injection(1 .. n, s)
    BY <2>1, <2>2, FS_SurjSameCardinalityImpliesInj
  <2>4. \A k, l \in 1 .. n : g[k] = g[l] => k = l
    BY <2>3 DEF Injection, IsInjective
  <2> QED
    BY <1>2, <2>4
<1> DEFINE at(r) == CHOOSE k \in 1 .. n : f[r * n + k] = c
           h == [r \in 0 .. R - 1 |-> r * n + at(r)]
<1>5. \A r \in 0 .. R - 1 : at(r) \in 1 .. n /\ f[r * n + at(r)] = c
  BY <1>4
<1> HIDE DEF at
<1>6. DOMAIN f = 1 .. R * n
  BY <1>2
<1>7. h \in [0 .. R - 1 -> Occurrences(f, c)]
  BY <1>3, <1>5, <1>6 DEF Occurrences
<1>8. \A r, t \in 0 .. R - 1 : h[r] = h[t] => r = t
  BY <1>3, <1>5
<1>9. \A i \in Occurrences(f, c) : \E r \in 0 .. R - 1 : h[r] = i
  <2> SUFFICES ASSUME NEW i \in Occurrences(f, c) PROVE \E r \in 0 .. R - 1 : h[r] = i
    OBVIOUS
  <2>1. i \in 1 .. R * n /\ f[i] = c
    BY <1>6 DEF Occurrences
  <2>2. PICK r \in 0 .. R - 1, k \in 1 .. n : i = r * n + k
    BY <2>1, <1>3
  <2>3. k = at(r)
    BY <2>1, <2>2, <1>4, <1>5
  <2> QED
    BY <2>2, <2>3
<1>10. h \in Bijection(0 .. R - 1, Occurrences(f, c))
  BY <1>7, <1>8, <1>9 DEF Bijection, Injection, IsInjective, Surjection
<1>11. IsFiniteSet(0 .. R - 1) /\ Cardinality(0 .. R - 1) = R
  BY <1>1, FS_Interval
<1> QED
  BY <1>10, <1>11, FS_Bijection DEF ExistsBijection, R
-----------------------------------------------------------------------------
(* The ranking and the status of a batch, beside BInv: what summary.json    *)
(* ranks has run in full, and "success" is written once everything has.    *)
Working == {"results", "summary", "csv", "loop", "child", "torn"}
Refusing == {"configure", "refuse_summary", "refuse_csv"}
SaysSuccess == summary.status = "success" \/ results.status = "success"

RankInv ==
  /\ pc \in Refusing => summary.ranked = {} /\ ~SaysSuccess
  /\ pc \in Working => schedule \in Schedules(Valid) /\ summary.ranked \subseteq Complete
  /\ pc \in Working /\ SaysSuccess => Len(entries) = Len(schedule)
  /\ SuccessIsComplete

(* A schedule is a sequence of its planned length.                          *)
LEMMA ScheduleLength ==
  ASSUME BatchConstants, invalid \subseteq Candidates, schedule \in Schedules(Valid)
  PROVE  /\ Planned(Valid) \in Nat /\ Len(schedule) = Planned(Valid)
         /\ DOMAIN schedule = 1 .. Len(schedule) /\ schedule \in Seq(Valid)
<1>1. IsFiniteSet(Valid)
  BY FS_Subset DEF BatchConstants, Valid
<1>2. Planned(Valid) \in Nat
  BY <1>1, FS_CardinalityType DEF BatchConstants, Planned
<1>3. schedule \in [1 .. Planned(Valid) -> Valid]
  BY DEF Schedules
<1>4. schedule \in Seq(Valid)
  BY <1>2, <1>3, FunctionIsSeq
<1> QED
  BY <1>2, <1>3, <1>4

(* A candidate that has run in full does not run again.                     *)
LEMMA CompleteRanAll ==
  ASSUME BatchConstants, TypeOK, schedule \in Schedules(Valid), NEW c \in Complete
  PROVE  Runs(c) = Occurrences(schedule, c)
<1>1. c \in Valid /\ Cardinality(Runs(c)) = Repetitions
  BY DEF Complete
<1>2. /\ IsFiniteSet(Occurrences(schedule, c))
      /\ Cardinality(Occurrences(schedule, c)) = Repetitions
  BY <1>1, OncePerRepetition DEF Valid, TypeOK
<1>3. DOMAIN entries = 1 .. Len(entries) /\ DOMAIN schedule = 1 .. Len(schedule)
      /\ Len(entries) \in Nat /\ Len(schedule) \in Nat /\ Len(entries) <= Len(schedule)
  BY DEF TypeOK
<1>4. Runs(c) \subseteq Occurrences(schedule, c)
  BY <1>3 DEF Runs, Occurrences
<1> QED
  BY <1>1, <1>2, <1>4, FS_Subset

(* A candidate of a batch that ran to its end without a failure is ranked.  *)
LEMMA SuccessRanksAll ==
  ASSUME BatchConstants, TypeOK, schedule \in Schedules(Valid), Aggregate = "success"
  PROVE  /\ Valid = Candidates /\ Complete = Candidates /\ Len(entries) = Planned(Candidates)
         /\ Len(entries) = Len(schedule) /\ \A i \in DOMAIN entries : entries[i].ok
<1>1. /\ ~Interrupted /\ invalid = {} /\ Len(entries) = Len(schedule)
      /\ \A i \in DOMAIN entries : entries[i].ok
  BY DEF Aggregate
<1>2. Valid = Candidates
  BY <1>1 DEF Valid
<1>3. Len(schedule) = Planned(Candidates)
  BY <1>2, ScheduleLength DEF TypeOK
<1>4. DOMAIN entries = DOMAIN schedule
  BY <1>1 DEF TypeOK
<1>5. ASSUME NEW c \in Valid PROVE c \in Complete
  <2>1. Runs(c) = Occurrences(schedule, c)
    BY <1>4 DEF Runs, Occurrences
  <2>2. Cardinality(Occurrences(schedule, c)) = Repetitions
    BY OncePerRepetition DEF Valid, TypeOK
  <2> QED
    BY <1>1, <2>1, <2>2 DEF Complete, Runs
<1>6. Complete \subseteq Valid
  BY DEF Complete
<1> QED
  BY <1>1, <1>2, <1>3, <1>5, <1>6

(* A run that comes to its end completes no candidate less.                 *)
LEMMA AppendKeepsComplete ==
  ASSUME BatchConstants, BInv, schedule \in Schedules(Valid), NEW e \in BatchEntry,
         pc \in {"child", "torn"}, AppendEntry(e)
  PROVE  Complete \subseteq Complete'
<1> SUFFICES ASSUME NEW c \in Complete PROVE c \in Complete'
  OBVIOUS
<1> DEFINE last == Len(entries) + 1
<1>1. entries \in Seq(BatchEntry) /\ schedule \in Seq(Candidates) /\ Len(entries) \in Nat
  BY DEF BInv, TypeOK
<1>2. /\ DOMAIN entries = 1 .. Len(entries) /\ DOMAIN entries' = 1 .. last
      /\ \A i \in 1 .. Len(entries) : entries'[i] = entries[i]
  BY <1>1, AppendProperties DEF AppendEntry
<1>3. last \in DOMAIN schedule /\ last \notin DOMAIN entries
  BY <1>1, <1>2 DEF BInv, LaunchInv
<1>4. schedule[last] # c
  <2>1. last \notin Occurrences(schedule, c)
    BY <1>3, CompleteRanAll DEF BInv, Runs
  <2> QED
    BY <1>3, <2>1 DEF Occurrences
<1>5. schedule' = schedule /\ invalid' = invalid
  BY DEF AppendEntry
<1>6. Runs(c)' = Runs(c)
  BY <1>1, <1>2, <1>4, <1>5 DEF Runs
<1>7. \A i \in Runs(c) : entries'[i].ok
  BY <1>2 DEF Complete, Runs
<1> QED
  BY <1>5, <1>6, <1>7 DEF Complete, Valid

(* Steps that leave entries, schedule, ranking and statuses as they are,    *)
(* and launch only what is planned.                                         *)
LEMMA RankRests ==
  ASSUME RankInv, UNCHANGED <<invalid, schedule, entries, summary, results>>,
         pc' \in Refusing => pc \in Refusing, pc' \in Working => pc \in Working,
         launched' = launched \/ (pc \in Working /\ Len(entries) # Len(schedule))
  PROVE  RankInv' /\ summary.ranked \subseteq summary'.ranked
<1>1. SuccessIsComplete'
  BY DEF RankInv, SuccessIsComplete, SaysSuccess
<1>2. UNCHANGED <<Valid, Complete, SaysSuccess>> /\ Schedules(Valid)' = Schedules(Valid)
  BY DEF Valid, Complete, Runs, SaysSuccess
<1> QED
  BY <1>1, <1>2 DEF RankInv

(* Every step keeps RankInv, and every candidate that is ranked.            *)
LEMMA RankStep ==
  ASSUME BInv, BInv', RankInv, BatchConstants, [Next]_vars
  PROVE  RankInv' /\ summary.ranked \subseteq summary'.ranked
<1> USE DEF Goto, memory, files
<1>1. CASE RefuseBatch \/ RefuseSummary \/ RefuseCsv
  <2>1. pc \in Refusing /\ summary.ranked = {} /\ ~SaysSuccess
    BY <1>1 DEF RankInv, RefuseBatch, RefuseSummary, RefuseCsv, Refusing
  <2>2. summary'.ranked = {} /\ ~SaysSuccess'
    <3>1. CASE RefuseBatch
      <4>1. summary' = summary /\ results'.status = "configuration_failed"
        BY <3>1 DEF RefuseBatch
      <4> QED
        BY <4>1, <2>1 DEF SaysSuccess
    <3>2. CASE RefuseSummary
      <4>1. /\ results' = results
            /\ summary'.status = "configuration_failed" /\ summary'.ranked = {}
        BY <3>2 DEF RefuseSummary
      <4> QED
        BY <4>1, <2>1 DEF SaysSuccess
    <3>3. CASE RefuseCsv
      BY <3>3, <2>1 DEF RefuseCsv, SaysSuccess
    <3> QED
      BY <1>1, <3>1, <3>2, <3>3
  <2>3. pc' \notin Working
    BY <1>1 DEF RefuseBatch, RefuseSummary, RefuseCsv, Working
  <2> QED
    BY <2>1, <2>2, <2>3 DEF RankInv, SuccessIsComplete, SaysSuccess
<1>2. CASE Plan
  <2>1. /\ pc = "configure" /\ pc' = "results" /\ UNCHANGED <<entries, summary, results>>
        /\ schedule' \in Schedules(Candidates \ invalid')
    BY <1>2 DEF Plan
  <2>2. summary.ranked = {} /\ ~SaysSuccess
    BY <2>1 DEF RankInv, Refusing
  <2>3. schedule' \in Schedules(Valid)'
    BY <2>1 DEF Valid, Schedules, Planned
  <2> QED
    BY <2>1, <2>2, <2>3 DEF RankInv, SuccessIsComplete, SaysSuccess, Refusing, Working
<1>3. CASE WriteResults \/ WriteSummary
  <2>1. /\ pc \in {"results", "summary"} /\ pc' \in {"summary", "csv"}
        /\ UNCHANGED <<memory, launched>>
    BY <1>3 DEF WriteResults, WriteSummary
  <2>2. /\ schedule \in Schedules(Valid) /\ TypeOK /\ launched = Len(entries)
        /\ summary.ranked \subseteq Complete
    BY <2>1 DEF RankInv, Working, BInv, LaunchInv
  <2>3. Valid' = Valid /\ Complete' = Complete /\ Schedules(Valid)' = Schedules(Valid)
    BY <2>1 DEF Valid, Complete, Runs
  <2>4. CASE WriteResults
    <3>1. results' = [status |-> Status, entries |-> entries] /\ summary' = summary
      BY <2>4 DEF WriteResults
    <3>2. Status = "success" => Aggregate = "success"
      BY DEF Status
    <3> QED
      BY <2>1, <2>2, <2>3, <3>1, <3>2, SuccessRanksAll
      DEF RankInv, SuccessIsComplete, SaysSuccess, Refusing, Working
  <2>5. CASE WriteSummary
    <3>1. /\ summary' = [status |-> Aggregate, listed |-> Len(entries), ranked |-> Complete]
          /\ results' = results
      BY <2>5 DEF WriteSummary
    <3> QED
      BY <2>1, <2>2, <2>3, <3>1, SuccessRanksAll
      DEF RankInv, SuccessIsComplete, SaysSuccess, Refusing, Working
  <2> QED
    BY <1>3, <2>4, <2>5
<1>4. CASE WriteCsv \/ Launch \/ Finish \/ Tear \/ Die
  <2>1. UNCHANGED <<invalid, schedule, entries, summary, results>>
    BY <1>4 DEF WriteCsv, Launch, Finish, Tear, Die
  <2>2. (pc' \in Refusing => pc \in Refusing) /\ (pc' \in Working => pc \in Working)
    BY <1>4 DEF WriteCsv, Launch, Finish, Tear, Die, Refusing, Working
  <2>3. launched' = launched \/ (pc \in Working /\ Len(entries) # Len(schedule))
    <3>1. CASE Launch
      <4>1. pc = "loop" /\ Len(entries) < Len(schedule)
        BY <3>1 DEF Launch
      <4>2. Len(entries) \in Nat /\ Len(schedule) \in Nat
        BY DEF BInv, TypeOK
      <4> QED
        BY <4>1, <4>2 DEF Working
    <3>2. CASE WriteCsv \/ Finish \/ Tear \/ Die
      BY <3>2 DEF WriteCsv, Finish, Tear, Die
    <3> QED
      BY <1>4, <3>1, <3>2
  <2> QED
    BY <2>1, <2>2, <2>3, RankRests
<1>5. ASSUME NEW e \in BatchEntry, pc \in {"child", "torn"}, AppendEntry(e)
      PROVE  RankInv' /\ summary.ranked \subseteq summary'.ranked
  <2>1. /\ pc' = "results" /\ UNCHANGED <<invalid, schedule, summary, results, launched>>
    BY <1>5 DEF AppendEntry
  <2>2. schedule \in Schedules(Valid) /\ summary.ranked \subseteq Complete /\ ~SaysSuccess
    BY <1>5 DEF RankInv, Working, BInv, LaunchInv, TypeOK
  <2>3. Complete \subseteq Complete'
    BY <1>5, <2>2, AppendKeepsComplete
  <2>4. Schedules(Valid)' = Schedules(Valid) /\ ~SaysSuccess'
    BY <2>1, <2>2 DEF Valid, SaysSuccess
  <2> QED
    BY <2>1, <2>2, <2>3, <2>4 DEF RankInv, SuccessIsComplete, SaysSuccess, Refusing
<1>6. ASSUME NEW ok \in BOOLEAN, NEW stop \in BOOLEAN,
             ChildReturns(ok, stop) \/ ChildRaises(stop)
      PROVE  RankInv' /\ summary.ranked \subseteq summary'.ranked
  <2>1. /\ [ok |-> ok, stop |-> stop, recorded |-> TRUE] \in BatchEntry
        /\ [ok |-> FALSE, stop |-> stop, recorded |-> FALSE] \in BatchEntry
    BY DEF BatchEntry
  <2> QED
    BY <1>5, <1>6, <2>1 DEF ChildReturns, ChildRaises
<1>7. CASE UNCHANGED vars
  BY <1>7, RankRests DEF vars
<1> QED
  BY <1>1, <1>2, <1>3, <1>4, <1>6, <1>7 DEF Next, Step, Ended

(* Ranking and status keep their invariant in every reachable state.        *)
THEOREM RankInvariant == Spec => [](BInv /\ RankInv)
<1>1. Init => BInv /\ RankInv
  <2>1. Init => RankInv
    BY DEF Init, RankInv, Refusing, Working, SaysSuccess, SuccessIsComplete
  <2> QED
    BY <2>1, BatchInit
<1>2. BInv /\ RankInv /\ [Next]_vars => (BInv /\ RankInv)'
  BY BatchNext, RankStep, BatchConstants
<1> QED
  BY <1>1, <1>2, PTL DEF Spec

(* "success", in either file, at any time, is said of a batch that launched *)
(* every repetition of every candidate, without a failure.                  *)
THEOREM BatchSuccessIsComplete == Spec => []SuccessIsComplete
<1>1. RankInv => SuccessIsComplete
  BY DEF RankInv
<1> QED
  BY <1>1, RankInvariant, PTL

(* No later run takes a candidate out of the ranking once summary.json has  *)
(* it: a candidate is ranked after its last repetition, and no block of the *)
(* schedule has it twice.                                                   *)
THEOREM BatchRanksLast == Spec => RankedStayRanked
<1>1. BInv /\ RankInv /\ [Next]_vars => summary.ranked \subseteq summary'.ranked
  BY BatchNext, RankStep, BatchConstants
<1> QED
  BY <1>1, RankInvariant, PTL DEF Spec, RankedStayRanked

-----------------------------------------------------------------------------
(* The loop is only left at its end, an accepted batch only returns after   *)
(* it, and only a delivered Ctrl-C makes an interruption of an entry.       *)
EndInv ==
  /\ Interrupted => asked
  /\ pc \in {"results", "summary", "csv"} /\ final => LoopEnds
  /\ pc = "refuse_summary" \/ pc = "refuse_csv" => results.status = "configuration_failed"
  /\ pc = "returned" =>
       \/ results.status = "configuration_failed"
       \/ LoopEnds /\ schedule \in Schedules(Valid) /\ launched = Len(entries)

(* Every step keeps it.                                                     *)
LEMMA EndStep ==
  ASSUME BInv, BInv', RankInv, EndInv, BatchConstants, [Next]_vars
  PROVE  EndInv'
<1> USE DEF Goto, memory, files, Cause
<1>1. CASE RefuseBatch \/ RefuseSummary \/ RefuseCsv
  <2>1. Interrupted' = Interrupted /\ (asked => asked')
    <3>1. entries' = entries
      BY <1>1 DEF RefuseBatch, RefuseSummary, RefuseCsv
    <3>2. asked' = asked \/ asked' = TRUE
      BY <1>1 DEF RefuseBatch, RefuseSummary, RefuseCsv
    <3> QED
      BY <3>1, <3>2 DEF Interrupted
  <2>2. results'.status = "configuration_failed"
    <3>1. CASE RefuseBatch
      <4>1. results' = [status |-> "configuration_failed", entries |-> <<>>]
        BY <3>1 DEF RefuseBatch
      <4> QED
        BY <4>1
    <3>2. CASE RefuseSummary \/ RefuseCsv
      <4>1. results' = results /\ (pc = "refuse_summary" \/ pc = "refuse_csv")
        BY <3>2 DEF RefuseSummary, RefuseCsv
      <4> QED
        BY <4>1 DEF EndInv
    <3> QED
      BY <1>1, <3>1, <3>2
  <2>3. pc' \notin {"results", "summary", "csv"}
    BY <1>1 DEF RefuseBatch, RefuseSummary, RefuseCsv
  <2> QED
    BY <2>1, <2>2, <2>3 DEF EndInv
<1>2. CASE Plan
  <2>1. Interrupted' = Interrupted /\ (asked => asked') /\ pc' = "results" /\ ~final'
    BY <1>2 DEF Plan, Interrupted, BInv, LaunchInv
  <2> QED
    BY <2>1 DEF EndInv
<1>3. CASE WriteResults \/ WriteSummary
  <2>1. /\ UNCHANGED <<memory, launched, asked>> /\ pc \in {"results", "summary"}
        /\ pc' \in {"summary", "csv"}
    BY <1>3 DEF WriteResults, WriteSummary
  <2>2. Interrupted' = Interrupted /\ LoopEnds' = LoopEnds
    BY <2>1 DEF Interrupted, LoopEnds
  <2> QED
    BY <2>1, <2>2 DEF EndInv
<1>4. CASE WriteCsv
  <2>1. /\ UNCHANGED <<memory, launched, asked>> /\ pc = "csv"
        /\ pc' = IF final THEN "returned" ELSE "loop"
    BY <1>4 DEF WriteCsv
  <2>2. Interrupted' = Interrupted /\ LoopEnds' = LoopEnds /\ Schedules(Valid)' = Schedules(Valid)
    BY <2>1 DEF Interrupted, LoopEnds, Valid
  <2>3. schedule \in Schedules(Valid) /\ launched = Len(entries)
    BY <2>1 DEF RankInv, Working, BInv, LaunchInv
  <2> QED
    BY <2>1, <2>2, <2>3 DEF EndInv
<1>5. CASE Launch \/ Tear \/ Die
  <2>1. Interrupted' = Interrupted /\ (asked => asked') /\ pc' \in {"child", "torn", "dead"}
    BY <1>5 DEF Launch, Tear, Die, Interrupted
  <2> QED
    BY <2>1 DEF EndInv
<1>6. CASE Finish
  <2>1. LoopEnds /\ UNCHANGED <<schedule, entries, asked>> /\ pc' = "results"
    BY <1>6 DEF Finish
  <2>2. Interrupted' = Interrupted /\ LoopEnds' = LoopEnds
    BY <2>1 DEF Interrupted, LoopEnds
  <2> QED
    BY <2>1, <2>2 DEF EndInv
<1>7. ASSUME NEW e \in BatchEntry, pc \in {"child", "torn"}, AppendEntry(e),
             IF e.stop THEN asked' = TRUE ELSE asked => asked'
      PROVE  EndInv'
  <2>1. pc' = "results" /\ ~final'
    BY <1>7 DEF AppendEntry, BInv, StatusInv
  <2>2. Interrupted' => Interrupted \/ e.stop
    BY <1>7 DEF Interrupted, AppendEntry, BInv, TypeOK
  <2> QED
    BY <1>7, <2>1, <2>2 DEF EndInv
<1>8. ASSUME NEW ok \in BOOLEAN, NEW stop \in BOOLEAN, ChildReturns(ok, stop)
      PROVE  EndInv'
  <2> DEFINE e == [ok |-> ok, stop |-> stop, recorded |-> TRUE]
  <2>1. e \in BatchEntry /\ e.stop = stop
    BY DEF BatchEntry
  <2>2. pc \in {"child", "torn"} /\ AppendEntry(e) /\ IF e.stop THEN asked' = TRUE ELSE asked => asked'
    BY <1>8, <2>1 DEF ChildReturns
  <2> HIDE DEF e
  <2> QED
    BY <1>7, <2>1, <2>2
<1>9. ASSUME NEW stop \in BOOLEAN, ChildRaises(stop)
      PROVE  EndInv'
  <2> DEFINE e == [ok |-> FALSE, stop |-> stop, recorded |-> FALSE]
  <2>1. e \in BatchEntry /\ e.stop = stop
    BY DEF BatchEntry
  <2>2. pc \in {"child", "torn"} /\ AppendEntry(e) /\ IF e.stop THEN asked' = TRUE ELSE asked => asked'
    BY <1>9, <2>1 DEF ChildRaises
  <2> HIDE DEF e
  <2> QED
    BY <1>7, <2>1, <2>2
<1>10. CASE UNCHANGED vars
  <2>1. UNCHANGED <<pc, memory, files, launched, asked>>
    BY <1>10 DEF vars
  <2>2. Interrupted' = Interrupted /\ LoopEnds' = LoopEnds /\ Schedules(Valid)' = Schedules(Valid)
    BY <2>1 DEF Interrupted, LoopEnds, Valid
  <2> QED
    BY <2>1, <2>2 DEF EndInv
<1> QED
  BY <1>1, <1>2, <1>3, <1>4, <1>5, <1>6, <1>8, <1>9, <1>10 DEF Next, Step, Ended

(* "Compilation, execution, correctness, benchmark, and timeout failures do *)
(* not stop later candidates": run_batch returns from an accepted batch to  *)
(* which no Ctrl-C was delivered only when every planned run was launched.  *)
THEOREM BatchReturnsAfterAllRuns ==
  Spec => [](pc = "returned" => \/ asked \/ results.status = "configuration_failed"
                                \/ launched = Planned(Valid))
<1>1. Init => EndInv
  BY DEF Init, EndInv, Interrupted
<1>2. BInv /\ BInv' /\ RankInv /\ EndInv /\ [Next]_vars => EndInv'
  BY EndStep, BatchConstants
<1>3. BInv /\ EndInv => (pc = "returned" => \/ asked \/ results.status = "configuration_failed"
                                             \/ launched = Planned(Valid))
  <2> SUFFICES ASSUME BInv, EndInv, pc = "returned", ~asked,
                      results.status # "configuration_failed"
               PROVE  launched = Planned(Valid)
    OBVIOUS
  <2>1. schedule \in Schedules(Valid) /\ launched = Len(entries) /\ Len(entries) = Len(schedule)
    BY DEF EndInv, LoopEnds
  <2>2. Len(schedule) = Planned(Valid)
    BY <2>1, ScheduleLength, BatchConstants DEF BInv, TypeOK
  <2> QED
    BY <2>1, <2>2
<1> QED
  BY <1>1, <1>2, <1>3, RankInvariant, PTL DEF Spec
-----------------------------------------------------------------------------
(* A bound on the steps an accepted batch has left: six for  each run it    *)
(* has not made, and the last persist.                                      *)
RunsLeft == Len(schedule) - Len(entries)
StepsLeft ==
  IF pc = "results" THEN (IF final THEN 3 ELSE 6 * RunsLeft + 7)
  ELSE IF pc = "summary" THEN (IF final THEN 2 ELSE 6 * RunsLeft + 6)
  ELSE IF pc = "csv" THEN (IF final THEN 1 ELSE 6 * RunsLeft + 5)
  ELSE IF pc = "loop" THEN 6 * RunsLeft + 4
  ELSE IF pc = "child" THEN 6 * RunsLeft + 3
  ELSE IF pc = "torn" THEN 6 * RunsLeft + 2
  ELSE IF pc = "refuse_summary" THEN 2 ELSE IF pc = "refuse_csv" THEN 1 ELSE 0

(* Once there is a schedule, a step leaves run_batch fewer.                 *)
LEMMA BatchStepsLeft ==
  ASSUME BInv, BInv', BatchConstants, Next, pc \notin {"configure", "returned", "dead"}
  PROVE  /\ StepsLeft \in 1 .. 6 * Len(schedule) + 7
         /\ StepsLeft' < StepsLeft
<1> USE DEF Goto, memory, files
<1>1. /\ Len(schedule) \in Nat /\ Len(entries) \in Nat /\ Len(entries) <= Len(schedule)
      /\ RunsLeft \in 0 .. Len(schedule)
  BY DEF BInv, TypeOK, RunsLeft
<1>2. StepsLeft \in 1 .. 6 * Len(schedule) + 7
  <2>1. pc \in {"refuse_summary", "refuse_csv", "results", "summary", "csv", "loop", "child", "torn"}
    BY DEF BInv, TypeOK
  <2> QED
    BY <1>1, <2>1 DEF StepsLeft
<1>3. CASE RefuseBatch \/ RefuseSummary \/ RefuseCsv \/ Die
  <2>1. \/ pc' \in {"returned", "dead"}
        \/ pc = "refuse_summary" /\ pc' = "refuse_csv"
    BY <1>3 DEF RefuseBatch, RefuseSummary, RefuseCsv, Die
  <2>2. CASE pc' \in {"returned", "dead"}
    <3>1. StepsLeft' = 0
      BY <2>2 DEF StepsLeft
    <3> QED
      BY <1>1, <1>2, <3>1
  <2>3. CASE pc = "refuse_summary" /\ pc' = "refuse_csv"
    BY <2>3 DEF StepsLeft
  <2> QED
    BY <2>1, <2>2, <2>3
<1>4. CASE WriteResults \/ WriteSummary \/ WriteCsv \/ Launch \/ Tear
  <2>1. /\ UNCHANGED <<schedule, entries, final>>
        /\ \/ pc = "results" /\ pc' = "summary"
           \/ pc = "summary" /\ pc' = "csv"
           \/ pc = "csv" /\ pc' = IF final THEN "returned" ELSE "loop"
           \/ pc = "loop" /\ pc' = "child"
           \/ pc = "child" /\ pc' = "torn"
    BY <1>4 DEF WriteResults, WriteSummary, WriteCsv, Launch, Tear
  <2>2. RunsLeft' = RunsLeft
    BY <2>1 DEF RunsLeft
  <2> QED
    BY <1>1, <2>1, <2>2 DEF StepsLeft
<1>5. CASE Finish
  <2>1. pc = "loop" /\ pc' = "results" /\ final'
    BY <1>5 DEF Finish
  <2> QED
    BY <1>1, <2>1 DEF StepsLeft
<1>6. ASSUME NEW e, pc \in {"child", "torn"}, AppendEntry(e)
      PROVE  StepsLeft' < StepsLeft
  <2>1. pc' = "results" /\ ~final' /\ schedule' = schedule /\ entries' = Append(entries, e)
    BY <1>6 DEF AppendEntry, BInv, StatusInv
  <2>2. Len(entries') = Len(entries) + 1
    BY <2>1 DEF BInv, TypeOK
  <2>3. RunsLeft' = RunsLeft - 1
    BY <1>1, <2>1, <2>2 DEF RunsLeft
  <2>4. StepsLeft \in {6 * RunsLeft + 2, 6 * RunsLeft + 3}
    BY <1>6 DEF StepsLeft
  <2>5. StepsLeft' = 6 * RunsLeft' + 7
    BY <2>1 DEF StepsLeft
  <2> QED
    BY <1>1, <2>3, <2>4, <2>5
<1>7. ASSUME NEW ok \in BOOLEAN, NEW stop \in BOOLEAN, ChildReturns(ok, stop) \/ ChildRaises(stop)
      PROVE  StepsLeft' < StepsLeft
  <2>1. \A e : pc \in {"child", "torn"} /\ AppendEntry(e) => StepsLeft' < StepsLeft
    BY <1>6
  <2> QED
    BY <1>7, <2>1 DEF ChildReturns, ChildRaises
<1>8. CASE Plan \/ Ended
  BY <1>8 DEF Plan, Ended
<1> QED
  BY <1>2, <1>3, <1>4, <1>5, <1>7, <1>8 DEF Next, Step

(* run_batch does not go on for ever: once the batch is planned or refused, *)
(* each of its steps leaves it fewer, six for each planned run and seven at *)
(* the most.  All that can keep it is a wait: for the worker, or, with no   *)
(* time limit, for the rest of a torn payload.                              *)
THEOREM BatchStepsAreBounded ==
  Spec => [][pc \notin {"configure", "returned", "dead"} =>
               StepsLeft \in 1 .. 6 * Len(schedule) + 7 /\ StepsLeft' < StepsLeft]_vars
<1>1. BInv /\ BInv' /\ [Next]_vars =>
        [pc \notin {"configure", "returned", "dead"} =>
               StepsLeft \in 1 .. 6 * Len(schedule) + 7 /\ StepsLeft' < StepsLeft]_vars
  BY BatchStepsLeft, BatchConstants
<1> QED
  BY <1>1, BatchInvariant, PTL DEF Spec
=============================================================================
