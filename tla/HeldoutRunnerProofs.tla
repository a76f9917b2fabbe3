-------------------------- MODULE HeldoutRunnerProofs --------------------------
(* Proofs about HeldoutRunner, for schedules, intervals and protocols of    *)
(* every kind and any number of stops and resumes.                         *)
EXTENDS HeldoutRunner, SumTheorems

InLoop == {"loop", "progress"}
Underway == {"episode", "write", "write_failure"}
Done == {"written", "count"}
AtTrial == Underway \cup Done \cup {"write_interrupted", "interrupted_progress"}

(* The trials before the current one are recorded, and those recorded       *)
(* behind it are the ones the invocation found.                            *)
PlaceInv ==
  /\ pc \in InLoop \cup AtTrial =>
       /\ completed \subseteq Recorded
       /\ \A t \in 1 .. at - 1 : t \in Recorded
       /\ \A t \in Recorded : t \in completed \/ t <= at
       /\ executed < at
  /\ pc \in InLoop => \A t \in Recorded : t \in completed \/ t < at
  /\ pc \in AtTrial => at \in Schedule
  /\ pc \in Underway => at \notin Recorded
  /\ pc \in Done => at \in Recorded
  /\ pc \in AtTrial \ {"episode"} => status # "none"

(* An invocation past the manifest has the protocol of the manifest. *)
ProtocolInv ==
  /\ RecordsFollowManifest
  /\ pc \notin Idle => protocol \in Protocols
  /\ pc \notin Idle \cup {"bind"} => manifest = protocol

HInv == TypeOK /\ PlaceInv /\ ProtocolInv /\ ReturnedIsComplete

(* The records are counted by a number of trials. *)
LEMMA RecordedCount ==
  ASSUME HeldoutConstants
  PROVE  /\ IsFiniteSet(Recorded)
         /\ Cardinality(Recorded) \in 0 .. Trials
         /\ Recorded = Schedule => Cardinality(Recorded) = Trials
<1>1. IsFiniteSet(Schedule) /\ Cardinality(Schedule) = Trials
  BY FS_Interval DEF Schedule, HeldoutConstants
<1>2. Recorded \subseteq Schedule
  BY DEF Recorded
<1>3. IsFiniteSet(Recorded) /\ Cardinality(Recorded) <= Cardinality(Schedule)
  BY <1>1, <1>2, FS_Subset
<1>4. Cardinality(Recorded) \in Nat
  BY <1>3, FS_CardinalityType
<1> QED
  BY <1>1, <1>3, <1>4 DEF HeldoutConstants

(* A write adds the current trial to the recorded ones, and nothing else.   *)
LEMMA WriteAdds ==
  ASSUME HInv, HeldoutConstants, NoRecordAssumption, NEW l, WriteRecord(l), pc \in AtTrial,
         pc # "episode"
  PROVE  /\ Recorded' = Recorded \cup {at}
         /\ at \notin Recorded
         /\ store'[at] = [status |-> status, protocol |-> protocol]
         /\ \A t \in Recorded : store'[t] = store[t]
         /\ store' \in [Schedule -> Record \cup {NoRecord}]
<1> DEFINE r == [status |-> status, protocol |-> protocol]
<1>1. r \in Record /\ at \in Schedule
  BY DEF HInv, TypeOK, PlaceInv, ProtocolInv, AtTrial, Underway, Done, Idle, Record, Goto
<1>2. store' = [store EXCEPT ![at] = r] /\ store[at] = NoRecord
  BY DEF WriteRecord
<1>3. store \in [Schedule -> Record \cup {NoRecord}] /\ r # NoRecord
  BY <1>1, NoRecordAssumption DEF HInv, TypeOK
<1> QED
  BY <1>1, <1>2, <1>3 DEF Recorded

(* The initial states satisfy the invariant.                               *)
LEMMA HeldoutInit == ASSUME Init, HeldoutConstants PROVE HInv
<1>1. Recorded = {}
  BY DEF Init, Recorded
<1>2. TypeOK
  BY DEF Init, TypeOK, Idle, HeldoutConstants
<1> QED
  BY <1>1, <1>2 DEF HInv, Init, PlaceInv, ProtocolInv, ReturnedIsComplete, RecordsFollowManifest,
                    InLoop, AtTrial, Underway, Done, Idle

(* Steps that write no trial record and do not bind the directory.          *)
LEMMA OtherSteps ==
  ASSUME HInv, HeldoutConstants, UNCHANGED <<manifest, store>>,
         \/ \E p \in Protocols : Invoke(p)
         \/ Conflict \/ RecoverProgress \/ Skip \/ RunEpisode
         \/ \E s \in EpisodeStatus : EpisodeEnds(s)
         \/ EpisodeFails \/ Written \/ RejectDuplicate \/ InterruptedProgress
         \/ Count \/ Progress \/ Interrupt \/ Escape \/ UNCHANGED vars
  PROVE  HInv'
<1>1. Recorded' = Recorded /\ Recorded \subseteq 1 .. Trials
  BY DEF Recorded, Schedule
<1>2. Cardinality(Recorded) \in 0 .. Trials
  BY RecordedCount
<1> USE DEF HInv, TypeOK, PlaceInv, ProtocolInv, ReturnedIsComplete, RecordsFollowManifest,
            InLoop, AtTrial, Underway, Done, Idle, HeldoutConstants, Schedule, files, memory,
            Goto, Stop, Save
<1>3. CASE \E p \in Protocols : Invoke(p)
  BY <1>1, <1>2, <1>3 DEF Invoke
<1>4. CASE Conflict \/ Escape \/ RejectDuplicate \/ InterruptedProgress
  <2>1. /\ UNCHANGED <<memory, attempts, started>>
        /\ pc' = "stopped" /\ stopped' = stopped + 1 /\ progress' \in {progress, Cardinality(Recorded)}
    BY <1>4 DEF Conflict, Escape, RejectDuplicate, InterruptedProgress
  <2>2. TypeOK'
    BY <1>1, <1>2, <2>1
  <2>3. PlaceInv' /\ ProtocolInv' /\ ReturnedIsComplete'
    BY <1>1, <2>1
  <2> QED
    BY <2>2, <2>3
<1>5. CASE RecoverProgress
  <2>1. TypeOK'
    BY <1>1, <1>2, <1>5 DEF RecoverProgress
  <2>2. PlaceInv'
    BY <1>1, <1>5 DEF RecoverProgress
  <2>3. ProtocolInv' /\ ReturnedIsComplete'
    BY <1>1, <1>5 DEF RecoverProgress
  <2> QED
    BY <2>1, <2>2, <2>3
<1>6. CASE Skip
  <2>1. TypeOK'
    BY <1>1, <1>6 DEF Skip
  <2>2. PlaceInv'
    BY <1>1, <1>6 DEF Skip
  <2>3. ProtocolInv' /\ ReturnedIsComplete'
    BY <1>1, <1>6 DEF Skip
  <2> QED
    BY <2>1, <2>2, <2>3
<1>7. CASE RunEpisode
  <2>1. TypeOK'
    BY <1>1, <1>7 DEF RunEpisode
  <2>2. PlaceInv'
    BY <1>1, <1>7 DEF RunEpisode
  <2>3. ProtocolInv' /\ ReturnedIsComplete'
    BY <1>1, <1>7 DEF RunEpisode
  <2> QED
    BY <2>1, <2>2, <2>3
<1>8. CASE \/ \E s \in EpisodeStatus : EpisodeEnds(s)
           \/ EpisodeFails \/ Interrupt
  BY <1>1, <1>8 DEF EpisodeEnds, EpisodeFails, Interrupt, EpisodeStatus
<1>9. CASE Written \/ Progress
  BY <1>1, <1>2, <1>9 DEF Written, Progress
<1>10. CASE Count
  <2>1. TypeOK'
    BY <1>1, <1>10 DEF Count
  <2>2. PlaceInv' /\ ProtocolInv' /\ ReturnedIsComplete'
    BY <1>1, <1>10 DEF Count
  <2> QED
    BY <2>1, <2>2
<1>11. CASE UNCHANGED vars
  BY <1>1, <1>11 DEF vars
<1> QED
  BY <1>3, <1>4, <1>5, <1>6, <1>7, <1>8, <1>9, <1>10, <1>11

(* The loop ends behind the last trial: everything is recorded by then.     *)
LEMMA FinishStep == ASSUME HInv, HeldoutConstants, Finish PROVE HInv'
<1>1. Recorded' = Recorded /\ Recorded = Schedule
  BY DEF HInv, TypeOK, PlaceInv, Finish, Save, InLoop, Schedule, Recorded, HeldoutConstants
<1>2. progress' = Trials
  BY <1>1, RecordedCount DEF Finish, Save
<1> QED
  BY <1>1, <1>2 DEF HInv, TypeOK, PlaceInv, ProtocolInv, ReturnedIsComplete,
       RecordsFollowManifest, Finish, Save, InLoop, AtTrial, Underway, Done, Idle, memory, Goto,
       HeldoutConstants

(* The first invocation binds the directory, which holds no records then.   *)
LEMMA BindStep == ASSUME HInv, HeldoutConstants, Bind PROVE HInv'
<1>1. Recorded' = Recorded
  BY DEF Bind, Recorded
<1>2. ASSUME manifest = NoProtocol PROVE Recorded = {}
  BY <1>2 DEF HInv, TypeOK, ProtocolInv, RecordsFollowManifest, Record, Recorded, HeldoutConstants
<1> QED
  BY <1>1, <1>2 DEF HInv, TypeOK, PlaceInv, ProtocolInv, ReturnedIsComplete,
       RecordsFollowManifest, Bind, InLoop, AtTrial, Underway, Done, Idle, memory, Goto

(* The three writes of a trial record. *)
LEMMA WriteSteps ==
  ASSUME HInv, HeldoutConstants, NoRecordAssumption, Write \/ WriteFailure \/ WriteInterrupted
  PROVE  HInv'
<1>1. PICK l : /\ WriteRecord(l) /\ pc \in AtTrial /\ pc # "episode"
               /\ l \in Done \cup {"interrupted_progress"}
  BY DEF Write, WriteFailure, WriteInterrupted, AtTrial, Underway, Done
<1>2. /\ Recorded' = Recorded \cup {at}
      /\ store'[at] = [status |-> status, protocol |-> protocol]
      /\ \A t \in Recorded : store'[t] = store[t]
      /\ store' \in [Schedule -> Record \cup {NoRecord}]
  BY <1>1, WriteAdds
<1>3. /\ UNCHANGED <<manifest, progress, protocol, completed, at, executed, status, attempts,
                     started, stopped>>
      /\ pc' = l
  BY <1>1 DEF WriteRecord, memory, Goto
<1>4. TypeOK'
  BY <1>1, <1>2, <1>3 DEF HInv, TypeOK, Done
<1>5. PlaceInv'
  BY <1>1, <1>2, <1>3 DEF HInv, TypeOK, PlaceInv, InLoop, AtTrial, Underway, Done, Schedule
<1>6. ProtocolInv'
  BY <1>1, <1>2, <1>3 DEF HInv, ProtocolInv, RecordsFollowManifest, Idle, Done, AtTrial, Underway
<1>7. ReturnedIsComplete'
  BY <1>1, <1>3 DEF ReturnedIsComplete, Done
<1> QED
  BY <1>4, <1>5, <1>6, <1>7 DEF HInv

(* Every step preserves it.                                                *)
LEMMA HeldoutNext ==
  ASSUME HInv, HeldoutConstants, NoRecordAssumption, [Next]_vars PROVE HInv'
<1>1. CASE Write \/ WriteFailure \/ WriteInterrupted
  BY <1>1, WriteSteps
<1>2. CASE Bind \/ Finish
  BY <1>2, BindStep, FinishStep
<1>3. CASE \/ \E p \in Protocols : Invoke(p)
           \/ Conflict \/ RecoverProgress \/ Skip \/ RunEpisode
           \/ \E s \in EpisodeStatus : EpisodeEnds(s)
           \/ EpisodeFails \/ Written \/ RejectDuplicate \/ InterruptedProgress
           \/ Count \/ Progress \/ Interrupt \/ Escape \/ UNCHANGED vars
  <2>1. UNCHANGED <<manifest, store>>
    BY <1>3 DEF Invoke, Conflict, RecoverProgress, Skip, RunEpisode, EpisodeEnds, EpisodeFails,
         Written, RejectDuplicate, InterruptedProgress, Count, Progress, Interrupt, Escape, vars,
         files, Save
  <2> QED
    BY <1>3, <2>1, OtherSteps
<1> QED
  BY <1>1, <1>2, <1>3 DEF Next, Step

(* The inductive invariant of the evaluation. *)
THEOREM HeldoutInvariant == Spec => []HInv
<1>1. Init => HInv
  BY HeldoutInit, HeldoutConstants
<1>2. HInv /\ [Next]_vars => HInv'
  BY HeldoutNext, HeldoutConstants, NoRecordAssumption
<1> QED
  BY <1>1, <1>2, PTL DEF Spec

(* Every variable of the evaluation keeps its kind, for any schedule. *)
THEOREM HeldoutTypeCorrect == Spec => []TypeOK
BY HeldoutInvariant, PTL DEF HInv

(* An invocation that returns has recorded the whole schedule, whatever was *)
(* recorded, failed or interrupted before.                                 *)
THEOREM HeldoutReturnsComplete == Spec => []ReturnedIsComplete
BY HeldoutInvariant, PTL DEF HInv

(* The records of a directory were all made under its manifest's protocol. *)
THEOREM HeldoutRecordsFollowManifest == Spec => []RecordsFollowManifest
BY HeldoutInvariant, PTL DEF HInv, ProtocolInv

(* No step of any invocation rewrites a record or runs a recorded trial.    *)
LEMMA RecordsStay ==
  ASSUME HInv, HeldoutConstants, NoRecordAssumption, [Next]_vars
  PROVE  \A t \in Recorded : store'[t] = store[t] /\ attempts'[t] = attempts[t]
<1>1. CASE Write \/ WriteFailure \/ WriteInterrupted
  <2>1. PICK l : WriteRecord(l) /\ pc \in AtTrial /\ pc # "episode"
    BY <1>1 DEF Write, WriteFailure, WriteInterrupted, AtTrial, Underway, Done
  <2>2. \A t \in Recorded : store'[t] = store[t]
    BY <2>1, WriteAdds
  <2> QED
    BY <2>1, <2>2 DEF WriteRecord
<1>2. CASE RunEpisode
  <2>1. at \notin Recorded
    BY <1>2 DEF RunEpisode, HInv, TypeOK, PlaceInv, InLoop, Schedule, HeldoutConstants
  <2> QED
    BY <1>2, <2>1 DEF RunEpisode, HInv, TypeOK, Recorded, files
<1>3. CASE \/ \E p \in Protocols : Invoke(p)
           \/ Bind \/ Conflict \/ RecoverProgress \/ Skip
           \/ \E s \in EpisodeStatus : EpisodeEnds(s)
           \/ EpisodeFails \/ Written \/ RejectDuplicate \/ InterruptedProgress
           \/ Count \/ Progress \/ Finish \/ Interrupt \/ Escape \/ UNCHANGED vars
  <2>1. UNCHANGED <<store, attempts>>
    BY <1>3 DEF Invoke, Bind, Conflict, RecoverProgress, Skip, EpisodeEnds, EpisodeFails, Written,
         RejectDuplicate, InterruptedProgress, Count, Progress, Finish, Interrupt, Escape, vars,
         files, Save
  <2> QED
    BY <2>1
<1> QED
  BY <1>1, <1>2, <1>3 DEF Next, Step

(* "There is no automatic retry": once recorded, a trial is never recorded  *)
(* or run again, through any number of stops and resumes.                   *)
THEOREM HeldoutRecordsAreFinal == Spec => RecordsAreFinal
<1>1. HInv /\ [Next]_vars =>
        [\A t \in Recorded : store'[t] = store[t] /\ attempts'[t] = attempts[t]]_vars
  BY RecordsStay, HeldoutConstants, NoRecordAssumption
<1> QED
  BY <1>1, HeldoutInvariant, PTL DEF Spec, RecordsAreFinal
-----------------------------------------------------------------------------
(* A multiple of e strictly between -e and e is 0. *)
LEMMA SmallMultiple ==
  ASSUME NEW e \in Nat \ {0}, NEW d \in Int, e * d < e, e * d > -e
  PROVE  d = 0
<1>1. CASE d >= 1
  <2>1. e * (d - 1) >= 0
    BY <1>1
  <2> QED
    BY <2>1
<1>2. CASE d <= -1
  <2>1. e * (d + 1) <= 0
    BY <1>2
  <2> QED
    BY <2>1
<1> QED
  BY <1>1, <1>2

(* A counter modulo e grows by one or starts again. *)
LEMMA NextRemainder ==
  ASSUME NEW x \in Nat, NEW e \in Nat \ {0}
  PROVE  /\ x % e \in 0 .. e - 1
         /\ (x + 1) % e = 0 \/ (x + 1) % e = (x % e) + 1
<1> DEFINE q == x \div e
           r == x % e
           p == (x + 1) \div e
           s == (x + 1) % e
<1>1. q \in Int /\ r \in 0 .. e - 1 /\ x = e * q + r
  OBVIOUS
<1>2. p \in Int /\ s \in 0 .. e - 1 /\ x + 1 = e * p + s
  OBVIOUS
<1> HIDE DEF q, r, p, s
<1>3. CASE r + 1 < e
  <2>1. e * (p - q) = r + 1 - s
    BY <1>1, <1>2
  <2>2. p - q = 0
    BY <2>1, <1>1, <1>2, <1>3, SmallMultiple
  <2> QED
    BY <2>1, <2>2, <1>1, <1>2 DEF r, s
<1>4. CASE r + 1 = e
  <2>1. e * (p - q - 1) = 0 - s
    BY <1>1, <1>2, <1>4
  <2>2. p - q - 1 = 0
    BY <2>1, <1>1, <1>2, <1>4, SmallMultiple
  <2> QED
    BY <2>1, <2>2, <1>1, <1>2 DEF r, s
<1> QED
  BY <1>1, <1>3, <1>4

(* How many records progress.json may miss, n of them existing, where the   *)
(* invocation is.                                                          *)
Lag(n) ==
  LET since == executed % ProgressEvery IN
  /\ progress <= n
  /\ n <= progress + ProgressEvery
  /\ pc \in {"loop"} \cup Underway => n <= progress + since
  /\ pc \in Done => n <= progress + since + 1
  /\ pc = "write_interrupted" => n <= progress + since + (IF at \in Recorded THEN 1 ELSE 0)

LagInv == Lag(Cardinality(Recorded))

(* The three writes add one record each. *)
LEMMA LagAfterWrite ==
  ASSUME HInv, LagInv, HeldoutConstants, NoRecordAssumption,
         Write \/ WriteFailure \/ WriteInterrupted
  PROVE  LagInv'
<1>1. PICK l : /\ WriteRecord(l) /\ l \in Done \cup {"interrupted_progress"}
               /\ pc \in {"write", "write_failure", "write_interrupted"}
  BY DEF Write, WriteFailure, WriteInterrupted, Done
<1>2. Recorded' = Recorded \cup {at} /\ at \notin Recorded
  BY <1>1, WriteAdds DEF AtTrial, Underway, Done
<1> DEFINE n == Cardinality(Recorded)
<1>3. n \in Nat /\ Cardinality(Recorded') = n + 1
  BY <1>2, RecordedCount, FS_AddElement
<1>4. UNCHANGED <<progress, executed, at>> /\ pc' = l
  BY <1>1 DEF WriteRecord, memory, Goto
<1>5. executed % ProgressEvery \in 0 .. ProgressEvery - 1
  BY NextRemainder DEF HInv, TypeOK, HeldoutConstants
<1>6. progress \in Nat /\ executed \in Nat /\ ProgressEvery \in Nat \ {0}
  BY DEF HInv, TypeOK, HeldoutConstants
<1> HIDE DEF n
<1>7. Lag(n) /\ n \in Nat
  BY <1>3 DEF LagInv, n
<1>8. progress <= n /\ n <= progress + (executed % ProgressEvery)
  BY <1>1, <1>2, <1>5, <1>6, <1>7 DEF Lag, Underway
<1>9. n' = n + 1
  BY <1>3 DEF n
<1>10. Lag(n)'
  BY <1>1, <1>4, <1>5, <1>6, <1>7, <1>8, <1>9 DEF Lag, Done, Underway
<1> QED
  BY <1>10 DEF LagInv, n

(* No other step changes the number of records. *)
LEMMA LagNext ==
  ASSUME HInv, LagInv, HeldoutConstants, NoRecordAssumption, [Next]_vars
  PROVE  LagInv'
<1>1. CASE Write \/ WriteFailure \/ WriteInterrupted
  BY <1>1, LagAfterWrite
<1>2. CASE ~(Write \/ WriteFailure \/ WriteInterrupted)
  <2> DEFINE n == Cardinality(Recorded)
             since == executed % ProgressEvery
  <2>1. UNCHANGED store
    BY <1>2 DEF Next, Step, Invoke, Bind, Conflict, RecoverProgress, Skip, RunEpisode,
         EpisodeEnds, EpisodeFails, Written, RejectDuplicate, InterruptedProgress, Count,
         Progress, Finish, Interrupt, Escape, vars, files, Save
  <2>2. Recorded' = Recorded /\ n' = n /\ n \in Nat
    BY <2>1, RecordedCount DEF Recorded
  <2>3. /\ since \in 0 .. ProgressEvery - 1 /\ progress \in Nat /\ ProgressEvery \in Nat \ {0}
        /\ executed \in Nat
    BY NextRemainder DEF HInv, TypeOK, HeldoutConstants
  <2>4. CASE \/ \E p \in Protocols : Invoke(p)
             \/ Bind \/ Conflict \/ RejectDuplicate \/ Escape
    <3>1. progress' = progress /\ pc' \in {"bind", "recover", "stopped"}
      BY <2>4 DEF Invoke, Bind, Conflict, RejectDuplicate, Escape, Goto, Stop, files
    <3> QED
      BY <2>2, <3>1 DEF LagInv, Lag, Underway, Done
  <2>5. CASE RecoverProgress \/ InterruptedProgress \/ Progress \/ Finish
    <3>1. progress' = n /\ pc' \in {"loop", "stopped", "returned"}
      BY <2>5 DEF RecoverProgress, InterruptedProgress, Progress, Finish, Save, Goto, Stop
    <3>2. executed' \in Nat
      BY <2>3, <2>5 DEF RecoverProgress, InterruptedProgress, Progress, Finish, memory
    <3>3. executed' % ProgressEvery \in 0 .. ProgressEvery - 1
      BY <2>3, <3>2, NextRemainder
    <3> HIDE DEF n
    <3>4. Lag(n)'
      BY <2>2, <2>3, <3>1, <3>3 DEF Lag, Underway, Done
    <3> QED
      BY <3>4, <2>2 DEF LagInv, n
  <2>6. CASE Skip \/ RunEpisode \/ \E s \in EpisodeStatus : EpisodeEnds(s)
    <3>1. /\ UNCHANGED <<progress, executed>> /\ pc \in {"loop", "episode"}
          /\ pc' \in {"loop", "episode", "write"}
      BY <2>6 DEF Skip, RunEpisode, EpisodeEnds, Goto, files, memory
    <3> QED
      BY <2>2, <3>1 DEF LagInv, Lag, Underway, Done
  <2>7. CASE EpisodeFails \/ Interrupt \/ Written
    <3>1. /\ UNCHANGED <<progress, executed, at>>
          /\ \/ pc \in Underway /\ pc' \in {"write_failure", "write_interrupted"}
             \/ pc = "written" /\ pc' \in {"write_interrupted", "count"}
      BY <2>7 DEF EpisodeFails, Interrupt, Written, Goto, files, memory, Underway
    <3>2. pc = "written" => at \in Recorded
      BY DEF HInv, PlaceInv, Done
    <3>3. pc \in Underway => at \notin Recorded
      BY DEF HInv, PlaceInv
    <3> HIDE DEF n
    <3>4. Lag(n)'
      <4>1. Lag(n)
        BY DEF LagInv, n
      <4> QED
        BY <4>1, <2>2, <2>3, <3>1, <3>2, <3>3 DEF Lag, Underway, Done
    <3> QED
      BY <3>4, <2>2 DEF LagInv, n
  <2>8. CASE Count
    <3>1. UNCHANGED progress /\ pc = "count" /\ executed' = executed + 1
      BY <2>8 DEF Count, files
    <3>2. pc' = IF executed' % ProgressEvery = 0 THEN "progress" ELSE "loop"
      BY <2>8 DEF Count, Goto
    <3>3. executed' % ProgressEvery = 0 \/ executed' % ProgressEvery = since + 1
      BY <2>3, <3>1, NextRemainder
    <3>4. progress <= n /\ n <= progress + since + 1
      BY <3>1 DEF LagInv, Lag, Done
    <3> HIDE DEF n, since
    <3>5. Lag(n)'
      BY <2>2, <2>3, <3>1, <3>2, <3>3, <3>4 DEF Lag, Underway, Done
    <3> QED
      BY <3>5, <2>2 DEF LagInv, n
  <2>9. CASE UNCHANGED vars
    BY <2>2, <2>9 DEF vars, memory, files, LagInv, Lag
  <2> QED
    BY <1>2, <2>4, <2>5, <2>6, <2>7, <2>8, <2>9 DEF Next, Step
<1> QED
  BY <1>1, <1>2

(* progress.json is never ahead of the records, and never more than         *)
(* progress_every behind them, wherever an invocation was stopped.          *)
THEOREM HeldoutProgressLags == Spec => []ProgressLags
<1>1. Init => LagInv
  <2> SUFFICES ASSUME Init PROVE LagInv
    OBVIOUS
  <2>1. Recorded = {} /\ progress = 0 /\ pc = "new"
    BY DEF Init, Recorded
  <2> QED
    BY <2>1, FS_EmptySet, HeldoutConstants DEF LagInv, Lag, Underway, Done, HeldoutConstants
<1>2. HInv /\ LagInv /\ [Next]_vars => LagInv'
  BY LagNext, HeldoutConstants, NoRecordAssumption
<1>3. LagInv => ProgressLags
  BY DEF LagInv, Lag, ProgressLags
<1> QED
  BY <1>1, <1>2, <1>3, HeldoutInvariant, PTL DEF Spec
-----------------------------------------------------------------------------
(* An episode that runs, or whose record is about to be written. *)
Running == {"episode", "write", "write_failure", "write_interrupted"}
Episodes == SumFunction(attempts)

(* The episodes run are counted by a number. *)
LEMMA EpisodesAreCounted ==
  ASSUME HInv, HeldoutConstants
  PROVE  IsFiniteSet(Schedule) /\ DOMAIN attempts = Schedule /\ Episodes \in Int
<1>1. IsFiniteSet(Schedule) /\ DOMAIN attempts = Schedule /\ \A t \in Schedule : attempts[t] \in Int
  BY FS_Interval DEF HInv, TypeOK, Schedule, HeldoutConstants
<1> QED
  BY <1>1, SumTakesOut DEF Episodes, SumFunction

(* A trial that is started adds one episode. *)
LEMMA OneMoreEpisode ==
  ASSUME HInv, HeldoutConstants, RunEpisode
  PROVE  Episodes' = Episodes + 1
<1>1. /\ at \in Schedule /\ attempts \in [Schedule -> Nat]
      /\ attempts' = [attempts EXCEPT ![at] = attempts[at] + 1]
  BY DEF HInv, TypeOK, RunEpisode
<1>2. /\ attempts' \in [Schedule -> Nat] /\ attempts'[at] = attempts[at] + 1
      /\ \A t \in Schedule \ {at} : attempts'[t] = attempts[t]
  BY <1>1
<1>3. IsFiniteSet(Schedule) /\ \A t \in Schedule : attempts[t] \in Int /\ attempts'[t] \in Int
  BY <1>1, <1>2, EpisodesAreCounted
<1>4. SumFunctionOnSet(attempts', Schedule) =
        SumFunctionOnSet(attempts, Schedule) - attempts[at] + attempts'[at]
  <2> DEFINE f == attempts
             k == attempts'
  <2>1. /\ \A t \in Schedule \ {at} : k[t] = f[t]
        /\ \A t \in Schedule : f[t] \in Int /\ k[t] \in Int
    BY <1>2, <1>3
  <2> HIDE DEF f, k
  <2>2. SumFunctionOnSet(k, Schedule) = SumFunctionOnSet(f, Schedule) - f[at] + k[at]
    BY <1>1, <1>3, <2>1, SumChanges
  <2> QED
    BY <2>2 DEF f, k
<1>5. Episodes' = SumFunctionOnSet(attempts', Schedule)
      /\ Episodes = SumFunctionOnSet(attempts, Schedule)
  BY <1>1, <1>2 DEF Episodes, SumFunction
<1>6. attempts[at] \in Int /\ Episodes \in Int
  BY <1>1, EpisodesAreCounted
<1> QED
  BY <1>2, <1>4, <1>5, <1>6

(* An episode is counted as running from its start to its record, a stop   *)
(* counts one, and a record is added where there was none.                 *)
LEMMA EpisodesNext ==
  ASSUME HInv, StopsLoseOneEpisode, HeldoutConstants, NoRecordAssumption, [Next]_vars
  PROVE  StopsLoseOneEpisode'
<1> DEFINE n == Cardinality(Recorded)
<1>1. n \in Nat /\ stopped \in Nat /\ Episodes \in Int
  BY RecordedCount, EpisodesAreCounted DEF HInv, TypeOK
<1>2. Episodes <= n + stopped + IF pc \in Running THEN 1 ELSE 0
  BY DEF StopsLoseOneEpisode, Running, Episodes
<1> SUFFICES Episodes' <= n' + stopped' + IF pc' \in Running THEN 1 ELSE 0
  BY DEF StopsLoseOneEpisode, Running, Episodes
<1>3. CASE Write \/ WriteFailure \/ WriteInterrupted
  <2>1. PICK l : WriteRecord(l) /\ pc \in AtTrial /\ pc # "episode" /\ pc \in Running
    BY <1>3 DEF Write, WriteFailure, WriteInterrupted, AtTrial, Underway, Done, Running
  <2>2. n' = n + 1
    BY <2>1, WriteAdds, RecordedCount, FS_AddElement
  <2>3. Episodes' = Episodes /\ stopped' = stopped
    BY <2>1 DEF WriteRecord, Episodes, Goto
  <2> HIDE DEF n
  <2> QED
    BY <1>1, <1>2, <2>1, <2>2, <2>3
<1>4. CASE ~(Write \/ WriteFailure \/ WriteInterrupted)
  <2>1. n' = n
    <3>1. UNCHANGED store
      BY <1>4 DEF Next, Step, Invoke, Bind, Conflict, RecoverProgress, Skip, RunEpisode,
           EpisodeEnds, EpisodeFails, Written, RejectDuplicate, InterruptedProgress, Count,
           Progress, Finish, Interrupt, Escape, vars, files, Save
    <3> QED
      BY <3>1 DEF Recorded
  <2> HIDE DEF n
  <2>2. CASE RunEpisode
    <3>1. Episodes' = Episodes + 1
      BY <2>2, OneMoreEpisode
    <3>2. pc \notin Running /\ pc' \in Running /\ stopped' = stopped
      BY <2>2 DEF RunEpisode, Goto, Running
    <3> QED
      BY <1>1, <1>2, <2>1, <3>1, <3>2
  <2>3. CASE Conflict \/ RejectDuplicate \/ InterruptedProgress \/ Escape
    <3>1. Episodes' = Episodes
      BY <2>3 DEF Conflict, RejectDuplicate, InterruptedProgress, Escape, Save, Episodes
    <3>2. stopped' = stopped + 1
      BY <2>3 DEF Conflict, RejectDuplicate, InterruptedProgress, Escape, Stop
    <3> QED
      BY <1>1, <1>2, <2>1, <3>1, <3>2
  <2>4. CASE \/ \E p \in Protocols : Invoke(p)
             \/ Bind \/ RecoverProgress \/ Skip \/ \E s \in EpisodeStatus : EpisodeEnds(s)
             \/ EpisodeFails \/ Interrupt \/ Written \/ Count \/ Progress \/ Finish \/ UNCHANGED vars
    <3>1. UNCHANGED <<attempts, stopped>> /\ (pc \in Running => pc' \in Running)
      BY <2>4 DEF Invoke, Bind, RecoverProgress, Skip, EpisodeEnds, EpisodeFails, Interrupt, Written,
           Count, Progress, Finish, vars, Goto, Save, Running, Idle
    <3>2. Episodes' = Episodes
      BY <3>1 DEF Episodes
    <3> QED
      BY <1>1, <1>2, <2>1, <3>1, <3>2
  <2> QED
    BY <1>4, <2>2, <2>3, <2>4 DEF Next, Step
<1> QED
  BY <1>3, <1>4

(* However often an invocation is stopped, all but one episode a stop, and  *)
(* the one that runs, have their record.                                   *)
THEOREM HeldoutStopsLoseOneEpisode == Spec => []StopsLoseOneEpisode
<1>1. Init => StopsLoseOneEpisode
  <2> SUFFICES ASSUME Init PROVE StopsLoseOneEpisode
    OBVIOUS
  <2>1. Recorded = {} /\ stopped = 0 /\ pc = "new" /\ attempts = [t \in Schedule |-> 0]
    BY DEF Init, Recorded
  <2>2. Episodes = 0
    <3>1. IsFiniteSet(Schedule) /\ \A t \in Schedule : attempts[t] = 0
      BY <2>1, FS_Interval, HeldoutConstants DEF Schedule, HeldoutConstants
    <3> QED
      BY <2>1, <3>1, SumOfZeros DEF Episodes, SumFunction
  <2>3. Cardinality(Recorded) = 0
    BY <2>1, FS_EmptySet
  <2> QED
    BY <2>1, <2>2, <2>3 DEF StopsLoseOneEpisode, Episodes
<1>2. HInv /\ StopsLoseOneEpisode /\ [Next]_vars => StopsLoseOneEpisode'
  BY EpisodesNext, HeldoutConstants, NoRecordAssumption
<1> QED
  BY <1>1, <1>2, HeldoutInvariant, PTL DEF Spec

-----------------------------------------------------------------------------
(* A bound on the steps an invocation has left: ten at most for each trial *)
(* it has not got past, by where it is.                                    *)
Rank == [l \in InLoop \cup AtTrial |->
  IF l = "progress" THEN 9 ELSE IF l = "loop" THEN 8 ELSE IF l = "episode" THEN 7
  ELSE IF l = "write" THEN 6 ELSE IF l \in {"written", "write_failure"} THEN 5
  ELSE IF l = "write_interrupted" THEN 4 ELSE IF l = "interrupted_progress" THEN 3 ELSE 2]
StepsLeft ==
  IF pc \in Idle THEN 0
  ELSE IF pc = "bind" THEN 10 * Trials + 20
  ELSE IF pc = "recover" THEN 10 * Trials + 19
  ELSE 10 * (Trials + 1 - at) + Rank[pc]

(* Where a step of an invocation leads.                                    *)
LEMMA StepLeads ==
  ASSUME HInv, HeldoutConstants, Next, pc \notin Idle
  PROVE  \/ pc' \in Idle
         \/ pc = "bind" /\ pc' = "recover"
         \/ pc = "recover" /\ pc' = "loop" /\ at' = 1
         \/ pc = "loop" /\ pc' = "loop" /\ at' = at + 1
         \/ pc = "count" /\ pc' \in InLoop /\ at' = at + 1
         \/ /\ pc \in InLoop \cup AtTrial /\ pc' \in InLoop \cup AtTrial
            /\ at' = at /\ Rank[pc'] < Rank[pc]
<1> USE DEF Goto, Stop, memory, InLoop, AtTrial, Underway, Done, Idle, Rank
<1>1. CASE Bind \/ Conflict \/ RecoverProgress \/ Skip \/ RunEpisode \/ Finish \/ Escape
  BY <1>1 DEF Bind, Conflict, RecoverProgress, Skip, RunEpisode, Finish, Escape
<1>2. CASE (\E s \in EpisodeStatus : EpisodeEnds(s)) \/ EpisodeFails \/ Interrupt
  BY <1>2 DEF EpisodeEnds, EpisodeFails, Interrupt
<1>3. CASE Write \/ Written \/ WriteFailure \/ WriteInterrupted
  BY <1>3 DEF Write, Written, WriteFailure, WriteInterrupted, WriteRecord
<1>4. CASE RejectDuplicate \/ InterruptedProgress \/ Progress
  BY <1>4 DEF RejectDuplicate, InterruptedProgress, Progress
<1>5. CASE Count
  BY <1>5 DEF Count
<1> QED
  BY <1>1, <1>2, <1>3, <1>4, <1>5 DEF Next, Step, Invoke

(* The bound is a number, and none for one at a trial is above that of one *)
(* that has not recovered.                                                 *)
LEMMA StepsLeftBound ==
  ASSUME HInv, HeldoutConstants
  PROVE  /\ StepsLeft \in 0 .. 10 * Trials + 20
         /\ pc \notin Idle => StepsLeft > 0
<1>1. Trials \in Nat /\ at \in 1 .. Trials + 1
  BY DEF HInv, TypeOK, HeldoutConstants
<1>2. CASE pc \in Idle \cup {"bind", "recover"}
  BY <1>1, <1>2 DEF StepsLeft, Idle
<1>3. CASE pc \notin Idle \cup {"bind", "recover"}
  <2>1. pc \in InLoop \cup AtTrial
    BY <1>3 DEF HInv, TypeOK, InLoop, AtTrial, Underway, Done
  <2>2. Rank[pc] \in 2 .. 9
    BY <2>1 DEF Rank
  <2>3. StepsLeft = 10 * (Trials + 1 - at) + Rank[pc]
    BY <1>3 DEF StepsLeft
  <2>4. StepsLeft > 0 /\ StepsLeft <= 10 * Trials + 9 /\ StepsLeft \in Int
    BY <1>1, <2>2, <2>3
  <2> QED
    BY <1>1, <2>4
<1> QED
  BY <1>2, <1>3

(* A step of an invocation leaves it fewer.                                *)
LEMMA StepsLeftNext ==
  ASSUME HInv, HInv', HeldoutConstants, Next, pc \notin Idle
  PROVE  StepsLeft' < StepsLeft
<1>1. Trials \in Nat /\ at \in 1 .. Trials + 1 /\ at' \in 1 .. Trials + 1
  BY DEF HInv, TypeOK, HeldoutConstants
<1>2. pc \in InLoop \cup AtTrial => Rank[pc] \in 2 .. 9 /\ StepsLeft = 10 * (Trials + 1 - at) + Rank[pc]
  BY DEF Rank, StepsLeft, InLoop, AtTrial, Underway, Done, Idle
<1>3. pc' \in InLoop \cup AtTrial =>
        Rank[pc'] \in 2 .. 9 /\ StepsLeft' = 10 * (Trials + 1 - at') + Rank[pc']
  BY DEF Rank, StepsLeft, InLoop, AtTrial, Underway, Done, Idle
<1>4. CASE pc' \in Idle
  <2>1. StepsLeft' = 0
    BY <1>4 DEF StepsLeft
  <2>2. StepsLeft \in Int /\ StepsLeft > 0
    BY <1>1, StepsLeftBound
  <2> QED
    BY <2>1, <2>2
<1>5. CASE pc = "bind" /\ pc' = "recover"
  <2>1. StepsLeft = 10 * Trials + 20 /\ StepsLeft' = 10 * Trials + 19
    BY <1>5 DEF StepsLeft, Idle
  <2> QED
    BY <1>1, <2>1
<1>6. CASE pc = "recover" /\ pc' = "loop" /\ at' = 1
  <2>1. StepsLeft = 10 * Trials + 19
    BY <1>6 DEF StepsLeft, Idle
  <2>2. StepsLeft' = 10 * (Trials + 1 - at') + Rank[pc'] /\ Rank[pc'] \in 2 .. 9
    BY <1>3, <1>6 DEF InLoop
  <2> QED
    BY <1>1, <1>6, <2>1, <2>2
<1>7. CASE /\ \/ pc = "loop" /\ pc' = "loop"
              \/ pc = "count" /\ pc' \in InLoop
           /\ at' = at + 1
  <2>1. Rank[pc'] < Rank[pc] + 10 /\ Rank[pc] \in Int /\ Rank[pc'] \in Int
    BY <1>7 DEF Rank, InLoop, AtTrial, Underway, Done
  <2>2. /\ StepsLeft = 10 * (Trials + 1 - at) + Rank[pc]
        /\ StepsLeft' = 10 * (Trials + 1 - at') + Rank[pc']
    BY <1>2, <1>3, <1>7 DEF InLoop, AtTrial, Done
  <2> QED
    BY <1>1, <1>7, <2>1, <2>2
<1>8. CASE /\ pc \in InLoop \cup AtTrial /\ pc' \in InLoop \cup AtTrial
           /\ at' = at /\ Rank[pc'] < Rank[pc]
  BY <1>1, <1>2, <1>3, <1>8
<1> QED
  BY <1>4, <1>5, <1>6, <1>7, <1>8, StepLeads

(* No invocation goes on for ever: every step of it, on whatever path,     *)
(* leaves it fewer, and none begins with more than ten per trial and       *)
(* twenty.                                                                 *)
THEOREM HeldoutStepsAreBounded ==
  Spec => [](StepsLeft \in 0 .. 10 * Trials + 20) /\ [][pc \notin Idle => StepsLeft' < StepsLeft]_vars
<1>1. HInv => StepsLeft \in 0 .. 10 * Trials + 20
  BY StepsLeftBound, HeldoutConstants
<1>2. HInv /\ HInv' /\ [Next]_vars => [pc \notin Idle => StepsLeft' < StepsLeft]_vars
  BY StepsLeftNext, HeldoutConstants
<1> QED
  BY <1>1, <1>2, HeldoutInvariant, PTL DEF Spec
=============================================================================
