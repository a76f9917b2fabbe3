-------------------------- MODULE ScheduleAgentProofs --------------------------
(***************************************************************************)
(* Proofs about ScheduleAgent, for any size limits, budgets and usages.    *)
(***************************************************************************)
EXTENDS ScheduleAgent, SequenceTheorems, FiniteSetTheorems, TLAPS

WriteRecords == [name : Names, content : Contents]

(* A file put into a bundle, or taken out of it, leaves a bundle.           *)
LEMMA BundleChanges ==
  ASSUME NEW f, IsBundle(f), NEW n \in Names, NEW c \in Contents
  PROVE  IsBundle(Put(f, n, c)) /\ IsBundle(Without(f, n)) /\ IsBundle(Torn)
<1>1. IsBundle(Put(f, n, c))
  BY DEF IsBundle, Put
<1>2. IsBundle(Without(f, n))
  BY DEF IsBundle, Without, Restrict
<1>3. Temporary \in Names /\ "torn" \in Contents
  BY DEF Temporary, Names, Kinds, Contents
<1>4. Torn = [x \in {Temporary} |-> "torn"]
  BY DEF Torn, Put, Nothing
<1>5. IsBundle(Torn)
  BY <1>3, <1>4 DEF IsBundle
<1> QED BY <1>1, <1>2, <1>5

(* The lists of files the controller writes are lists of such records.     *)
LEMMA ListsAreTyped ==
  ASSUME NEW b \in 0 .. 2, NEW c \in Contents
  PROVE  All(b, Setup, c) \in Seq(WriteRecords) /\ All(b, Results, c) \in Seq(WriteRecords)
<1>1. \A k \in Kinds : Write(b, k, c) \in WriteRecords
  BY DEF Write, WriteRecords, Names
<1>2. \A i \in 1 .. 6 : Setup[i] \in Kinds /\ Results[i] \in Kinds
  BY DEF Setup, Results, Kinds
<1>3. DOMAIN Setup = 1 .. 6 /\ DOMAIN Results = 1 .. 6
  BY DEF Setup, Results
<1>4. All(b, Setup, c) \in [1 .. 6 -> WriteRecords] /\ All(b, Results, c) \in [1 .. 6 -> WriteRecords]
  BY <1>1, <1>2, <1>3 DEF All
<1> QED BY <1>4, SeqDef

(* What the writes of the planner and of the controller hold.              *)
LEMMA WritesAreTyped ==
  \A b \in 0 .. 2, k \in Kinds, c \in Contents : Write(b, k, c) \in WriteRecords
BY DEF Write, WriteRecords, Names

(* The first write of a list, and the list without it.                     *)
LEMMA HeadIsTyped ==
  ASSUME TypeOK, todo # << >>
  PROVE  /\ Head(todo) \in WriteRecords /\ Head(todo).name \in Names /\ Head(todo).content \in Contents
         /\ Tail(todo) \in Seq(WriteRecords)
<1>1. todo \in Seq(WriteRecords)
  BY DEF TypeOK, WriteRecords
<1>2. Head(todo) \in WriteRecords /\ Tail(todo) \in Seq(WriteRecords)
  BY <1>1, HeadTailProperties
<1> QED BY <1>2 DEF WriteRecords
-----------------------------------------------------------------------------
(* The inductive invariant, beside the types.                              *)
Elements(s) == {s[i] : i \in 1 .. Len(s)}
Pending == Elements(todo)
Closing == {"record", "decide", "return"} \cup Ended
Proposal(b) == <<b, "proposal">>
Feedback == <<1, "feedback">>
Comparisons == <<0, "control_comparisons">>
Usage == <<0, "resource_usage">>

(* What is about to be written agrees with the state it tells of.          *)
WritesAgree ==
  \A w \in Pending :
    /\ w.name # Temporary /\ \A b \in Batches : w.name # Unfinished(b)
    /\ w.name = Decision => pc \in {"return"} \cup Ended /\ w.content = outcome.class
    /\ \A b \in Batches : w.name = Proposal(b) => w.content = source[b]
    /\ w.content = "terminal" => error # "none"
    /\ w.name = Failure => pc \in {"decide"} \cup Ended
    /\ pc = "decide" => w.name = Failure
    /\ pc = "return" => w.name = Decision

(* Between its replacement and the manifest a write is in the bundle.      *)
WriteUnderWay ==
  /\ todo = << >> => step = "check"
  /\ step \in {"replaced", "manifest"} => Holds(Head(todo).name, Head(todo).content)

(* A run that nothing has gone wrong in has written, or is about to write, *)
(* the live proposals it accepted, and the feedback before Batch 2.        *)
Promised(n) == n \in DOMAIN files \/ \E w \in Pending : w.name = n
ProposalsKept ==
  pc \notin Closing /\ error = "none" =>
    /\ \A b \in Batches : source[b] = "LIVE" =>
         /\ given[b] = "valid"
         /\ Holds(Proposal(b), "LIVE") \/ \E w \in Pending : w.name = Proposal(b)
    /\ batch = 2 => Promised(Feedback)

(* Requests are counted, and the second one is sent after the feedback.    *)
RequestsCounted ==
  /\ sent = CASE calls = 0 -> << >> [] calls = 1 -> <<1>> [] OTHER -> <<1, 2>>
  /\ calls \in 0 .. 2
  /\ calls = 2 => Feedback \in DOMAIN files
  /\ pc = "asked" => calls = batch
  /\ source[2] = "LIVE" => calls = 2

(* A worker runs only while the controller waits for it, or has died.      *)
WorkerAwaited ==
  /\ worker # "none" => pc \in {"waiting", "crashed"} /\ todo = << >> /\ error = "none"
  /\ pc \in {"decide", "return"} => error = "none"

(* Class A, and a bundle that says so, come only from two live batches.    *)
AIsEarned ==
  /\ outcome.class = "A" =>
       /\ pc \in Closing /\ worker = "none"
       /\ \A b \in Batches : source[b] = "LIVE" /\ given[b] = "valid"
                             /\ measured[b] = "complete" /\ Holds(Proposal(b), "LIVE")
  /\ Holds(Decision, "A") => outcome.class = "A" /\ pc \in {"return"} \cup Ended

(* A run that comes to a decision other than D without an exception has    *)
(* its last two files in the bundle.                                       *)
LastKept ==
  /\ pc = "classify" /\ error = "none" => Promised(Comparisons)
  /\ pc = "record" /\ error = "none" => Promised(Usage) /\ Comparisons \in DOMAIN files
  /\ pc = "decide" => outcome.class = "D"
  /\ pc \in {"return", "returned", "raised"} /\ outcome.class = "A" =>
       {Comparisons, Usage} \subseteq DOMAIN files
  /\ Holds(Decision, "A") => {Comparisons, Usage} \subseteq DOMAIN files

(* A planner limit, once reached, is on its way to the end of the run.     *)
LimitCloses == LimitReached => worker = "none" /\ (error # "none" \/ pc \in Closing)

AgentInv == /\ TypeOK /\ WritesAgree /\ WriteUnderWay /\ ProposalsKept /\ RequestsCounted
            /\ WorkerAwaited /\ AIsEarned /\ LastKept /\ LimitCloses

(* The agent starts with its variables typed.                              *)
LEMMA AgentInit == ASSUME Init PROVE TypeOK
<1>1. todo \in Seq(WriteRecords)
  BY ListsAreTyped DEF Init, Contents
<1>2. IsBundle(files) /\ IsBundle(manifest)
  BY DEF Init, IsBundle, Nothing
<1> QED
  BY <1>1, <1>2 DEF Init, TypeOK, WriteRecords, Phases, Batches, Ended, Sources, Qualities, Answers

(* Every step keeps the types.                                             *)
LEMMA AgentStep == ASSUME TypeOK, [Next]_vars PROVE TypeOK'
<1> USE DEF bundle, planner, proposals
<1>1. CASE WriteTemporary
  <2>1. IsBundle(files')
    BY <1>1, BundleChanges DEF WriteTemporary, TypeOK, Temporary, Names, Kinds, Contents
  <2> QED BY <1>1, <2>1 DEF WriteTemporary, TypeOK
<1>2. CASE ReplaceFile
  <2>1. Head(todo).name \in Names /\ Head(todo).content \in Contents
    BY <1>2, HeadIsTyped DEF ReplaceFile, Writing
  <2>2. Temporary \in Names /\ "torn" \in Contents
    BY DEF Temporary, Names, Kinds, Contents
  <2>3. IsBundle(Without(files, Temporary))
    BY <2>2, BundleChanges DEF TypeOK
  <2>4. IsBundle(files')
    BY <1>2, <2>1, <2>3, BundleChanges DEF ReplaceFile
  <2> QED BY <1>2, <2>4 DEF ReplaceFile, TypeOK
<1>3. CASE TruncateManifest
  <2>1. Temporary \in Names /\ "torn" \in Contents
    BY DEF Temporary, Names, Kinds, Contents
  <2>2. IsBundle(manifest')
    BY <1>3, <2>1, BundleChanges DEF TruncateManifest, TypeOK
  <2> QED BY <1>3, <2>2 DEF TruncateManifest, TypeOK
<1>4. CASE WriteManifest
  <2>1. todo' \in Seq(WriteRecords)
    BY <1>4, HeadIsTyped DEF WriteManifest, Writing
  <2> QED BY <1>4, <2>1 DEF WriteManifest, TypeOK, WriteRecords
<1>5. CASE RefuseWrite
  BY <1>5 DEF RefuseWrite, TypeOK, Ended
<1>6. CASE ChoosePlanner
  <2>1. todo' \in Seq(WriteRecords)
    BY <1>6, EmptySeq DEF ChoosePlanner, Goto, Raise, TypeOK, WriteRecords
  <2> QED BY <1>6, <2>1 DEF ChoosePlanner, Goto, Raise, TypeOK, WriteRecords, Phases
<1>7. ASSUME NEW s \in {"LIVE", "FALLBACK", "SAVED"}, NEW v \in {"valid", "invalid"}, Propose(s, v)
      PROVE  /\ pc' \in Phases /\ todo' \in Seq(WriteRecords) /\ batch' \in Batches
             /\ error' \in {"none", "invalid"} /\ source' \in [Batches -> Sources]
  <2>1. todo' \in Seq(WriteRecords)
    BY <1>7, WritesAreTyped DEF Propose, TypeOK, Batches, Kinds, Contents, Sources
  <2> QED BY <1>7, <2>1 DEF Propose, TypeOK, Phases, Sources
<1>8. ASSUME FallBack
      PROVE  /\ pc' \in Phases /\ todo' \in Seq(WriteRecords) /\ batch' \in Batches
             /\ error' = error /\ source' \in [Batches -> Sources]
  <2>1. todo' \in Seq(WriteRecords)
    BY <1>8, WritesAreTyped DEF FallBack, TypeOK, Batches, Kinds, Contents, Sources
  <2> QED BY <1>8, <2>1 DEF FallBack, TypeOK, Phases, Sources
<1>9. ASSUME Exhaust
      PROVE  /\ pc' = pc /\ todo' \in Seq(WriteRecords) /\ batch' \in Batches
             /\ error' = "budget" /\ source' \in [Batches -> Sources]
  <2>1. todo' \in Seq(WriteRecords)
    BY <1>9, WritesAreTyped DEF Exhaust, TypeOK, Batches, Kinds, Contents
  <2> QED BY <1>9, <2>1 DEF Exhaust, TypeOK
<1>10. CASE ProposeOffline
  <2>1. CASE args.provider = "fallback" /\ Propose("FALLBACK", "valid")
    BY <1>10, <1>7, <2>1 DEF ProposeOffline, TypeOK, WriteRecords
  <2>2. CASE \E v \in {"valid", "invalid"} : Propose("SAVED", v)
    BY <1>10, <1>7, <2>2 DEF ProposeOffline, TypeOK, WriteRecords
  <2>3. CASE Raise("invalid") /\ UNCHANGED source
    BY <1>10, <2>3 DEF ProposeOffline, Raise, TypeOK
  <2> QED BY <1>10, <2>1, <2>2, <2>3 DEF ProposeOffline
<1>11. CASE PlannerLimit
  BY <1>11, <1>9 DEF PlannerLimit, TypeOK, WriteRecords
<1>12. CASE PlannerRefuses
  BY <1>12, <1>8 DEF PlannerRefuses, TypeOK, WriteRecords
<1>13. CASE SendRequest
  <2>1. calls' \in Nat /\ sent' \in Seq(Batches)
    BY <1>13, AppendProperties DEF SendRequest, TypeOK
  <2> QED BY <1>13, <2>1 DEF SendRequest, TypeOK, Phases
<1>14. CASE AnswerLost
  BY <1>14, <1>8 DEF AnswerLost, TypeOK, WriteRecords
<1>15. CASE AnswerUnaccountable
  BY <1>15, <1>9 DEF AnswerUnaccountable, TypeOK, WriteRecords
<1>16. ASSUME NEW u \in Usages, NEW a \in Answers, AnswerComes(u, a)
       PROVE  TypeOK'
  <2>1. tokens' \in Nat /\ given' \in [Batches -> Answers]
    BY <1>16, AgentConstants DEF AnswerComes, TypeOK
  <2>2. Exhaust \/ (\E v \in {"valid", "invalid"} : Propose("LIVE", v)) \/ FallBack
    BY <1>16 DEF AnswerComes
  <2>3. CASE Exhaust
    BY <1>16, <1>9, <2>1, <2>3 DEF AnswerComes, TypeOK, WriteRecords
  <2>4. CASE \E v \in {"valid", "invalid"} : Propose("LIVE", v)
    BY <1>16, <1>7, <2>1, <2>4 DEF AnswerComes, TypeOK, WriteRecords
  <2>5. CASE FallBack
    BY <1>16, <1>8, <2>1, <2>5 DEF AnswerComes, TypeOK, WriteRecords
  <2> QED BY <2>2, <2>3, <2>4, <2>5
<1>17. CASE Select
  <2>1. /\ <<Write(2, "controls_and_guidance", "data")>> \in Seq(WriteRecords)
        /\ << Write(2, "controls_and_guidance", "data"),
              Write(0, "replay_comparison", "data") >> \in Seq(WriteRecords)
    BY WritesAreTyped DEF Kinds, Contents
  <2>2. /\ pc' \in Phases \cup Ended /\ todo' \in Seq(WriteRecords) /\ batch' \in Batches
        /\ error' \in {error, "invalid", "size"}
    BY <1>17, <2>1 DEF Select, Goto, Raise, TypeOK, WriteRecords, Phases
  <2> QED BY <1>17, <2>2 DEF Select, TypeOK, WriteRecords
<1>18. CASE Gate
  <2>1. batch \in 0 .. 2
    BY DEF TypeOK, Batches
  <2>2. /\ << Write(batch, "cpu_gates", "complete"),
              Write(batch, "requested_hashes", "data") >> \in Seq(WriteRecords)
        /\ <<Write(1, "cpu_gates", "complete")>> \in Seq(WriteRecords)
        /\ << Write(2, "cpu_gates", "complete"), Write(2, "replay_note", "data") >> \in Seq(WriteRecords)
    BY <2>1, WritesAreTyped DEF Kinds, Contents, Qualities
  <2>3. /\ pc' \in Phases \cup Ended /\ todo' \in Seq(WriteRecords) /\ batch' \in Batches
        /\ error' \in {error, "invalid", "size"}
    BY <1>18, <2>2 DEF Gate, Goto, Raise, TypeOK, WriteRecords, Phases
  <2> QED BY <1>18, <2>3 DEF Gate, TypeOK, WriteRecords
<1>19. CASE Replay
  <2>1. <<Write(0, "replay_source", "data")>> \in Seq(WriteRecords)
    BY WritesAreTyped DEF Kinds, Contents
  <2>2. /\ pc' \in Phases \cup Ended /\ todo' \in Seq(WriteRecords) /\ batch' \in Batches
        /\ error' \in {error, "invalid", "size"}
    BY <1>19, <2>1 DEF Replay, Goto, Raise, TypeOK, WriteRecords, Phases
  <2> QED BY <1>19, <2>2 DEF Replay, TypeOK, WriteRecords
<1>20. CASE LaunchWorker
  BY <1>20 DEF LaunchWorker, Raise, TypeOK, Phases
<1>21. \A b \in Batches : Unfinished(b) \in Names
  BY DEF Unfinished, Batches, Names, Kinds
<1>22. CASE WorkerWrites
  <2>1. IsBundle(files')
    BY <1>21, <1>22, BundleChanges DEF WorkerWrites, TypeOK, Contents
  <2> QED BY <1>22, <2>1 DEF WorkerWrites, TypeOK
<1>23. CASE WorkerFinishes
  <2>1. IsBundle(files')
    BY <1>21, <1>23, BundleChanges DEF WorkerFinishes, TypeOK, Contents
  <2>2. measured' \in [Batches -> Qualities]
    BY <1>23 DEF WorkerFinishes, TypeOK, Qualities
  <2> QED BY <1>23, <2>1, <2>2 DEF WorkerFinishes, TypeOK
<1>24. CASE WorkerFails
  BY <1>24 DEF WorkerFails, TypeOK
<1>25. CASE AwaitFailure
  BY <1>25 DEF AwaitFailure, Raise, TypeOK
<1>26. CASE Collect
  <2>1. IsBundle(files')
    BY <1>21, <1>26, BundleChanges DEF Collect, TypeOK, Contents
  <2>2. All(batch, Results, measured[batch]) \in Seq(WriteRecords)
    <3>1. batch \in 0 .. 2 /\ measured[batch] \in Contents
      BY DEF TypeOK, Batches, Contents
    <3> QED BY <3>1, ListsAreTyped
  <2>3. /\ pc' \in Phases \cup Ended /\ todo' \in Seq(WriteRecords) /\ batch' \in Batches
        /\ error' \in {error, "invalid", "size"}
    BY <1>26, <2>2 DEF Collect, Goto, Raise, TypeOK, WriteRecords, Phases
  <2> QED BY <1>26, <2>1, <2>3 DEF Collect, TypeOK, WriteRecords
<1>27. CASE Calibrate
  <2>1. CASE batch = 1
    <3>1. todo' \in Seq(WriteRecords)
      <4>1. measured[1] \in Contents
        BY DEF TypeOK, Batches, Contents
      <4>2. Write(1, "calibration", "data") \in WriteRecords
        BY WritesAreTyped DEF Kinds, Contents
      <4>3. Write(1, "feedback", measured[1]) \in WriteRecords
        BY <4>1, WritesAreTyped DEF Kinds
      <4>4. todo' = << Write(1, "calibration", "data"), Write(1, "feedback", measured[1]) >>
        BY <1>27, <2>1 DEF Calibrate
      <4> QED BY <4>2, <4>3, <4>4
    <3> QED BY <1>27, <2>1, <3>1 DEF Calibrate, TypeOK, WriteRecords, Batches, Phases
  <2>2. CASE batch # 1
    <3>1. <<Write(2, "calibration", "data")>> \in Seq(WriteRecords)
      BY WritesAreTyped DEF Kinds, Contents
    <3>2. /\ pc' \in Phases \cup Ended /\ todo' \in Seq(WriteRecords) /\ batch' \in Batches
          /\ error' \in {error, "invalid", "size"}
    BY <1>27, <2>2, <3>1 DEF Calibrate, Goto, Raise, TypeOK, WriteRecords, Phases
    <3> QED BY <1>27, <2>2, <3>2 DEF Calibrate, TypeOK, WriteRecords
  <2> QED BY <2>1, <2>2
<1>28. CASE Compare \/ Classify
  <2>1. /\ <<Write(0, "control_comparisons", "data")>> \in Seq(WriteRecords)
        /\ <<Write(0, "resource_usage", "data")>> \in Seq(WriteRecords)
    BY WritesAreTyped DEF Kinds, Contents
  <2>2. /\ pc' \in Phases \cup Ended /\ todo' \in Seq(WriteRecords) /\ batch' \in Batches
        /\ error' \in {error, "invalid", "size"}
    BY <1>28, <2>1 DEF Compare, Classify, Goto, Raise, TypeOK, WriteRecords, Phases
  <2> QED BY <1>28, <2>2 DEF Compare, Classify, TypeOK, WriteRecords
<1>29. CASE Handle
  <2>1. todo' \in Seq(WriteRecords)
    BY <1>29, WritesAreTyped DEF Handle, Kinds, Contents
  <2> QED BY <1>29, <2>1 DEF Handle, TypeOK, WriteRecords, Phases
<1>30. CASE Decide
  <2>1. <<Write(0, "decision", outcome.class)>> \in Seq(WriteRecords)
    BY WritesAreTyped DEF Kinds, Contents, TypeOK
  <2>2. /\ pc' \in Phases \cup Ended /\ todo' \in Seq(WriteRecords) /\ batch' \in Batches
        /\ error' \in {error, "invalid", "size"}
    BY <1>30, <2>1 DEF Decide, Goto, Raise, TypeOK, WriteRecords, Phases
  <2> QED BY <1>30, <2>2 DEF Decide, TypeOK, WriteRecords
<1>31. CASE Return
  BY <1>31 DEF Return, TypeOK, Ended
<1>32. CASE Crash
  BY <1>32 DEF Crash, TypeOK, Ended
<1>33. CASE UNCHANGED vars
  BY <1>33 DEF vars, TypeOK
<1> QED
  BY <1>1, <1>2, <1>3, <1>4, <1>5, <1>6, <1>10, <1>11, <1>12, <1>13, <1>14, <1>15, <1>16, <1>17,
     <1>18, <1>19, <1>20, <1>22, <1>23, <1>24, <1>25, <1>26, <1>27, <1>28, <1>29, <1>30, <1>31,
     <1>32, <1>33
  DEF Next, Controller, Plan, Store, Measure, Conclude, Worker

(* Every variable keeps its type, and every file of the bundle its name    *)
(* and a content.                                                          *)
THEOREM AgentTypeCorrect == Spec => []TypeOK
<1>1. Init => TypeOK
  BY AgentInit
<1>2. TypeOK /\ [Next]_vars => TypeOK'
  BY AgentStep
<1> QED BY <1>1, <1>2, PTL DEF Spec
-----------------------------------------------------------------------------
(* The elements of short lists, and of a list without its first element.   *)
LEMMA ElementsOf ==
  /\ Elements(<< >>) = {}
  /\ \A a : Elements(<<a>>) = {a}
  /\ \A a, b : Elements(<<a, b>>) = {a, b}
  /\ \A a, b, c : Elements(<<a, b, c>>) = {a, b, c}
<1>1. Elements(<< >>) = {}
  BY DEF Elements
<1>2. ASSUME NEW a PROVE Elements(<<a>>) = {a}
  BY DEF Elements
<1>3. ASSUME NEW a, NEW b PROVE Elements(<<a, b>>) = {a, b}
  <2>1. Len(<<a, b>>) = 2 /\ <<a, b>>[1] = a /\ <<a, b>>[2] = b
    OBVIOUS
  <2>2. 1 .. 2 = {1, 2}
    OBVIOUS
  <2> QED BY <2>1, <2>2 DEF Elements
<1>4. ASSUME NEW a, NEW b, NEW c PROVE Elements(<<a, b, c>>) = {a, b, c}
  <2>1. Len(<<a, b, c>>) = 3 /\ <<a, b, c>>[1] = a /\ <<a, b, c>>[2] = b /\ <<a, b, c>>[3] = c
    OBVIOUS
  <2>2. 1 .. 3 = {1, 2, 3}
    OBVIOUS
  <2> QED BY <2>1, <2>2 DEF Elements
<1> QED BY <1>1, <1>2, <1>3, <1>4

(* A list is its head and the elements of its tail.                        *)
LEMMA ElementsOfTail ==
  ASSUME NEW S, NEW s \in Seq(S), s # << >>
  PROVE  Head(s) \in Elements(s) /\ Elements(s) = {Head(s)} \cup Elements(Tail(s))
<1>1. Head(s) = s[1] /\ Len(s) \in Nat /\ Len(s) >= 1
  BY EmptySeq, LenProperties
<1>2. Len(Tail(s)) = Len(s) - 1 /\ \A i \in 1 .. Len(Tail(s)) : Tail(s)[i] = s[i + 1]
  BY HeadTailProperties
<1>3. Elements(Tail(s)) \subseteq Elements(s)
  BY <1>1, <1>2 DEF Elements
<1>4. ASSUME NEW i \in 1 .. Len(s) PROVE s[i] = Head(s) \/ s[i] \in Elements(Tail(s))
  <2>1. CASE i = 1
    BY <1>1, <2>1
  <2>2. CASE i # 1
    <3>1. i - 1 \in 1 .. Len(Tail(s)) /\ Tail(s)[i - 1] = s[i]
      BY <1>1, <1>2, <2>2
    <3> QED BY <3>1 DEF Elements
  <2> QED BY <2>1, <2>2
<1>5. Head(s) \in Elements(s)
  BY <1>1 DEF Elements
<1> QED
  BY <1>3, <1>4, <1>5 DEF Elements

(* A list of a batch's results holds nothing but them.                     *)
LEMMA ElementsOfResults ==
  ASSUME NEW b, NEW c
  PROVE  \A w \in Elements(All(b, Results, c)) : \E i \in 1 .. 6 : w = Write(b, Results[i], c)
<1>1. DOMAIN Results = 1 .. 6
  BY DEF Results
<1>2. All(b, Results, c) = [i \in 1 .. 6 |-> Write(b, Results[i], c)]
  BY <1>1 DEF All
<1>3. Len(All(b, Results, c)) = 6
  BY <1>2
<1> QED BY <1>2, <1>3 DEF Elements
-----------------------------------------------------------------------------
(* Most steps of the controller come after its last list of files is       *)
(* written, leave the proposals alone, and put only files on the new list  *)
(* that the invariant says nothing of.                                     *)
Plain(w) == /\ w.name \notin {Temporary, Failure, Decision} /\ w.content # "terminal"
            /\ \A b \in Batches : w.name \notin {Unfinished(b), Proposal(b)}
Routine ==
  \/ ChoosePlanner \/ SendRequest \/ Select \/ Gate \/ Replay \/ LaunchWorker
  \/ AwaitFailure \/ Collect \/ Calibrate \/ Compare \/ Classify \/ Handle \/ Return

(* Writes of any other kind and content are of no concern to planner and   *)
(* decision.                                                               *)
LEMMA PlainWrite ==
  \A b \in 0 .. 2, k \in Kinds \ {"temporary", "failure", "decision", "worker", "proposal"},
     c \in Contents \ {"terminal"} : Plain(Write(b, k, c))
BY DEF Plain, Write, Temporary, Failure, Decision, Unfinished, Proposal, Batches

(* The steps that neither hear from the planner nor decide leave the       *)
(* proposals alone and write nothing of concern.                           *)
LEMMA RoutineStep ==
  ASSUME TypeOK, Routine
  PROVE  /\ todo = << >> /\ step' = step /\ UNCHANGED proposals /\ tokens' = tokens
         /\ \A w \in Pending' : Plain(w) \/ (Handle /\ w = Write(0, "failure", "data"))
<1> USE DEF bundle, planner
<1>1. todo = << >> /\ step' = step /\ UNCHANGED proposals /\ tokens' = tokens
  BY DEF Routine, ChoosePlanner, SendRequest, Select, Gate, Replay, LaunchWorker, AwaitFailure,
         Collect, Calibrate, Compare, Classify, Handle, Return, At
<1>2. Pending = {} /\ \A e : Raise(e) => Pending' = {}
  BY <1>1, ElementsOf DEF Pending, Raise
<1>3. \A l, w : Goto(l, w) => Pending' = Elements(w)
  BY DEF Goto, Pending
<1>4. ASSUME NEW b \in 0 .. 2, NEW k \in Kinds \ {"temporary", "failure", "decision", "worker", "proposal"},
             NEW c \in Contents \ {"terminal"}
      PROVE  Plain(Write(b, k, c))
  BY PlainWrite
<1>5. \A b \in Batches : measured[b] \in Contents \ {"terminal"}
  BY DEF TypeOK, Contents, Qualities
<1>6. CASE ChoosePlanner \/ SendRequest \/ LaunchWorker \/ AwaitFailure \/ Return
  BY <1>1, <1>2, <1>3, <1>6, ElementsOf
  DEF ChoosePlanner, SendRequest, LaunchWorker, AwaitFailure, Return, Pending, Raise, Goto
<1>7. CASE Select
  <2>1. Plain(Write(2, "controls_and_guidance", "data")) /\ Plain(Write(0, "replay_comparison", "data"))
    BY <1>4 DEF Kinds, Contents
  <2> QED BY <1>1, <1>2, <1>3, <1>7, <2>1, ElementsOf DEF Select
<1>8. CASE Gate
  <2>1. batch \in 0 .. 2
    BY DEF TypeOK, Batches
  <2>2. /\ Plain(Write(batch, "cpu_gates", "complete")) /\ Plain(Write(batch, "requested_hashes", "data"))
        /\ Plain(Write(1, "cpu_gates", "complete")) /\ Plain(Write(2, "cpu_gates", "complete"))
        /\ Plain(Write(2, "replay_note", "data"))
    BY <1>4, <2>1 DEF Kinds, Contents, Qualities
  <2> QED BY <1>1, <1>2, <1>3, <1>8, <2>2, ElementsOf DEF Gate
<1>9. CASE Replay
  <2>1. Plain(Write(0, "replay_source", "data"))
    BY <1>4 DEF Kinds, Contents
  <2> QED BY <1>1, <1>2, <1>3, <1>9, <2>1, ElementsOf DEF Replay
<1>10. CASE Collect
  <2>1. \A i \in 1 .. 6 : Results[i] \in Kinds \ {"temporary", "failure", "decision", "worker", "proposal"}
    BY DEF Results, Kinds
  <2>2. batch \in 0 .. 2 /\ measured[batch] \in Contents \ {"terminal"}
    BY <1>5 DEF TypeOK, Batches
  <2>3. \A i \in 1 .. 6 : Plain(Write(batch, Results[i], measured[batch]))
    BY <1>4, <2>1, <2>2
  <2>4. \A w \in Elements(All(batch, Results, measured[batch])) : Plain(w)
    BY <2>3, ElementsOfResults
  <2> QED BY <1>1, <1>2, <1>3, <1>10, <2>4 DEF Collect
<1>11. CASE Calibrate
  <2>1. Plain(Write(1, "calibration", "data")) /\ Plain(Write(2, "calibration", "data"))
    BY <1>4 DEF Kinds, Contents
  <2>2. Plain(Write(1, "feedback", measured[1]))
    BY <1>4, <1>5 DEF Kinds, Batches
  <2>3. CASE batch = 1
    <3>1. Pending' = {Write(1, "calibration", "data"), Write(1, "feedback", measured[1])}
      BY <1>11, <2>3, ElementsOf DEF Calibrate, Pending
    <3> QED BY <1>1, <2>1, <2>2, <3>1
  <2>4. CASE batch # 1
    BY <1>1, <1>3, <1>11, <2>1, <2>4, ElementsOf DEF Calibrate
  <2> QED BY <2>3, <2>4
<1>12. CASE Compare \/ Classify
  <2>1. Plain(Write(0, "control_comparisons", "data")) /\ Plain(Write(0, "resource_usage", "data"))
    BY <1>4 DEF Kinds, Contents
  <2> QED BY <1>1, <1>3, <1>12, <2>1, ElementsOf DEF Compare, Classify
<1>13. CASE Handle
  BY <1>13, ElementsOf DEF Handle, Pending
<1> QED
  BY <1>6, <1>7, <1>8, <1>9, <1>10, <1>11, <1>12, <1>13 DEF Routine
-----------------------------------------------------------------------------
(* What a proposal, a fallback and a reached limit put on the list.        *)
LEMMA ProposalWrites ==
  /\ \A s, v : Propose(s, v) => Pending' = {Write(batch, "proposal", s), Write(batch, "validation", v)}
  /\ FallBack => Pending' = { Write(batch, "provider_error", "fallback"),
                             Write(batch, "proposal", "AFTER_ERROR"), Write(batch, "validation", "valid") }
  /\ Exhaust => Pending' = {Write(batch, "provider_error", "terminal")}
BY ElementsOf DEF Propose, FallBack, Exhaust, Pending

(* The steps that take a list of three kinds: a proposal, a fallback, a    *)
(* limit.                                                                  *)
Answered ==
  \/ ProposeOffline \/ PlannerLimit \/ PlannerRefuses \/ AnswerLost \/ AnswerUnaccountable
  \/ \E usage \in Usages, answer \in Answers : AnswerComes(usage, answer)

(* What an answer of the planner, or the lack of one, can do.              *)
LEMMA AnsweredStep ==
  ASSUME TypeOK, Answered
  PROVE  /\ pc \in {"propose", "asked"} /\ todo = << >> /\ error = "none"
         /\ UNCHANGED <<args, files, manifest, step, batch, outcome, calls, sent, worker, measured>>
         /\ \A b \in Batches : b # batch => given'[b] = given[b]
         /\ tokens' = tokens \/ ~(tokens' > MaxTokens) \/ Exhaust
         /\ \/ \E s \in {"LIVE", "FALLBACK", "SAVED"}, v \in {"valid", "invalid"} :
                 Propose(s, v) /\ (s = "LIVE" => given'[batch] = v /\ pc = "asked")
            \/ FallBack
            \/ Exhaust
            \/ Raise("invalid") /\ UNCHANGED source
<1>1. batch \in Batches /\ given \in [Batches -> Answers]
  BY DEF TypeOK
<1> QED
  BY <1>1 DEF Answered, ProposeOffline, PlannerLimit, PlannerRefuses, AnswerLost, AnswerUnaccountable,
         AnswerComes, At, Propose, FallBack, Exhaust, Raise, bundle, planner

(* Every step of the agent is of one of these kinds.                       *)
LEMMA StepKinds ==
  [Next]_vars => Store \/ Routine \/ Answered \/ Decide \/ Worker \/ Crash \/ UNCHANGED vars
BY DEF Next, Controller, Plan, Store, Measure, Conclude, Worker, Routine, Answered

(* A write refused at "decide" is that of failure.json, one refused at     *)
(* "return" that of decision.json; any other raises where it is.           *)
LEMMA Refused ==
  ASSUME AgentInv, RefuseWrite
  PROVE  /\ pc \notin Ended /\ Pending' = {}
         /\ error' = IF pc \in {"decide", "return"} THEN "none" ELSE "size"
         /\ pc' = IF pc = "return" THEN "raised" ELSE pc
         /\ pc \in {"decide", "return"} => error = "none"
<1>1. pc \notin Ended /\ todo # << >> /\ Pending' = {}
  BY ElementsOf DEF RefuseWrite, Writing, Pending
<1>2. Head(todo) \in Pending
  BY <1>1, ElementsOfTail DEF Pending, AgentInv, TypeOK
<1>3. /\ Head(todo).name = Failure <=> pc = "decide"
      /\ Head(todo).name = Decision <=> pc = "return"
  BY <1>1, <1>2 DEF AgentInv, WritesAgree, Failure, Decision
<1> QED
  BY <1>1, <1>3 DEF RefuseWrite, Closers, AgentInv, WorkerAwaited

(* Every step preserves WritesAgree.                                       *)
LEMMA WritesAgreeStep == ASSUME AgentInv, [Next]_vars PROVE WritesAgree'
<1> USE DEF bundle, planner, proposals
<1>1. CASE WriteTemporary \/ ReplaceFile \/ TruncateManifest
  BY <1>1 DEF WriteTemporary, ReplaceFile, TruncateManifest, AgentInv, WritesAgree, Pending
<1>2. CASE WriteManifest
  <2>1. Pending' \subseteq Pending
    BY <1>2, ElementsOfTail DEF WriteManifest, Writing, Pending, AgentInv, TypeOK
  <2> QED BY <1>2, <2>1 DEF WriteManifest, AgentInv, WritesAgree
<1>3. CASE RefuseWrite
  BY <1>3, Refused DEF WritesAgree
<1>4. CASE Routine
  <2>1. \A w \in Pending' : Plain(w) \/ (Handle /\ w = Write(0, "failure", "data"))
    BY <1>4, RoutineStep DEF AgentInv
  <2>2. CASE Handle
    <3>1. pc' = "decide" /\ Pending' = {Write(0, "failure", "data")}
      BY <2>2, ElementsOf DEF Handle, Pending
    <3> QED
      BY <3>1 DEF WritesAgree, Write, Failure, Decision, Temporary, Unfinished, Proposal, Batches, Ended
  <2>3. CASE ~Handle
    <3>1. pc' \notin {"decide", "return"}
      BY <1>4, <2>3 DEF Routine, ChoosePlanner, SendRequest, Select, Gate, Replay, LaunchWorker,
         AwaitFailure, Collect, Calibrate, Compare, Classify, Return, At, Goto, Raise
    <3> QED
      BY <2>1, <2>3, <3>1 DEF Plain, WritesAgree
  <2> QED BY <2>2, <2>3
<1>5. CASE Answered
  <2>0. batch \in Batches /\ source \in [Batches -> Sources] /\ pc' \notin {"decide", "return"}
    BY <1>5, AnsweredStep DEF AgentInv, TypeOK, Propose, FallBack, Exhaust, Raise
  <2>1. ASSUME NEW s \in {"LIVE", "FALLBACK", "SAVED"}, NEW v \in {"valid", "invalid"}, Propose(s, v)
        PROVE  WritesAgree'
    <3>1. Pending' = {Write(batch, "proposal", s), Write(batch, "validation", v)}
      BY <2>1, ProposalWrites
    <3>2. source'[batch] = s
      BY <2>0, <2>1 DEF Propose
    <3> QED
      BY <2>0, <3>1, <3>2 DEF Write, WritesAgree, Temporary, Failure, Decision, Unfinished, Proposal
  <2>2. CASE FallBack
    BY <2>0, <2>2, ProposalWrites
    DEF FallBack, Write, WritesAgree, Temporary, Failure, Decision, Unfinished, Proposal
  <2>3. CASE Exhaust
    BY <2>0, <2>3, ProposalWrites
    DEF Exhaust, Write, WritesAgree, Temporary, Failure, Decision, Unfinished, Proposal
  <2>4. CASE Raise("invalid")
    BY <1>5, <2>4, AnsweredStep, ElementsOf DEF AgentInv, Raise, WritesAgree, Pending
  <2> QED BY <1>5, <2>1, <2>2, <2>3, <2>4, AnsweredStep DEF AgentInv
<1>6. CASE Decide
  <2>1. Pending' = {Write(0, "decision", outcome.class)}
    BY <1>6, ElementsOf DEF Decide, Goto, Pending
  <2> QED BY <1>6, <2>1 DEF Decide, Goto, WritesAgree, Write, Temporary, Failure, Decision, Unfinished,
                           Proposal, Batches, AgentInv, TypeOK
<1>7. CASE Worker
  BY <1>7 DEF Worker, WorkerWrites, WorkerFinishes, WorkerFails, AgentInv, WritesAgree, Pending
<1>8. CASE Crash
  BY <1>8 DEF Crash, Ended, AgentInv, WritesAgree, Pending
<1>9. CASE UNCHANGED vars
  BY <1>9 DEF vars, AgentInv, WritesAgree, Pending
<1> QED
  BY <1>1, <1>2, <1>3, <1>4, <1>5, <1>6, <1>7, <1>8, <1>9, StepKinds DEF Store

(* Every step preserves WriteUnderWay.                                     *)
LEMMA WriteUnderWayStep == ASSUME AgentInv, [Next]_vars PROVE WriteUnderWay'
<1> USE DEF bundle, planner, proposals
<1>1. CASE WriteTemporary \/ RefuseWrite
  BY <1>1 DEF WriteTemporary, RefuseWrite, Writing, WriteUnderWay
<1>2. CASE ReplaceFile
  BY <1>2 DEF ReplaceFile, Writing, WriteUnderWay, Holds, Put
<1>3. CASE TruncateManifest
  BY <1>3 DEF TruncateManifest, Writing, WriteUnderWay, Holds, AgentInv
<1>4. CASE WriteManifest
  BY <1>4 DEF WriteManifest, WriteUnderWay
<1>5. CASE Routine
  BY <1>5, RoutineStep DEF AgentInv, WriteUnderWay
<1>6. CASE Answered
  BY <1>6, AnsweredStep DEF AgentInv, WriteUnderWay
<1>7. CASE Decide
  BY <1>7 DEF Decide, At, AgentInv, WriteUnderWay
<1>8. CASE Worker
  <2>1. worker # "none" /\ todo' = todo /\ step' = step
    BY <1>8 DEF Worker, WorkerWrites, WorkerFinishes, WorkerFails
  <2> QED BY <2>1 DEF AgentInv, WorkerAwaited, WriteUnderWay
<1>9. CASE Crash \/ UNCHANGED vars
  BY <1>9 DEF Crash, vars, AgentInv, WriteUnderWay, Holds
<1> QED
  BY <1>1, <1>2, <1>3, <1>4, <1>5, <1>6, <1>7, <1>8, <1>9, StepKinds DEF Store
-----------------------------------------------------------------------------
(* A file other than a temporary one or a worker's stays as it is unless   *)
(* it is the one being replaced.                                           *)
Lasting(n) == n # Temporary /\ \A b \in Batches : n # Unfinished(b)
Stays(n) == /\ n \in DOMAIN files <=> n \in DOMAIN files'
            /\ n \in DOMAIN files => files'[n] = files[n]

(* A file that is neither temporary nor of a worker changes only by the    *)
(* replacement of the write at the head of the list.                       *)
LEMMA FilesChange ==
  ASSUME AgentInv, [Next]_vars, NEW n, Lasting(n)
  PROVE  \/ Stays(n)
         \/ /\ ReplaceFile /\ n = Head(todo).name /\ Head(todo) \in Pending
            /\ n \in DOMAIN files' /\ files'[n] = Head(todo).content
<1> USE DEF bundle, planner, proposals
<1>1. CASE WriteTemporary
  BY <1>1 DEF WriteTemporary, Put, Stays, Lasting
<1>2. CASE ReplaceFile
  <2>1. Head(todo) \in Pending
    BY <1>2, ElementsOfTail DEF ReplaceFile, Writing, Pending, AgentInv, TypeOK
  <2> QED BY <1>2, <2>1 DEF ReplaceFile, Put, Without, Restrict, Stays, Lasting
<1>3. CASE TruncateManifest \/ WriteManifest \/ RefuseWrite \/ Decide \/ Crash \/ UNCHANGED vars
  BY <1>3 DEF TruncateManifest, WriteManifest, RefuseWrite, Decide, Crash, vars, Stays
<1>4. CASE Collect
  BY <1>4 DEF Collect, Without, Restrict, Stays, Lasting, AgentInv, TypeOK
<1>5. CASE Routine /\ ~Collect
  BY <1>5 DEF Routine, ChoosePlanner, SendRequest, Select, Gate, Replay, LaunchWorker,
              AwaitFailure, Calibrate, Compare, Classify, Handle, Return, Stays
<1>6. CASE Answered
  BY <1>6, AnsweredStep DEF AgentInv, Stays
<1>7. CASE Worker
  BY <1>7 DEF Worker, WorkerWrites, WorkerFinishes, WorkerFails, Put, Stays, Lasting, AgentInv, TypeOK
<1> QED
  BY <1>1, <1>2, <1>3, <1>4, <1>5, <1>6, <1>7, StepKinds DEF Store

(* Decision, feedback and proposals are such files.                        *)
LEMMA NamesLast == Lasting(Decision) /\ Lasting(Feedback) /\ \A b \in Batches : Lasting(Proposal(b))
BY DEF Lasting, Decision, Feedback, Proposal, Temporary, Unfinished, Batches

(* A live proposal in the bundle stays there as long as its source is live,*)
(* and the feedback stays.                                                 *)
LEMMA LiveProposalStays ==
  ASSUME AgentInv, [Next]_vars, NEW b \in Batches, Holds(Proposal(b), "LIVE"), source[b] = "LIVE"
  PROVE  Holds(Proposal(b), "LIVE")'
<1>1. Proposal(b)' = Proposal(b)
  BY DEF Proposal
<1>2. CASE Stays(Proposal(b))
  BY <1>1, <1>2 DEF Stays, Holds
<1>3. CASE /\ Proposal(b) = Head(todo).name /\ Head(todo) \in Pending
           /\ Proposal(b) \in DOMAIN files' /\ files'[Proposal(b)] = Head(todo).content
  BY <1>1, <1>3 DEF AgentInv, WritesAgree, Holds
<1> QED
  BY <1>2, <1>3, NamesLast, FilesChange

(* The feedback stays in the bundle.                                       *)
LEMMA FeedbackStays ==
  ASSUME AgentInv, [Next]_vars, Feedback \in DOMAIN files PROVE Feedback \in DOMAIN files'
BY NamesLast, FilesChange DEF Stays

(* Every step preserves ProposalsKept.                                     *)
LEMMA ProposalsKeptStep == ASSUME AgentInv, [Next]_vars PROVE ProposalsKept'
<1> USE DEF bundle, planner, proposals
<1> SUFFICES ASSUME pc' \notin Closing, error' = "none" PROVE ProposalsKept'
  BY DEF ProposalsKept
<1>1. ASSUME pc \notin Closing, error = "none", UNCHANGED <<source, given, batch>>,
             \A w \in Pending : w \in Pending' \/ Holds(w.name, w.content)
      PROVE  ProposalsKept'
  <2>1. ASSUME NEW b \in Batches, source[b] = "LIVE"
        PROVE  Holds(Proposal(b), "LIVE")' \/ \E w \in Pending' : w.name = Proposal(b)
    BY <1>1, <2>1, LiveProposalStays DEF AgentInv, ProposalsKept, WritesAgree
  <2>2. batch = 2 => Feedback \in DOMAIN files' \/ \E w \in Pending' : w.name = Feedback
    BY <1>1, FeedbackStays DEF AgentInv, ProposalsKept, Promised, Holds
  <2> QED BY <1>1, <2>1, <2>2 DEF AgentInv, ProposalsKept, Promised, Proposal, Feedback
<1>2. CASE WriteTemporary \/ ReplaceFile \/ TruncateManifest \/ Worker \/ UNCHANGED vars
  BY <1>1, <1>2 DEF WriteTemporary, ReplaceFile, TruncateManifest, Worker, WorkerWrites,
                    WorkerFinishes, WorkerFails, vars, Pending
<1>3. CASE WriteManifest
  <2>1. Elements(todo) = {Head(todo)} \cup Elements(todo')
    BY <1>3, ElementsOfTail DEF WriteManifest, Writing, AgentInv, TypeOK
  <2>2. Holds(Head(todo).name, Head(todo).content)
    BY <1>3 DEF WriteManifest, Writing, AgentInv, WriteUnderWay
  <2> QED BY <1>1, <1>3, <2>1, <2>2 DEF WriteManifest, Pending
<1>4. CASE RefuseWrite \/ Decide \/ Crash \/ Classify \/ Handle \/ Return
  BY <1>4, Refused DEF Decide, Crash, Classify, Handle, Return, Goto, Closing, Ended
<1>5. CASE Routine /\ batch' = batch /\ ~(Classify \/ Handle \/ Return)
  <2>1. Pending = {}
    BY <1>5, RoutineStep, ElementsOf DEF AgentInv, Pending
  <2>2. pc \notin Closing /\ error = "none"
    BY <1>5 DEF Routine, ChoosePlanner, SendRequest, Select, Gate, Replay, LaunchWorker,
                AwaitFailure, Collect, Calibrate, Compare, At, Closing, Ended
  <2> QED BY <1>1, <1>5, <2>1, <2>2, RoutineStep DEF AgentInv
<1>6. CASE Calibrate /\ batch' # batch
  <2>1. /\ Pending = {} /\ UNCHANGED proposals
        /\ Pending' = {Write(1, "calibration", "data"), Write(1, "feedback", measured[1])}
        /\ pc \notin Closing /\ error = "none"
    BY <1>6, ElementsOf DEF Calibrate, Goto, At, Pending, Closing, Ended
  <2>2. \E w \in Pending' : w.name = Feedback
    BY <2>1 DEF Write, Feedback
  <2>3. ASSUME NEW b \in Batches, source[b] = "LIVE"
        PROVE  given[b] = "valid" /\ Holds(Proposal(b), "LIVE")'
    BY <2>1, <2>3, LiveProposalStays DEF AgentInv, ProposalsKept
  <2> QED BY <2>1, <2>2, <2>3 DEF ProposalsKept, Promised, Proposal, Feedback
<1>7. CASE Answered
  <2>0. /\ batch \in Batches /\ source \in [Batches -> Sources] /\ batch' = batch
        /\ pc \notin Closing /\ error = "none" /\ Pending = {}
    BY <1>7, AnsweredStep, ElementsOf DEF AgentInv, TypeOK, Closing, Ended, Pending
  <2>1. batch' = 2 => Feedback \in DOMAIN files'
    BY <2>0, FeedbackStays DEF AgentInv, ProposalsKept, Promised
  <2>2. ASSUME NEW b \in Batches, b # batch, source[b] = "LIVE"
        PROVE  given'[b] = "valid" /\ Holds(Proposal(b), "LIVE")'
    BY <1>7, <2>0, <2>2, AnsweredStep, LiveProposalStays DEF AgentInv, ProposalsKept
  <2>3. ASSUME NEW s \in {"LIVE", "FALLBACK", "SAVED"}, NEW v \in {"valid", "invalid"}, Propose(s, v),
               s = "LIVE" => given'[batch] = v
        PROVE  ProposalsKept'
    <3>1. \E w \in Pending' : w.name = Proposal(batch)
      <4>1. Pending' = {Write(batch, "proposal", s), Write(batch, "validation", v)}
        BY <2>3, ProposalWrites
      <4> QED BY <4>1 DEF Write, Proposal
    <3>2. source'[batch] = s /\ (\A b \in Batches : b # batch => source'[b] = source[b]) /\ v = "valid"
      BY <2>0, <2>3 DEF Propose
    <3> QED BY <2>0, <2>1, <2>2, <2>3, <3>1, <3>2 DEF ProposalsKept, Promised, Proposal, Feedback
  <2>4. CASE FallBack
    <3>1. source'[batch] = "AFTER_ERROR" /\ \A b \in Batches : b # batch => source'[b] = source[b]
      BY <2>0, <2>4 DEF FallBack
    <3> QED BY <2>0, <2>1, <2>2, <3>1 DEF ProposalsKept, Promised, Proposal, Feedback
  <2>5. CASE Exhaust \/ Raise("invalid")
    BY <2>5 DEF Exhaust, Raise
  <2> QED BY <1>7, <2>3, <2>4, <2>5, AnsweredStep DEF AgentInv
<1>8. Routine /\ batch' # batch => Calibrate \/ Classify \/ Handle \/ Return
  BY DEF Routine, ChoosePlanner, SendRequest, Select, Gate, Replay, LaunchWorker, AwaitFailure,
         Collect, Compare, Goto, Raise
<1> QED
  BY <1>2, <1>3, <1>4, <1>5, <1>6, <1>7, <1>8, StepKinds DEF Store

(* Every step preserves RequestsCounted.                                   *)
LEMMA RequestsCountedStep == ASSUME AgentInv, [Next]_vars PROVE RequestsCounted'
<1> USE DEF bundle, planner, proposals
<1>1. CASE SendRequest
  <2>1. /\ batch \in Batches /\ calls \in 0 .. 2 /\ batch = 1 + calls /\ calls' = calls + 1
        /\ sent' = Append(sent, batch) /\ UNCHANGED <<batch, source>> /\ error = "none" /\ Pending = {}
        /\ pc = "propose"
    BY <1>1, ElementsOf DEF SendRequest, InOrder, At, AgentInv, TypeOK, RequestsCounted, Pending
  <2>2. batch = 2 => Feedback \in DOMAIN files'
    <3>1. batch = 2 => Feedback \in DOMAIN files
      BY <2>1 DEF AgentInv, ProposalsKept, Promised, Closing, Ended
    <3> QED BY <3>1, FeedbackStays
  <2>3. calls = 0 \/ calls = 1
    BY <2>1 DEF Batches
  <2>4. CASE calls = 0
    BY <2>1, <2>2, <2>4 DEF AgentInv, RequestsCounted
  <2>5. CASE calls = 1
    <3>1. sent = <<1>> /\ batch = 2
      BY <2>1, <2>5 DEF AgentInv, RequestsCounted
    <3>2. sent' = <<1, 2>> /\ calls' = 2
      <4>1. <<1>> \in Seq(Nat) /\ <<1, 2>> \in Seq(Nat) /\ Len(<<1>>) = 1 /\ <<1>>[1] = 1
        OBVIOUS
      <4>2. Len(<<1, 2>>) = 2 /\ <<1, 2>>[1] = 1 /\ <<1, 2>>[2] = 2
        OBVIOUS
      <4>3. LET s == Append(<<1>>, 2)
            IN  s \in Seq(Nat) /\ Len(s) = 2 /\ s[1] = 1 /\ s[2] = 2
        BY <4>1, AppendProperties
      <4>4. Append(<<1>>, 2) = <<1, 2>>
        <5>1. \A i \in 1 .. 2 : Append(<<1>>, 2)[i] = <<1, 2>>[i]
          <6>1. 1 .. 2 = {1, 2}
            OBVIOUS
          <6> QED BY <4>2, <4>3, <6>1
        <5> QED BY <4>1, <4>2, <4>3, <5>1, SeqEqual
      <4> QED BY <2>1, <2>5, <3>1, <4>4
    <3> QED BY <2>1, <2>2, <3>1, <3>2 DEF AgentInv, RequestsCounted, Feedback
  <2> QED BY <2>3, <2>4, <2>5
<1>2. CASE UNCHANGED <<calls, sent, source>> /\ (pc' = "asked" => pc = "asked" /\ batch' = batch)
  BY <1>2, FeedbackStays DEF AgentInv, RequestsCounted, Feedback
<1>3. CASE Store \/ Worker \/ Decide \/ Crash \/ UNCHANGED vars
  BY <1>2, <1>3 DEF Store, WriteTemporary, ReplaceFile, TruncateManifest, WriteManifest, RefuseWrite,
                    Worker, WorkerWrites, WorkerFinishes, WorkerFails, Decide, Goto, Crash, vars
<1>4. CASE Routine /\ ~SendRequest
  BY <1>2, <1>4 DEF Routine, ChoosePlanner, Select, Gate, Replay, LaunchWorker, AwaitFailure,
                    Collect, Calibrate, Compare, Classify, Handle, Return, Goto, Raise
<1>5. CASE Answered
  <2>0. /\ batch \in Batches /\ source \in [Batches -> Sources]
        /\ UNCHANGED <<calls, sent, batch>>
    BY <1>5, AnsweredStep DEF AgentInv, TypeOK
  <2>1. ASSUME NEW s \in {"LIVE", "FALLBACK", "SAVED"}, NEW v \in {"valid", "invalid"}, Propose(s, v),
               s = "LIVE" => pc = "asked"
        PROVE  RequestsCounted'
    <3>1. pc' # "asked" /\ (source'[2] = "LIVE" => source[2] = "LIVE" \/ (batch = 2 /\ s = "LIVE"))
      BY <2>0, <2>1 DEF Propose, Batches
    <3> QED BY <2>0, <2>1, <3>1, FeedbackStays DEF AgentInv, RequestsCounted, Feedback
  <2>2. CASE FallBack
    <3>1. pc' # "asked" /\ (source'[2] = "LIVE" => source[2] = "LIVE")
      BY <2>0, <2>2 DEF FallBack, Batches
    <3> QED BY <2>0, <3>1, FeedbackStays DEF AgentInv, RequestsCounted, Feedback
  <2>3. CASE Exhaust \/ (Raise("invalid") /\ UNCHANGED source)
    BY <1>2, <2>0, <2>3 DEF Exhaust, Raise
  <2>4. \/ \E s \in {"LIVE", "FALLBACK", "SAVED"}, v \in {"valid", "invalid"} :
             Propose(s, v) /\ (s = "LIVE" => pc = "asked")
        \/ FallBack \/ Exhaust \/ (Raise("invalid") /\ UNCHANGED source)
    <3>1. TypeOK
      BY DEF AgentInv
    <3> QED BY <1>5, <3>1, AnsweredStep
  <2> QED BY <2>1, <2>2, <2>3, <2>4
<1> QED
  BY <1>1, <1>3, <1>4, <1>5, StepKinds

(* Every step preserves WorkerAwaited.                                     *)
LEMMA WorkerAwaitedStep == ASSUME AgentInv, [Next]_vars PROVE WorkerAwaited'
<1> USE DEF bundle, planner, proposals
<1>1. CASE Store
  <2>1. worker = "none" /\ worker' = worker
    BY <1>1 DEF Store, WriteTemporary, ReplaceFile, TruncateManifest, WriteManifest, RefuseWrite, Writing,
                AgentInv, WorkerAwaited
  <2>2. CASE RefuseWrite
    BY <2>1, <2>2, Refused DEF WorkerAwaited
  <2>3. CASE ~RefuseWrite
    BY <1>1, <2>1, <2>3 DEF Store, WriteTemporary, ReplaceFile, TruncateManifest, WriteManifest,
       AgentInv, WorkerAwaited
  <2> QED BY <2>2, <2>3
<1>2. CASE Routine
  BY <1>2 DEF Routine, ChoosePlanner, SendRequest, Select, Gate, Replay, LaunchWorker, AwaitFailure,
              Collect, Calibrate, Compare, Classify, Handle, Return, Goto, Raise, At, AgentInv, WorkerAwaited
<1>3. CASE Answered
  <2>1. worker' = "none" /\ pc \in {"propose", "asked"}
    BY <1>3, AnsweredStep DEF AgentInv, WorkerAwaited
  <2>2. pc' \notin {"decide", "return"}
    BY <1>3, <2>1, AnsweredStep DEF AgentInv, Propose, FallBack, Exhaust, Raise
  <2> QED BY <2>1, <2>2 DEF WorkerAwaited
<1>4. CASE Decide \/ Worker \/ Crash \/ UNCHANGED vars
  BY <1>4 DEF Decide, Goto, At, Worker, WorkerWrites, WorkerFinishes, WorkerFails, Crash, vars, AgentInv,
              WorkerAwaited
<1> QED
  BY <1>1, <1>2, <1>3, <1>4, StepKinds

(* Every step preserves AIsEarned.                                         *)
LEMMA AIsEarnedStep == ASSUME AgentInv, [Next]_vars PROVE AIsEarned'
<1> USE DEF bundle, planner, proposals
<1>1. ASSUME outcome' = outcome, worker = "none" => worker' = "none", pc \in Closing => pc' \in Closing,
             outcome.class = "A" => UNCHANGED <<source, given, measured>>
      PROVE  /\ outcome'.class = "A" =>
                  /\ pc' \in Closing /\ worker' = "none"
                  /\ \A b \in Batches : source'[b] = "LIVE" /\ given'[b] = "valid"
                                        /\ measured'[b] = "complete" /\ Holds(Proposal(b), "LIVE")'
  BY <1>1, LiveProposalStays DEF AgentInv, AIsEarned
<1>2. ASSUME outcome' = outcome, pc \in {"return"} \cup Ended => pc' \in {"return"} \cup Ended,
             Holds(Decision, "A")'
      PROVE  outcome'.class = "A" /\ pc' \in {"return"} \cup Ended
  <2>1. CASE Stays(Decision)
    BY <1>2, <2>1 DEF Stays, Holds, Decision, AgentInv, AIsEarned
  <2>2. CASE Head(todo).name = Decision /\ Head(todo) \in Pending /\ files'[Decision] = Head(todo).content
    BY <1>2, <2>2 DEF Holds, Decision, AgentInv, WritesAgree
  <2> QED BY <2>1, <2>2, NamesLast, FilesChange
<1>3. Closing' = Closing /\ Decision' = Decision /\ \A b : Proposal(b)' = Proposal(b)
  BY DEF Closing, Decision, Proposal
<1>4. CASE Store \/ Decide \/ Crash \/ Return \/ UNCHANGED vars
  <2>1. /\ UNCHANGED <<outcome, source, given, measured>> /\ worker' = worker
        /\ pc \in Closing => pc' \in Closing
        /\ pc \in {"return"} \cup Ended => pc' \in {"return"} \cup Ended
    BY <1>4 DEF Store, WriteTemporary, ReplaceFile, TruncateManifest, WriteManifest, RefuseWrite,
                Decide, At, Goto, Crash, Return, vars, Closing, Ended
  <2> QED BY <1>1, <1>2, <1>3, <2>1 DEF AIsEarned, Ended
<1>5. CASE Worker
  <2>1. /\ UNCHANGED <<outcome, source, given, pc>> /\ worker # "none"
    BY <1>5 DEF Worker, WorkerWrites, WorkerFinishes, WorkerFails
  <2>2. outcome.class # "A"
    BY <2>1 DEF AgentInv, AIsEarned
  <2> QED BY <1>2, <1>3, <2>1, <2>2 DEF AIsEarned, Ended
<1>6. pc \notin {"return"} \cup Ended => ~Holds(Decision, "A")
  BY DEF AgentInv, AIsEarned
<1>7. ASSUME pc \notin {"return"} \cup Ended, ~ReplaceFile PROVE ~Holds(Decision, "A")'
  BY <1>3, <1>6, <1>7, NamesLast, FilesChange DEF Stays, Holds
<1>8. CASE Handle
  <2>1. pc \notin {"return"} \cup Ended
    BY <1>8 DEF Handle, AgentInv, WorkerAwaited
  <2>2. ~Holds(Decision, "A")' /\ outcome'.class = "D"
    BY <1>7, <1>8, <2>1 DEF Handle, ReplaceFile, Writing
  <2> QED BY <1>3, <2>2 DEF AIsEarned
<1>9. CASE Classify
  <2>1. /\ pc = "classify" /\ pc' = "record" /\ error = "none" /\ Pending = {}
        /\ UNCHANGED <<source, given, measured, worker>>
    BY <1>9, ElementsOf DEF Classify, At, Goto, Pending
  <2>2. pc \notin Closing /\ worker = "none"
    BY <2>1 DEF Closing, Ended, AgentInv, WorkerAwaited
  <2>3. ~Holds(Decision, "A")'
    BY <1>7, <1>9, <2>1 DEF Ended, Classify, At, ReplaceFile, Writing
  <2>4. CASE Complete /\ AllLive
    <3>1. \A b \in Batches : source[b] = "LIVE" /\ measured[b] = "complete"
      BY <2>4 DEF Complete, AllLive
    <3>2. \A b \in Batches : given[b] = "valid" /\ Holds(Proposal(b), "LIVE")
      BY <2>1, <2>2, <3>1 DEF AgentInv, ProposalsKept
    <3> QED BY <2>1, <2>2, <2>3, <3>1, <3>2, <1>3, LiveProposalStays DEF AIsEarned, Closing
  <2>5. CASE ~(Complete /\ AllLive)
    BY <1>3, <1>9, <2>3, <2>5 DEF AIsEarned, Classify
  <2> QED BY <2>4, <2>5
<1>10. CASE Routine /\ ~(Handle \/ Classify \/ Return)
  <2>1. outcome' = outcome /\ pc \notin Closing /\ todo = << >>
    BY <1>10 DEF Routine, ChoosePlanner, SendRequest, Select, Gate, Replay, LaunchWorker, AwaitFailure,
                 Collect, Calibrate, Compare, At, Closing, Ended
  <2>2. ~Holds(Decision, "A")'
    BY <1>7, <2>1 DEF Closing, ReplaceFile, Writing
  <2> QED BY <1>3, <2>1, <2>2 DEF AgentInv, AIsEarned
<1>11. CASE Answered
  <2>1. outcome' = outcome /\ pc \notin Closing /\ todo = << >>
    BY <1>11, AnsweredStep DEF AgentInv, Closing, Ended
  <2>2. ~Holds(Decision, "A")'
    BY <1>7, <2>1 DEF Closing, ReplaceFile, Writing
  <2> QED BY <1>3, <2>1, <2>2 DEF AgentInv, AIsEarned
<1> QED
  BY <1>4, <1>5, <1>8, <1>9, <1>10, <1>11, StepKinds

(* Other steps keep the list, or take its first element, which is written. *)
LEMMA ListSteps ==
  ASSUME AgentInv, [Next]_vars
  PROVE  \/ (Routine \/ Answered \/ Decide) /\ Pending = {}
         \/ RefuseWrite /\ Pending' = {}
         \/ WriteManifest /\ files' = files /\ Holds(Head(todo).name, Head(todo).content)
                          /\ Pending = {Head(todo)} \cup Pending'
         \/ Pending' = Pending /\ todo' = todo /\ (Store \/ Worker \/ Crash \/ UNCHANGED vars)
<1> USE DEF bundle, planner, proposals
<1>1. CASE Routine \/ Answered \/ Decide
  BY <1>1, RoutineStep, AnsweredStep, ElementsOf DEF AgentInv, Decide, At, Pending
<1>2. CASE RefuseWrite
  BY <1>2, ElementsOf DEF RefuseWrite, Pending
<1>3. CASE WriteManifest
  <2>1. Elements(todo) = {Head(todo)} \cup Elements(todo')
    BY <1>3, ElementsOfTail DEF WriteManifest, Writing, AgentInv, TypeOK
  <2> QED BY <1>3, <2>1 DEF WriteManifest, Writing, AgentInv, WriteUnderWay, Pending
<1>4. CASE WriteTemporary \/ ReplaceFile \/ TruncateManifest \/ Worker \/ Crash \/ UNCHANGED vars
  BY <1>4 DEF WriteTemporary, ReplaceFile, TruncateManifest, Worker, WorkerWrites, WorkerFinishes,
              WorkerFails, Crash, vars, Store, Pending
<1> QED BY <1>1, <1>2, <1>3, <1>4, StepKinds DEF Store

(* A file that is there or on the list stays so, unless a write is         *)
(* refused.                                                                *)
LEMMA StillPromised ==
  ASSUME AgentInv, [Next]_vars, ~RefuseWrite, NEW n, Lasting(n), Promised(n)
  PROVE  Promised(n)' /\ (Pending = {} => n \in DOMAIN files')
<1>1. ASSUME n \in DOMAIN files PROVE n \in DOMAIN files'
  BY <1>1, FilesChange DEF Stays
<1>2. ASSUME NEW w \in Pending, w.name = n PROVE Promised(n)'
  <2>1. CASE w \in Pending'
    BY <1>2, <2>1 DEF Promised
  <2>2. CASE files' = files /\ w = Head(todo) /\ Holds(Head(todo).name, Head(todo).content)
    BY <1>2, <2>2 DEF Holds, Promised
  <2> QED BY <1>2, <2>1, <2>2, ListSteps
<1> QED BY <1>1, <1>2 DEF Promised

(* The last two files of a run stay once they are there, and are written    *)
(* before the controller leaves the place that puts them on the list.       *)
LEMMA LastKeptStep == ASSUME AgentInv, [Next]_vars PROVE LastKept'
<1> USE DEF bundle, planner, proposals
<1>1. LastKept /\ Comparisons' = Comparisons /\ Usage' = Usage
  BY DEF AgentInv, Comparisons, Usage
<1>2. Lasting(Comparisons) /\ Lasting(Usage)
  BY DEF Lasting, Comparisons, Usage, Temporary, Unfinished
<1>3. \A n \in {Comparisons, Usage} : n \in DOMAIN files => n \in DOMAIN files'
  BY <1>2, FilesChange DEF Stays
<1>4. \/ Compare \/ Classify \/ Handle \/ Decide \/ RefuseWrite
      \/ /\ outcome' = outcome /\ (error' = "none" => error = "none")
         /\ pc' = pc \/ pc' \notin {"classify", "record", "decide", "return", "raised"}
         /\ pc' = "returned" => pc \in {"return", "returned"}
  <2>1. CASE Store \/ Worker \/ Crash \/ UNCHANGED vars
    BY <2>1 DEF Store, WriteTemporary, ReplaceFile, TruncateManifest, WriteManifest, Worker, WorkerWrites,
       WorkerFinishes, WorkerFails, Crash, vars
  <2>2. CASE Routine
    BY <2>2 DEF Routine, ChoosePlanner, SendRequest, Select, Gate, Replay, LaunchWorker, AwaitFailure,
       Collect, Calibrate, Return, At, Goto, Raise
  <2>3. CASE Answered
    BY <2>3, AnsweredStep DEF AgentInv, Propose, FallBack, Exhaust, Raise
  <2> QED
    BY <2>1, <2>2, <2>3, StepKinds
<1>5. pc' = "classify" /\ error' = "none" => Promised(Comparisons)'
  <2> SUFFICES ASSUME pc' = "classify", error' = "none" PROVE Promised(Comparisons)'
    OBVIOUS
  <2>1. CASE Compare
    <3>1. Write(0, "control_comparisons", "data") \in Pending'
      BY <2>1, ElementsOf DEF Compare, Goto, Pending
    <3> QED
      BY <1>1, <3>1 DEF Promised, Write, Comparisons
  <2>2. CASE ~Compare
    <3>1. pc = "classify" /\ error = "none" /\ ~RefuseWrite
      BY <1>4, <2>2, Refused DEF Classify, Handle, Decide, Goto, Ended
    <3> QED
      BY <1>1, <1>2, <3>1, StillPromised DEF LastKept
  <2> QED
    BY <2>1, <2>2
<1>6. pc' = "record" /\ error' = "none" => Promised(Usage)' /\ Comparisons \in DOMAIN files'
  <2> SUFFICES ASSUME pc' = "record", error' = "none"
               PROVE  Promised(Usage)' /\ Comparisons \in DOMAIN files'
    OBVIOUS
  <2>1. CASE Classify
    <3>1. /\ Write(0, "resource_usage", "data") \in Pending' /\ files' = files
          /\ pc = "classify" /\ error = "none" /\ Pending = {}
      BY <2>1, ElementsOf DEF Classify, Goto, At, Pending
    <3>2. Promised(Comparisons)
      BY <1>1, <3>1 DEF LastKept
    <3> QED
      BY <1>1, <3>1, <3>2 DEF Promised, Write, Usage
  <2>2. CASE ~Classify
    <3>1. pc = "record" /\ error = "none" /\ ~RefuseWrite
      BY <1>4, <2>2, Refused DEF Compare, Handle, Decide, Goto, Ended
    <3> QED
      BY <1>1, <1>2, <1>3, <3>1, StillPromised DEF LastKept
  <2> QED
    BY <2>1, <2>2
<1>7. pc' = "decide" => outcome'.class = "D"
  <2>1. CASE Handle
    BY <2>1 DEF Handle
  <2>2. CASE ~Handle /\ pc' = "decide"
    <3>1. pc = "decide" /\ outcome' = outcome
      BY <1>4, <2>2, Refused DEF Compare, Classify, Decide, RefuseWrite, Goto
    <3> QED
      BY <1>1, <3>1 DEF LastKept
  <2> QED
    BY <2>1, <2>2
<1>8. pc' \in {"return", "returned", "raised"} /\ outcome'.class = "A" =>
        {Comparisons, Usage} \subseteq DOMAIN files'
  <2> SUFFICES ASSUME pc' \in {"return", "returned", "raised"}, outcome'.class = "A"
               PROVE  {Comparisons, Usage} \subseteq DOMAIN files'
    OBVIOUS
  <2>1. CASE Decide
    <3>1. pc \in {"record", "decide"} /\ error = "none" /\ outcome' = outcome /\ Pending = {} /\ files' = files
      BY <2>1, ElementsOf DEF Decide, At, Pending
    <3>2. pc = "record"
      BY <1>1, <3>1 DEF LastKept
    <3>3. Promised(Usage) /\ Comparisons \in DOMAIN files
      BY <1>1, <3>1, <3>2 DEF LastKept
    <3> QED
      BY <3>1, <3>3 DEF Promised
  <2>2. CASE ~Decide
    <3>1. pc \in {"return", "returned", "raised"} /\ outcome' = outcome
      BY <1>4, <2>2, Refused DEF Compare, Classify, Handle, RefuseWrite, Goto
    <3> QED
      BY <1>1, <1>3, <3>1 DEF LastKept
  <2> QED
    BY <2>1, <2>2
<1>9. Holds(Decision, "A")' => {Comparisons, Usage} \subseteq DOMAIN files'
  <2> SUFFICES ASSUME Holds(Decision, "A")' PROVE {Comparisons, Usage} \subseteq DOMAIN files'
    OBVIOUS
  <2>1. CASE Stays(Decision)
    <3>1. Holds(Decision, "A")
      BY <2>1 DEF Stays, Holds, Decision
    <3> QED
      BY <1>1, <1>3, <3>1 DEF LastKept
  <2>2. CASE ReplaceFile /\ Head(todo).name = Decision /\ Head(todo) \in Pending
             /\ files'[Decision] = Head(todo).content
    <3>1. pc = "return" /\ outcome.class = "A"
      BY <2>2 DEF ReplaceFile, Writing, AgentInv, WritesAgree, Holds, Decision
    <3> QED
      BY <1>1, <1>3, <3>1 DEF LastKept
  <2> QED
    BY <2>1, <2>2, NamesLast, FilesChange
<1> QED
  BY <1>1, <1>5, <1>6, <1>7, <1>8, <1>9 DEF LastKept

(* A planner limit is reached by a step that is on its way to end the run. *)
LEMMA LimitIsReached ==
  ASSUME AgentInv, [Next]_vars, ~LimitReached, LimitReached'
  PROVE  worker' = "none" /\ error' # "none"
<1> USE DEF bundle, planner, proposals
<1>1. ASSUME NEW b \in Batches PROVE Lasting(<<b, "provider_error">>)
  BY DEF Lasting, Temporary, Unfinished
<1>2. CASE ReplaceFile
  <2>1. PICK b \in Batches : Holds(<<b, "provider_error">>, "terminal")'
    BY <1>2 DEF ReplaceFile, LimitReached
  <2>2. ~Stays(<<b, "provider_error">>)
    BY <2>1 DEF LimitReached, Stays, Holds
  <2>3. Head(todo) \in Pending /\ Head(todo).content = "terminal"
    BY <1>1, <2>1, <2>2, FilesChange DEF Holds
  <2> QED BY <1>2, <2>3 DEF ReplaceFile, Writing, AgentInv, WritesAgree, WorkerAwaited
<1>3. CASE ~ReplaceFile
  <2>1. \A b \in Batches : Stays(<<b, "provider_error">>)
    BY <1>1, <1>3, FilesChange
  <2>2. tokens' # tokens /\ tokens' > MaxTokens
    BY <2>1 DEF LimitReached, Stays, Holds
  <2>3. Answered
    BY <2>2, StepKinds, RoutineStep DEF AgentInv, Store, WriteTemporary, ReplaceFile, TruncateManifest,
       WriteManifest, RefuseWrite, Decide, Worker, WorkerWrites, WorkerFinishes, WorkerFails, Crash, vars
  <2>4. Exhaust /\ worker' = worker /\ pc \in {"propose", "asked"}
    BY <2>2, <2>3, AnsweredStep DEF AgentInv
  <2> QED BY <2>4 DEF Exhaust, AgentInv, WorkerAwaited
<1> QED BY <1>2, <1>3

(* Every step preserves LimitCloses.                                       *)
LEMMA LimitClosesStep == ASSUME AgentInv, [Next]_vars PROVE LimitCloses'
<1> USE DEF bundle, planner, proposals
<1>1. CASE ~LimitReached
  BY <1>1, LimitIsReached DEF LimitCloses
<1>2. CASE LimitReached
  <2>1. worker = "none" /\ (error # "none" \/ pc \in Closing)
    BY <1>2 DEF AgentInv, LimitCloses
  <2>2. CASE Store \/ Crash \/ Decide \/ UNCHANGED vars
    BY <2>1, <2>2, Refused DEF Store, WriteTemporary, ReplaceFile, TruncateManifest, WriteManifest,
       RefuseWrite, Crash, Decide, Goto, vars, LimitCloses, Closing, Ended
  <2>3. CASE Routine
    BY <2>1, <2>3 DEF Routine, ChoosePlanner, SendRequest, Select, Gate, Replay, LaunchWorker, AwaitFailure,
                      Collect, Calibrate, Compare, Classify, Handle, Return, At, LimitCloses, Closing, Ended
  <2>4. ~Answered
    BY <2>1, AnsweredStep DEF AgentInv, Closing, Ended
  <2>5. ~Worker
    BY <2>1 DEF Worker, WorkerWrites, WorkerFinishes, WorkerFails
  <2> QED BY <2>2, <2>3, <2>4, <2>5, StepKinds
<1> QED BY <1>1, <1>2
-----------------------------------------------------------------------------
(* The inductive invariant holds of the first state and is kept.           *)
LEMMA AgentInvInit == ASSUME Init PROVE AgentInv
<1>1. \A i \in 1 .. 6 : Setup[i] \in Kinds \ {"temporary", "failure", "decision", "worker", "proposal"}
  BY DEF Setup, Kinds
<1>2. "data" \in Contents \ {"terminal"}
  BY DEF Contents
<1>3. \A i \in 1 .. 6 : Plain(Write(0, Setup[i], "data"))
  BY <1>1, <1>2, PlainWrite
<1>4. /\ todo = [i \in 1 .. 6 |-> Write(0, Setup[i], "data")]
  BY DEF Init, All, Setup
<1>5. Len(todo) = 6 /\ todo # << >>
  BY <1>4
<1>6. \A w \in Pending : Plain(w)
  BY <1>3, <1>4, <1>5 DEF Pending, Elements
<1>7. /\ source = [b \in Batches |-> "none"] /\ files = Nothing /\ pc = "setup" /\ error = "none"
      /\ batch = 1 /\ calls = 0 /\ sent = << >> /\ worker = "none" /\ step = "check"
      /\ outcome.class = "D" /\ tokens = 0
  BY DEF Init
<1>8. WritesAgree
  BY <1>6, <1>7 DEF WritesAgree, Plain
<1>9. DOMAIN files = {} /\ \A n, c : ~Holds(n, c)
  BY <1>7 DEF Nothing, Holds
<1>10. WriteUnderWay /\ ProposalsKept /\ RequestsCounted /\ WorkerAwaited /\ AIsEarned /\ LastKept
  BY <1>7, <1>9 DEF WriteUnderWay, ProposalsKept, RequestsCounted, WorkerAwaited, AIsEarned, LastKept,
                    Closing, Ended, Batches
<1>11. ~LimitReached
  <2>1. MaxTokens \in Nat
    BY AgentConstants
  <2>2. tokens = 0
    BY <1>7
  <2>3. ~(tokens > MaxTokens)
    BY <2>1, <2>2
  <2> QED BY <1>9, <2>3 DEF LimitReached
<1> QED
  BY <1>8, <1>10, <1>11, AgentInit DEF AgentInv, LimitCloses

(* The inductive invariant holds of every reachable state: types, and what *)
(* each control point knows of the files, the budgets and the worker.      *)
THEOREM AgentInvariant == Spec => []AgentInv
<1>1. Init => AgentInv
  BY AgentInvInit
<1>2. AgentInv /\ [Next]_vars => AgentInv'
  <2> SUFFICES ASSUME AgentInv, [Next]_vars PROVE AgentInv'
    OBVIOUS
  <2>1. TypeOK'
    BY AgentStep DEF AgentInv
  <2> QED
    BY <2>1, WritesAgreeStep, WriteUnderWayStep, ProposalsKeptStep, RequestsCountedStep,
       WorkerAwaitedStep, AIsEarnedStep, LastKeptStep, LimitClosesStep DEF AgentInv
<1> QED BY <1>1, <1>2, PTL DEF Spec

(* Decision A is in the bundle only when both requests were answered with  *)
(* a valid proposal, both batches were measured in full, and no file of    *)
(* the run was refused, the last two included.                             *)
THEOREM OnlyLiveIsLive == Spec => []LiveMeansLive
<1>1. AgentInv => LiveMeansLive
  <2> SUFFICES ASSUME AgentInv, Holds(Decision, "A") PROVE LiveMeansLive
    BY DEF LiveMeansLive
  <2>1. \A b \in Batches : source[b] = "LIVE" /\ given[b] = "valid" /\ measured[b] = "complete"
                          /\ Holds(Proposal(b), "LIVE")
    BY DEF AgentInv, AIsEarned
  <2>2. sent = <<1, 2>>
    BY <2>1 DEF AgentInv, RequestsCounted, Batches
  <2>3. {Comparisons, Usage} \subseteq DOMAIN files
    BY DEF AgentInv, LastKept
  <2> QED BY <2>1, <2>2, <2>3 DEF LiveMeansLive, Proposal, Comparisons, Usage
<1> QED BY <1>1, AgentInvariant, PTL

(* Each batch is asked for at most once and in order, and the second only  *)
(* with the feedback of the first in the bundle.                           *)
THEOREM RequestsAreInOrder == Spec => []OneRequestPerBatch
<1>1. AgentInv => OneRequestPerBatch
  <2> SUFFICES ASSUME AgentInv PROVE OneRequestPerBatch
    OBVIOUS
  <2>1. <<1, 2>> # << >> /\ <<1, 2>> # <<1>>
    OBVIOUS
  <2> QED BY <2>1 DEF AgentInv, RequestsCounted, OneRequestPerBatch, Feedback
<1> QED BY <1>1, AgentInvariant, PTL

(* After a planner limit no request is sent and no worker started.         *)
THEOREM NothingAfterLimit == Spec => LimitEndsRun
<1>1. AgentInv /\ [Next]_vars => [LimitReached => sent' = sent /\ worker' = worker]_vars
  <2> SUFFICES ASSUME AgentInv, [Next]_vars, LimitReached PROVE sent' = sent /\ worker' = worker
    OBVIOUS
  <2> USE DEF bundle, planner, proposals
  <2>1. worker = "none" /\ (error # "none" \/ pc \in Closing)
    BY DEF AgentInv, LimitCloses
  <2>2. CASE Store \/ Crash \/ Decide \/ UNCHANGED vars
    BY <2>2 DEF Store, WriteTemporary, ReplaceFile, TruncateManifest, WriteManifest, RefuseWrite,
                Crash, Decide, vars
  <2>3. CASE Routine
    BY <2>1, <2>3 DEF Routine, ChoosePlanner, SendRequest, Select, Gate, Replay, LaunchWorker, AwaitFailure,
                      Collect, Calibrate, Compare, Classify, Handle, Return, At, Closing, Ended
  <2>4. ~Answered
    BY <2>1, AnsweredStep DEF AgentInv, Closing, Ended
  <2>5. ~Worker
    BY <2>1 DEF Worker, WorkerWrites, WorkerFinishes, WorkerFails
  <2> QED BY <2>2, <2>3, <2>4, <2>5, StepKinds
<1>2. Spec => []AgentInv /\ [][Next]_vars
  BY AgentInvariant DEF Spec
<1> QED BY <1>1, <1>2, PTL DEF LimitEndsRun
-----------------------------------------------------------------------------
(* The evidence: what makes a bundle acceptable to the preflight.          *)
Required == {<<0, "candidate_universe">>, <<0, "batch1_selection">>, <<0, "benchmark_config">>}
Validation == <<1, "validation">>
ResultNames == {<<1, Results[i]>> : i \in 1 .. 6}
Awaits(n, c) == \E w \in Pending : w.name = n /\ w.content = c

(* A measurement, or what leads to one, is a GPU run's, a replay is not.   *)
MeasuredOnGpu ==
  /\ pc = "replay" => ~args.gpu
  /\ worker # "none" \/ pc \in {"launch", "waiting"} => args.gpu
  /\ \A b \in Batches : measured[b] # "none" => args.gpu

(* The files of Batch 1 are in the bundle before Batch 2 begins, and are   *)
(* not written again.                                                      *)
Batch1Kept ==
  /\ batch = 2 =>
       /\ Required \subseteq DOMAIN files /\ Holds(Validation, "valid")
       /\ measured[1] = "complete" => \A n \in ResultNames : Holds(n, "complete")
       /\ \A w \in Pending : w.name \notin ResultNames \cup {Validation}
  /\ Feedback \in DOMAIN files => batch = 2 /\ files[Feedback] = measured[1]
  /\ \A w \in Pending : w.name = Feedback => batch = 2 /\ w.content = measured[1]

(* Until then they are written, or about to be.                            *)
Batch1Promised ==
  batch = 1 /\ error = "none" /\ pc \notin Closing =>
    /\ pc # "select" /\ \A n \in Required : Promised(n)
    /\ \A w \in Pending : w.name = Validation => w.content = "valid"
    /\ pc \in {"gate", "launch", "waiting", "replay", "calibrate"} =>
         Holds(Validation, "valid") \/ Awaits(Validation, "valid")
    /\ pc = "calibrate" =>
         /\ \A w \in Pending : w.name \in ResultNames => w.content = measured[1]
         /\ measured[1] = "complete" => \A n \in ResultNames : Holds(n, "complete") \/ Awaits(n, "complete")

(* The last write is in the manifest.                                      *)
ManifestMatches == (pc = "return" /\ todo = << >>) \/ pc = "returned" => manifest = files

EvidenceInv == AgentInv /\ MeasuredOnGpu /\ Batch1Kept /\ Batch1Promised /\ ManifestMatches

(* The files the preflight looks at are neither temporary nor of a worker. *)
LEMMA EvidenceLasts ==
  /\ \A n \in Required \cup ResultNames \cup {Validation, Feedback} : Lasting(n)
  /\ Feedback \notin ResultNames \cup {Validation} /\ Validation \notin ResultNames
<1>1. \A i \in 1 .. 6 : Results[i] \notin {"worker", "feedback", "validation"}
  BY DEF Results
<1>2. \A n \in ResultNames : Lasting(n) /\ n # Feedback /\ n # Validation
  BY <1>1 DEF ResultNames, Lasting, Temporary, Unfinished, Feedback, Validation
<1> QED
  BY <1>2 DEF Required, Validation, Feedback, Lasting, Temporary, Unfinished

(* The list a step puts down is of the batch the controller is at or of    *)
(* none; only the calibration of Batch 1 puts the feedback on it, and only *)
(* a proposal its validation.                                              *)
Fresh(w) == \E b \in 0 .. 2, k \in Kinds \ {"feedback"}, c \in Contents :
              w = Write(b, k, c) /\ (b = 1 => batch = 1) /\ (k = "validation" => Answered)

(* What steps other than the calibration of Batch 1 put on the list of     *)
(* writes: nothing for Batch 1 after Batch 1, and no feedback.             *)
LEMMA FreshWrites ==
  ASSUME TypeOK, Routine \/ Answered \/ Decide, ~(Calibrate /\ batch = 1), NEW w \in Pending'
  PROVE  Fresh(w)
<1> USE DEF bundle, planner, proposals
<1>0. /\ todo = << >> /\ Pending = {}
      /\ \A e : Raise(e) => Pending' = {}
      /\ \A l, t : Goto(l, t) => Pending' = Elements(t)
  <2>1. todo = << >>
    BY RoutineStep, AnsweredStep DEF Decide, At
  <2> QED BY <2>1, ElementsOf DEF Pending, Raise, Goto
<1>1. batch \in 1 .. 2 /\ \A b \in Batches : measured[b] \in Contents
  BY DEF TypeOK, Batches, Contents
<1>2. CASE ChoosePlanner \/ SendRequest \/ LaunchWorker \/ AwaitFailure \/ Return
  BY <1>0, <1>2, ElementsOf
  DEF ChoosePlanner, SendRequest, LaunchWorker, AwaitFailure, Return, Pending, Raise, Goto
<1>3. CASE Select
  <2>1. Pending' \subseteq {Write(2, "controls_and_guidance", "data"), Write(0, "replay_comparison", "data")}
    BY <1>0, <1>3, ElementsOf DEF Select
  <2> QED BY <2>1 DEF Fresh, Kinds, Contents
<1>4. CASE Gate
  <2>1. Pending' \subseteq {Write(batch, "cpu_gates", "complete"), Write(batch, "requested_hashes", "data"),
                           Write(2, "replay_note", "data")}
    BY <1>0, <1>1, <1>4, ElementsOf DEF Gate
  <2> QED BY <1>1, <2>1 DEF Fresh, Kinds, Contents, Qualities
<1>5. CASE Replay
  <2>1. Pending' \subseteq {Write(0, "replay_source", "data")}
    BY <1>0, <1>5, ElementsOf DEF Replay
  <2> QED BY <2>1 DEF Fresh, Kinds, Contents
<1>6. CASE Collect
  <2>1. \E i \in 1 .. 6 : w = Write(batch, Results[i], measured[batch])
    BY <1>0, <1>6, ElementsOfResults DEF Collect
  <2>2. \A i \in 1 .. 6 : Results[i] \in Kinds \ {"feedback", "validation"}
    BY DEF Results, Kinds
  <2>3. measured[batch] \in Contents
    BY <1>1 DEF Batches
  <2> QED BY <1>1, <2>1, <2>2, <2>3 DEF Fresh
<1>7. CASE Calibrate
  <2>1. Pending' \subseteq {Write(2, "calibration", "data")}
    BY <1>0, <1>7, ElementsOf DEF Calibrate
  <2> QED BY <2>1 DEF Fresh, Kinds, Contents
<1>8. CASE Compare \/ Classify
  <2>1. Pending' \subseteq {Write(0, "control_comparisons", "data"), Write(0, "resource_usage", "data")}
    BY <1>0, <1>8, ElementsOf DEF Compare, Classify
  <2> QED BY <2>1 DEF Fresh, Kinds, Contents
<1>9. CASE Handle
  <2>1. Pending' \subseteq {Write(0, "failure", "data")}
    BY <1>9, ElementsOf DEF Handle, Pending
  <2> QED BY <2>1 DEF Fresh, Kinds, Contents
<1>10. CASE Decide
  <2>1. Pending' \subseteq {Write(0, "decision", outcome.class)} /\ outcome.class \in Contents
    BY <1>0, <1>10, ElementsOf DEF Decide, TypeOK, Contents
  <2> QED BY <2>1 DEF Fresh, Kinds
<1>11. CASE Answered
  <2>1. \/ \E s \in {"LIVE", "FALLBACK", "SAVED"}, v \in {"valid", "invalid"} : Propose(s, v)
        \/ FallBack \/ Exhaust \/ Raise("invalid")
    BY <1>11, AnsweredStep
  <2>2. \/ \E s \in {"LIVE", "FALLBACK", "SAVED"} : w = Write(batch, "proposal", s)
        \/ \E v \in {"valid", "invalid"} : w = Write(batch, "validation", v)
        \/ w = Write(batch, "proposal", "AFTER_ERROR")
        \/ \E c \in {"fallback", "terminal"} : w = Write(batch, "provider_error", c)
    BY <1>0, <2>1, ProposalWrites
  <2> QED BY <1>1, <1>11, <2>2 DEF Fresh, Kinds, Contents, Sources
<1> QED
  BY <1>2, <1>3, <1>4, <1>5, <1>6, <1>7, <1>8, <1>9, <1>10, <1>11 DEF Routine

(* What is held, or on the list and never with other contents, stays so    *)
(* until a step puts down a new list: then it is held.                     *)
LEMMA StillComing ==
  ASSUME AgentInv, [Next]_vars, ~RefuseWrite, NEW n, Lasting(n), NEW c,
         \A w \in Pending : w.name = n => w.content = c,
         Holds(n, c) \/ Awaits(n, c)
  PROVE  /\ Holds(n, c)' \/ Awaits(n, c)'
         /\ Pending = {} => Holds(n, c)'
<1>1. ASSUME Holds(n, c) PROVE Holds(n, c)'
  BY <1>1, FilesChange DEF Holds, Stays
<1>2. CASE Pending = {} \/ Holds(n, c)
  BY <1>1, <1>2 DEF Awaits
<1>3. ASSUME NEW w \in Pending, w.name = n, w.content = c PROVE Holds(n, c)' \/ Awaits(n, c)'
  <2>1. CASE w \in Pending'
    BY <1>3, <2>1 DEF Awaits
  <2>2. CASE WriteManifest /\ w = Head(todo) /\ files' = files /\ Holds(Head(todo).name, Head(todo).content)
    BY <1>3, <2>2 DEF Holds
  <2> QED BY <1>3, <2>1, <2>2, ListSteps
<1> QED BY <1>2, <1>3 DEF Awaits

(* Every step preserves MeasuredOnGpu.                                     *)
LEMMA MeasuredOnGpuStep == ASSUME AgentInv, MeasuredOnGpu, [Next]_vars PROVE MeasuredOnGpu'
<1> USE DEF bundle, planner, proposals
<1>1. CASE Store \/ Decide \/ Crash \/ UNCHANGED vars
  BY <1>1 DEF Store, WriteTemporary, ReplaceFile, TruncateManifest, WriteManifest, RefuseWrite, Decide,
              Goto, Crash, vars, MeasuredOnGpu
<1>2. CASE Routine
  BY <1>2 DEF Routine, ChoosePlanner, SendRequest, Select, Gate, Replay, LaunchWorker, AwaitFailure,
              Collect, Calibrate, Compare, Classify, Handle, Return, Goto, Raise, At, MeasuredOnGpu
<1>3. CASE Answered
  <2>1. /\ pc \in {"propose", "asked"} /\ UNCHANGED <<args, worker, measured>>
        /\ (\E s, v : Propose(s, v)) \/ FallBack \/ Exhaust \/ Raise("invalid")
    BY <1>3, AnsweredStep DEF AgentInv
  <2>2. pc' \notin {"launch", "waiting", "replay"}
    BY <2>1 DEF Propose, FallBack, Exhaust, Raise
  <2> QED BY <2>1, <2>2 DEF MeasuredOnGpu
<1>4. CASE Worker
  <2>1. args.gpu /\ pc' = pc /\ args' = args
    BY <1>4 DEF Worker, WorkerWrites, WorkerFinishes, WorkerFails, MeasuredOnGpu
  <2> QED BY <2>1 DEF MeasuredOnGpu
<1> QED BY <1>1, <1>2, <1>3, <1>4, StepKinds

(* Batches only go on, and measurements are of the batch under way.        *)
LEMMA BatchGoesOn ==
  ASSUME AgentInv, [Next]_vars
  PROVE  /\ batch = 2 => batch' = 2 /\ measured'[1] = measured[1]
         /\ batch = 1 /\ batch' # 1 =>
              /\ Calibrate /\ batch' = 2 /\ measured' = measured
              /\ pc = "calibrate" /\ error = "none" /\ error' = "none" /\ pc' = "propose" /\ Pending = {}
              /\ Pending' = {Write(1, "calibration", "data"), Write(1, "feedback", measured[1])}
<1> USE DEF bundle, planner, proposals
<1>1. batch \in {1, 2}
  BY DEF AgentInv, TypeOK, Batches
<1>2. CASE Calibrate
  BY <1>1, <1>2, ElementsOf DEF Calibrate, Goto, At, Pending
<1>3. CASE WorkerFinishes
  BY <1>1, <1>3 DEF WorkerFinishes, AgentInv, TypeOK, Batches
<1>4. CASE Answered
  BY <1>4, AnsweredStep DEF AgentInv
<1>5. CASE Routine /\ ~Calibrate
  BY <1>5 DEF Routine, ChoosePlanner, SendRequest, Select, Gate, Replay, LaunchWorker, AwaitFailure,
              Collect, Compare, Classify, Handle, Return, Goto, Raise
<1>6. CASE Store \/ Decide \/ WorkerWrites \/ WorkerFails \/ Crash \/ UNCHANGED vars
  BY <1>6 DEF Store, WriteTemporary, ReplaceFile, TruncateManifest, WriteManifest, RefuseWrite, Decide,
              Goto, WorkerWrites, WorkerFails, Crash, vars
<1> QED BY <1>2, <1>3, <1>4, <1>5, <1>6, StepKinds DEF Worker

(* Every step preserves Batch1Kept.                                        *)
LEMMA Batch1KeptStep == ASSUME EvidenceInv, [Next]_vars PROVE Batch1Kept'
<1> DEFINE Sealed == ResultNames \cup {Validation}
<1>1. AgentInv /\ Batch1Kept /\ Batch1Promised
  BY DEF EvidenceInv
<1>2. batch \in {1, 2}
  BY <1>1 DEF AgentInv, TypeOK, Batches
<1>3. /\ Required' = Required /\ ResultNames' = ResultNames /\ Validation' = Validation
      /\ Feedback' = Feedback /\ Feedback \notin Sealed
  BY EvidenceLasts DEF Required, ResultNames, Validation, Feedback
<1>4. ASSUME NEW w \in Pending', ~(batch = 1 /\ batch' # 1)
      PROVE  w \in Pending \/ (w.name # Feedback /\ (batch = 2 => w.name \notin Sealed))
  <2>1. CASE Routine \/ Answered \/ Decide
    <3>1. ~(Calibrate /\ batch = 1)
      BY <1>4 DEF Calibrate
    <3>2. PICK b \in 0 .. 2, k \in Kinds \ {"feedback"}, c \in Contents :
            w = Write(b, k, c) /\ (b = 1 => batch = 1)
      BY <1>1, <2>1, <3>1, FreshWrites DEF AgentInv, Fresh
    <3> QED BY <3>2 DEF Write, Feedback, Validation, ResultNames
  <2>2. CASE ~(Routine \/ Answered \/ Decide)
    BY <1>1, <1>4, <2>2, ListSteps
  <2> QED BY <2>1, <2>2
<1>5. CASE batch = 2
  <2>1. batch' = 2 /\ measured'[1] = measured[1]
    BY <1>1, <1>5, BatchGoesOn
  <2>2. ASSUME NEW n \in Required PROVE n \in DOMAIN files'
    <3>1. n \in DOMAIN files
      BY <1>1, <1>5 DEF Batch1Kept
    <3> QED BY <1>1, <3>1, EvidenceLasts, FilesChange DEF Stays
  <2>3. ASSUME NEW n \in Sealed PROVE Stays(n)
    BY <1>1, <1>5, EvidenceLasts, FilesChange DEF Batch1Kept
  <2>4. Holds(Validation, "valid")'
    BY <1>1, <1>3, <1>5, <2>3 DEF Batch1Kept, Holds, Stays
  <2>5. measured'[1] = "complete" => \A n \in ResultNames : Holds(n, "complete")'
    BY <1>1, <1>5, <2>1, <2>3 DEF Batch1Kept, Holds, Stays
  <2>6. \A w \in Pending' : /\ w.name \notin Sealed
                            /\ w.name = Feedback => w.content = measured[1]
    BY <1>1, <1>4, <1>5 DEF Batch1Kept
  <2>7. Feedback \in DOMAIN files' => files'[Feedback] = measured[1]
    BY <1>1, NamesLast, FilesChange DEF Stays, Batch1Kept
  <2> QED BY <1>3, <2>1, <2>2, <2>4, <2>5, <2>6, <2>7 DEF Batch1Kept
<1>6. CASE batch = 1 /\ batch' = 1
  <2>1. Feedback \notin DOMAIN files /\ \A w \in Pending : w.name # Feedback
    BY <1>1, <1>6 DEF Batch1Kept
  <2>2. Feedback \notin DOMAIN files'
    BY <1>1, <2>1, NamesLast, FilesChange DEF Stays
  <2>3. \A w \in Pending' : w.name # Feedback
    BY <1>4, <1>6, <2>1
  <2> QED BY <1>3, <1>6, <2>2, <2>3 DEF Batch1Kept
<1>7. CASE batch = 1 /\ batch' # 1
  <2>1. /\ batch' = 2 /\ measured' = measured /\ pc = "calibrate" /\ error = "none" /\ Pending = {}
        /\ Calibrate
        /\ Pending' = {Write(1, "calibration", "data"), Write(1, "feedback", measured[1])}
    BY <1>1, <1>7, BatchGoesOn
  <2>2. /\ \A n \in Required : n \in DOMAIN files
        /\ Holds(Validation, "valid")
        /\ measured[1] = "complete" => \A n \in ResultNames : Holds(n, "complete")
    BY <1>1, <1>7, <2>1 DEF Batch1Promised, Promised, Awaits, Closing, Ended
  <2>3. files' = files
    BY <2>1 DEF Calibrate, bundle
  <2>4. Feedback \notin DOMAIN files
    BY <1>1, <1>7 DEF Batch1Kept
  <2>5. \A w \in Pending' : w.name \notin Sealed /\ (w.name = Feedback => w.content = measured[1])
    <3>1. \A i \in 1 .. 6 : Results[i] \notin {"calibration", "feedback"}
      BY DEF Results
    <3> QED BY <2>1, <3>1 DEF Write, ResultNames, Validation, Feedback
  <2> QED BY <1>3, <2>1, <2>2, <2>3, <2>4, <2>5 DEF Batch1Kept, Holds
<1> QED BY <1>2, <1>5, <1>6, <1>7

(* Every step preserves Batch1Promised.                                    *)
LEMMA Batch1PromisedStep == ASSUME EvidenceInv, [Next]_vars PROVE Batch1Promised'
<1> USE DEF bundle, planner, proposals
<1> DEFINE Measuring == {"gate", "launch", "waiting", "replay", "calibrate"}
<1> SUFFICES ASSUME batch' = 1, error' = "none", pc' \notin Closing PROVE Batch1Promised'
  BY DEF Batch1Promised, Closing
<1>1. AgentInv /\ Batch1Promised
  BY DEF EvidenceInv
<1>2. batch = 1
  BY <1>1, BatchGoesOn DEF AgentInv, TypeOK, Batches
<1>3. ~RefuseWrite
  BY <1>1, Refused DEF Closing, Ended
<1>4. error = "none" /\ pc \notin Closing
  <2>1. CASE Store \/ Decide \/ Worker \/ Crash \/ UNCHANGED vars
    BY <1>3, <2>1 DEF Store, WriteTemporary, ReplaceFile, TruncateManifest, WriteManifest, Decide, Goto,
                      Worker, WorkerWrites, WorkerFinishes, WorkerFails, Crash, vars, Closing, Ended
  <2>2. CASE Routine
    BY <2>2 DEF Routine, ChoosePlanner, SendRequest, Select, Gate, Replay, LaunchWorker, AwaitFailure,
                Collect, Calibrate, Compare, Classify, Handle, Return, At, Goto, Closing, Ended
  <2>3. CASE Answered
    BY <1>1, <2>3, AnsweredStep DEF AgentInv, Closing, Ended
  <2> QED BY <2>1, <2>2, <2>3, StepKinds
<1>5. /\ pc # "select" /\ \A n \in Required : Promised(n)
      /\ \A w \in Pending : w.name = Validation => w.content = "valid"
      /\ pc \in Measuring => Holds(Validation, "valid") \/ Awaits(Validation, "valid")
      /\ pc = "calibrate" =>
           /\ \A w \in Pending : w.name \in ResultNames => w.content = measured[1]
           /\ measured[1] = "complete" => \A n \in ResultNames : Holds(n, "complete") \/ Awaits(n, "complete")
  BY <1>1, <1>2, <1>4 DEF Batch1Promised
<1>6. Required' = Required /\ ResultNames' = ResultNames /\ Validation' = Validation
  BY DEF Required, ResultNames, Validation
<1>7. \A n \in Required : Promised(n)'
  BY <1>1, <1>3, <1>5, EvidenceLasts, StillPromised
<1>8. ASSUME Answered
      PROVE  /\ pc' \in {pc, "gate"} /\ pc \notin Measuring
             /\ \A w \in Pending' : w.name = Validation => w.content = "valid"
             /\ pc' = "gate" => Awaits(Validation, "valid")'
  <2>1. /\ pc \in {"propose", "asked"} /\ Pending = {}
        /\ \/ \E s \in {"LIVE", "FALLBACK", "SAVED"}, v \in {"valid", "invalid"} : Propose(s, v)
           \/ FallBack \/ Exhaust \/ Raise("invalid")
    BY <1>1, <1>8, AnsweredStep, ElementsOf DEF AgentInv, Pending
  <2>2. ASSUME NEW s \in {"LIVE", "FALLBACK", "SAVED"}, NEW v \in {"valid", "invalid"}, Propose(s, v)
        PROVE  /\ pc' = "gate"
               /\ Pending' = {Write(1, "proposal", s), Write(1, "validation", "valid")}
    <3>1. v = "valid" /\ pc' = "gate"
      BY <1>2, <2>2 DEF Propose
    <3>2. Pending' = {Write(batch, "proposal", s), Write(batch, "validation", v)}
      BY <2>2, ProposalWrites
    <3> QED BY <1>2, <3>1, <3>2
  <2>3. CASE \E s \in {"LIVE", "FALLBACK", "SAVED"}, v \in {"valid", "invalid"} : Propose(s, v)
    <3>1. PICK s \in {"LIVE", "FALLBACK", "SAVED"} :
            /\ pc' = "gate"
            /\ Pending' = {Write(1, "proposal", s), Write(1, "validation", "valid")}
      BY <2>2, <2>3
    <3>2. /\ Write(1, "validation", "valid").name = Validation
          /\ Write(1, "validation", "valid").content = "valid"
          /\ Write(1, "proposal", s).name # Validation
      BY DEF Write, Validation
    <3> QED BY <2>1, <3>1, <3>2 DEF Awaits
  <2>4. CASE FallBack
    <3>1. /\ pc' = "gate"
          /\ Pending' = { Write(1, "provider_error", "fallback"), Write(1, "proposal", "AFTER_ERROR"),
                          Write(1, "validation", "valid") }
      BY <1>2, <2>4, ProposalWrites DEF FallBack
    <3> QED BY <2>1, <3>1 DEF Write, Awaits, Validation
  <2>5. ~Exhaust /\ ~Raise("invalid")
    BY DEF Exhaust, Raise
  <2> QED BY <2>1, <2>3, <2>4, <2>5
<1>9. ASSUME NEW w \in Pending', w.name = Validation PROVE w.content = "valid"
  <2>1. CASE Answered
    BY <1>8, <1>9, <2>1
  <2>2. CASE (Routine \/ Decide) /\ ~Answered
    <3>1. ~(Calibrate /\ batch = 1)
      BY DEF Calibrate
    <3>2. Fresh(w)
      BY <1>1, <2>2, <3>1, FreshWrites DEF AgentInv
    <3> QED BY <1>9, <2>2, <3>2 DEF Fresh, Write, Validation
  <2>3. CASE ~(Routine \/ Answered \/ Decide)
    BY <1>1, <1>3, <1>5, <1>9, <2>3, ListSteps
  <2> QED BY <2>1, <2>2, <2>3
<1>10. pc' \in Measuring => pc \in Measuring \/ (Answered /\ pc' = "gate")
  <2>1. CASE Store \/ Decide \/ Worker \/ Crash \/ UNCHANGED vars
    BY <1>3, <2>1 DEF Store, WriteTemporary, ReplaceFile, TruncateManifest, WriteManifest, Decide, Goto,
                      Worker, WorkerWrites, WorkerFinishes, WorkerFails, Crash, vars, Closing, Ended
  <2>2. CASE Routine
    BY <1>5, <2>2 DEF Routine, ChoosePlanner, SendRequest, Select, Gate, Replay, LaunchWorker,
                AwaitFailure, Collect, Calibrate, Compare, Classify, Handle, Return, At, Goto, Raise
  <2>3. CASE Answered
    BY <1>8, <2>3
  <2> QED BY <2>1, <2>2, <2>3, StepKinds
<1>11. pc' \in Measuring => Holds(Validation, "valid")' \/ Awaits(Validation, "valid")'
  <2>1. CASE pc \in Measuring
    BY <1>1, <1>3, <1>5, <2>1, EvidenceLasts, StillComing
  <2>2. CASE pc \notin Measuring
    BY <1>8, <1>10, <2>2
  <2> QED BY <2>1, <2>2
<1>12. pc' # "select"
  <2>1. CASE Routine
    BY <1>5, <2>1 DEF Routine, ChoosePlanner, SendRequest, Select, Gate, Replay, LaunchWorker, AwaitFailure,
                Collect, Calibrate, Compare, Classify, Handle, Return, Goto, Raise
  <2>2. CASE Answered
    BY <1>5, <1>8, <2>2
  <2>3. CASE Store \/ Decide \/ Worker \/ Crash \/ UNCHANGED vars
    BY <1>3, <1>5, <2>3 DEF Store, WriteTemporary, ReplaceFile, TruncateManifest, WriteManifest, Decide,
                      Goto, Worker, WorkerWrites, WorkerFinishes, WorkerFails, Crash, vars
  <2> QED BY <2>1, <2>2, <2>3, StepKinds
<1>13. ASSUME pc' = "calibrate"
       PROVE  /\ \A w \in Pending' : w.name \in ResultNames => w.content = measured'[1]
              /\ measured'[1] = "complete" =>
                   \A n \in ResultNames : Holds(n, "complete")' \/ Awaits(n, "complete")'
  <2>1. CASE Replay
    <3>1. pc = "replay" /\ measured' = measured /\ Pending = {}
      BY <2>1, ElementsOf DEF Replay, At, Pending
    <3>2. measured[1] # "complete"
      BY <3>1 DEF EvidenceInv, MeasuredOnGpu, Batches
    <3>3. Pending' = {Write(0, "replay_source", "data")}
      BY <1>13, <2>1, <3>1, ElementsOf DEF Replay, Goto, Raise, Pending
    <3> QED BY <3>1, <3>2, <3>3 DEF Write, ResultNames
  <2>2. CASE Collect
    <3>1. Pending' = Elements(All(1, Results, measured[1])) /\ measured' = measured
      BY <1>2, <1>13, <2>2 DEF Collect, Goto, Raise, At, Pending
    <3>2. DOMAIN Results = 1 .. 6
      BY DEF Results
    <3>3. All(1, Results, measured[1]) = [i \in 1 .. 6 |-> Write(1, Results[i], measured[1])]
      BY <3>2 DEF All
    <3>4. \A i \in 1 .. 6 : Write(1, Results[i], measured[1]) \in Pending'
      <4>1. Len(All(1, Results, measured[1])) = 6
        BY <3>3
      <4> QED BY <3>1, <3>3, <4>1 DEF Elements
    <3>5. \A w \in Pending' : w.content = measured[1]
      BY <3>1, ElementsOfResults DEF Write
    <3>6. ASSUME NEW n \in ResultNames, measured[1] = "complete" PROVE Awaits(n, "complete")'
      <4>1. PICK i \in 1 .. 6 : n = <<1, Results[i]>>
        BY DEF ResultNames
      <4>2. Write(1, Results[i], measured[1]).name = n /\ Write(1, Results[i], measured[1]).content = "complete"
        BY <3>6, <4>1 DEF Write
      <4> QED BY <3>4, <4>2 DEF Awaits
    <3> QED BY <3>1, <3>5, <3>6
  <2>3. CASE ~Replay /\ ~Collect
    <3>1. pc = "calibrate" /\ ~Routine /\ ~Answered /\ ~Decide
      <4>1. CASE Routine
        BY <1>2, <1>13, <2>3, <4>1
        DEF Routine, ChoosePlanner, SendRequest, Select, Gate, LaunchWorker, AwaitFailure, Calibrate,
            Compare, Classify, Handle, Return, At, Goto, Raise
      <4>2. CASE Answered
        BY <1>8, <1>13, <4>2
      <4>3. CASE Store \/ Decide \/ Worker \/ Crash \/ UNCHANGED vars
        <5>1. pc = "calibrate" /\ ~Decide
          BY <1>3, <1>13, <4>3 DEF Store, WriteTemporary, ReplaceFile, TruncateManifest, WriteManifest,
             Decide, Goto, Worker, WorkerWrites, WorkerFinishes, WorkerFails, Crash, vars
        <5> QED BY <4>1, <4>2, <5>1
      <4> QED BY <4>1, <4>2, <4>3, StepKinds
    <3>2. Pending' \subseteq Pending
      BY <1>1, <3>1, ListSteps
    <3>3. worker = "none"
      BY <1>1, <3>1 DEF AgentInv, WorkerAwaited
    <3>4. measured' = measured
      BY <3>1, <3>3, StepKinds DEF Store, WriteTemporary, ReplaceFile, TruncateManifest, WriteManifest,
         RefuseWrite, Worker, WorkerWrites, WorkerFinishes, WorkerFails, Crash, vars
    <3>5. ASSUME NEW n \in ResultNames, measured[1] = "complete"
          PROVE  Holds(n, "complete")' \/ Awaits(n, "complete")'
      <4>1. /\ \A w \in Pending : w.name = n => w.content = "complete"
            /\ Holds(n, "complete") \/ Awaits(n, "complete")
        BY <1>5, <3>1, <3>5
      <4> QED BY <1>1, <1>3, <4>1, EvidenceLasts, StillComing
    <3> QED BY <1>5, <3>1, <3>2, <3>4, <3>5
  <2> QED BY <2>1, <2>2, <2>3
<1> QED BY <1>6, <1>7, <1>9, <1>11, <1>12, <1>13 DEF Batch1Promised, Holds, Awaits, Promised

(* Every step preserves ManifestMatches.                                   *)
LEMMA ManifestMatchesStep == ASSUME AgentInv, ManifestMatches, [Next]_vars PROVE ManifestMatches'
<1> USE DEF bundle, planner, proposals
<1>1. CASE Store
  BY <1>1, Refused DEF Store, WriteTemporary, ReplaceFile, TruncateManifest, WriteManifest, Writing,
                       ManifestMatches, Ended
<1>2. CASE Routine
  BY <1>2 DEF Routine, ChoosePlanner, SendRequest, Select, Gate, Replay, LaunchWorker, AwaitFailure,
              Collect, Calibrate, Compare, Classify, Handle, Return, Goto, Raise, At, ManifestMatches
<1>3. CASE Answered
  <2>1. pc' \in {"propose", "asked", "gate", "select"}
    BY <1>3, AnsweredStep DEF AgentInv, Propose, FallBack, Exhaust, Raise
  <2> QED BY <2>1 DEF ManifestMatches
<1>4. CASE Decide
  <2>1. todo' # << >> /\ pc' = "return"
    BY <1>4 DEF Decide, Goto
  <2> QED BY <2>1 DEF ManifestMatches
<1>5. CASE Worker
  <2>1. worker # "none" /\ pc' = pc
    BY <1>5 DEF Worker, WorkerWrites, WorkerFinishes, WorkerFails
  <2> QED BY <2>1 DEF AgentInv, WorkerAwaited, ManifestMatches
<1>6. CASE Crash \/ UNCHANGED vars
  BY <1>6 DEF Crash, vars, ManifestMatches
<1> QED BY <1>1, <1>2, <1>3, <1>4, <1>5, <1>6, StepKinds

(* The initial states satisfy EvidenceInv.                                 *)
LEMMA EvidenceInvInit == ASSUME Init PROVE EvidenceInv
<1>1. /\ batch = 1 /\ error = "none" /\ pc = "setup" /\ worker = "none" /\ files = Nothing
      /\ measured = [b \in Batches |-> "none"]
  BY DEF Init
<1>2. DOMAIN files = {}
  BY <1>1 DEF Nothing
<1>3. todo = [i \in 1 .. 6 |-> Write(0, Setup[i], "data")]
  BY DEF Init, All, Setup
<1>4. Len(todo) = 6
  BY <1>3
<1>5. \A w \in Pending : \E i \in 1 .. 6 : w = Write(0, Setup[i], "data")
  BY <1>3, <1>4 DEF Pending, Elements
<1>6. \A i \in 1 .. 6 : Write(0, Setup[i], "data") \in Pending
  BY <1>3, <1>4 DEF Pending, Elements
<1>7. \A w \in Pending : w.name # Feedback /\ w.name # Validation
  BY <1>5 DEF Write, Feedback, Validation
<1>8. ASSUME NEW n \in Required PROVE Promised(n)
  <2>1. \E i \in 1 .. 6 : n = Write(0, Setup[i], "data").name
    BY DEF Required, Setup, Write
  <2> QED BY <1>6, <2>1 DEF Promised
<1>9. Batch1Kept /\ Batch1Promised
  BY <1>1, <1>2, <1>7, <1>8 DEF Batch1Kept, Batch1Promised
<1>10. MeasuredOnGpu /\ ManifestMatches
  BY <1>1 DEF MeasuredOnGpu, ManifestMatches
<1> QED BY <1>9, <1>10, AgentInvInit DEF EvidenceInv

(* A bundle the preflight accepts is one whose Batch 1 was measured in     *)
(* full, and a run that returns with such a Batch 1 leaves an acceptable   *)
(* bundle.                                                                 *)
THEOREM EvidenceIsSound == Spec => []EvidenceIsExact
<1>1. Init => EvidenceInv
  BY EvidenceInvInit
<1>2. AgentInv /\ AgentInv' /\ EvidenceInv /\ [Next]_vars => EvidenceInv'
  BY MeasuredOnGpuStep, Batch1KeptStep, Batch1PromisedStep, ManifestMatchesStep DEF EvidenceInv
<1>3. EvidenceInv => EvidenceIsExact
  <2> SUFFICES ASSUME EvidenceInv PROVE EvidenceIsExact
    OBVIOUS
  <2>1. AgentInv /\ MeasuredOnGpu /\ Batch1Kept /\ ManifestMatches
    BY DEF EvidenceInv
  <2>2. ASSUME Accepted PROVE args.gpu /\ measured[1] = "complete"
    <3>1. Holds(Feedback, "complete")
      BY <2>2 DEF Accepted, Feedback
    <3>2. measured[1] = "complete"
      BY <2>1, <3>1 DEF Batch1Kept, Holds
    <3> QED BY <2>1, <3>2 DEF MeasuredOnGpu, Batches
  <2>3. ASSUME pc = "returned", measured[1] = "complete", Feedback \in DOMAIN files PROVE Accepted
    <3>1. manifest = files
      BY <2>1, <2>3 DEF ManifestMatches
    <3>2. batch = 2 /\ files[Feedback] = "complete"
      BY <2>1, <2>3 DEF Batch1Kept
    <3>3. Required \subseteq DOMAIN files /\ Holds(Validation, "valid")
          /\ \A n \in ResultNames : Holds(n, "complete")
      BY <2>1, <2>3, <3>2 DEF Batch1Kept
    <3>4. DOMAIN Results = 1 .. 6
      BY DEF Results
    <3>5. \A i \in DOMAIN Results : Holds(<<1, Results[i]>>, "complete")
      BY <3>3, <3>4 DEF ResultNames
    <3> QED BY <2>3, <3>1, <3>2, <3>3, <3>5 DEF Accepted, Required, Validation, Feedback, Holds
  <2> QED BY <2>2, <2>3 DEF EvidenceIsExact, Feedback
<1> QED BY <1>1, <1>2, <1>3, AgentInvariant, PTL DEF Spec

-----------------------------------------------------------------------------
(* A bound on the steps the controller has left: four for each pending      *)
(* write, by how far the first one is, and thirty for each place it has to  *)
(* come through yet.                                                        *)
Place == [l \in Phases |->
  IF l = "setup" THEN 13 ELSE IF l = "propose" THEN 12 ELSE IF l = "asked" THEN 11
  ELSE IF l = "select" THEN 10 ELSE IF l = "gate" THEN 9 ELSE IF l \in {"launch", "replay"} THEN 8
  ELSE IF l = "waiting" THEN 7 ELSE IF l = "calibrate" THEN 6 ELSE IF l = "compare" THEN 5
  ELSE IF l = "classify" THEN 4 ELSE IF l = "record" THEN 3 ELSE IF l = "decide" THEN 2 ELSE 1]
Places == IF pc \in {"decide", "return"} THEN Place[pc] ELSE Place[pc] + 7 * (2 - batch)
Begun == IF step = "check" THEN 0 ELSE IF step = "temporary" THEN 1
         ELSE IF step = "replaced" THEN 2 ELSE 3
WritesLeft == 4 * Len(todo) - Begun + (IF error = "none" THEN 5 ELSE 0)
StepsLeft == IF pc \in Ended THEN 0 ELSE 30 * Places + WritesLeft

ShortLists == Len(todo) \in 0 .. 6

(* What the numbers do, apart from the state.                               *)
LEMMA FewerPlaces ==
  ASSUME NEW p \in Int, NEW q \in Int, NEW v \in 0 .. 29, NEW w \in 0 .. 29, q < p
  PROVE  30 * q + w < 30 * p + v
  OBVIOUS
LEMMA FewerWrites ==
  ASSUME NEW p \in Int, NEW v \in Int, NEW w \in Int, w < v
  PROVE  30 * p + w < 30 * p + v
  OBVIOUS
LEMMA OneFewer ==
  ASSUME NEW m, NEW n \in 0 .. 6, m = n - 1, n >= 1
  PROVE  m \in 0 .. 6
  OBVIOUS

(* The numbers are in their ranges.                                         *)
Ranges ==
  /\ WritesLeft \in 0 .. 29
  /\ pc \notin Ended => Places \in 1 .. 20
LEMMA AgentRanges == TypeOK /\ ShortLists /\ WriteUnderWay => Ranges
<1> SUFFICES ASSUME TypeOK, ShortLists, WriteUnderWay PROVE Ranges
  OBVIOUS
<1>1. Begun \in 0 .. 3 /\ (todo = << >> => Begun = 0)
  BY DEF TypeOK, Begun, WriteUnderWay
<1>2. todo # << >> => Len(todo) >= 1
  BY DEF TypeOK, ShortLists
<1>3. PICK n \in 0 .. 6 : Len(todo) = n /\ (n = 0 => Begun = 0)
  BY <1>1, <1>2 DEF ShortLists
<1>5. WritesLeft \in 0 .. 29
  <2>1. PICK k \in 0 .. 3 : Begun = k /\ (n = 0 => k = 0)
    BY <1>1, <1>3
  <2>2. PICK e \in 0 .. 5 : WritesLeft = 4 * n - k + e
    BY <1>3, <2>1 DEF WritesLeft
  <2>3. 4 * n - k \in 0 .. 24
    BY <2>1
  <2> QED
    BY <2>2, <2>3
<1>4. pc \notin Ended => Places \in 1 .. 20
  <2> SUFFICES ASSUME pc \notin Ended PROVE Places \in 1 .. 20
    OBVIOUS
  <2>1. pc \in Phases /\ batch \in {1, 2}
    BY DEF TypeOK, Batches
  <2>2. Place[pc] \in 1 .. 13
    BY <2>1 DEF Place, Phases
  <2> QED
    BY <2>1, <2>2 DEF Places
<1> QED
  BY <1>4, <1>5 DEF Ranges

(* The lists of writes are short.                                           *)
LEMMA ListLengths ==
  ASSUME NEW b, NEW c
  PROVE  Len(All(b, Results, c)) = 6 /\ Len(All(b, Setup, c)) = 6
<1>1. DOMAIN Results = 1 .. 6 /\ DOMAIN Setup = 1 .. 6
  BY DEF Results, Setup
<1>2. DOMAIN All(b, Results, c) = 1 .. 6 /\ DOMAIN All(b, Setup, c) = 1 .. 6
  BY <1>1 DEF All
<1>3. All(b, Results, c) \in Seq({Write(b, Results[i], c) : i \in 1 .. 6})
  BY <1>1, SeqDef DEF All
<1>4. All(b, Setup, c) \in Seq({Write(b, Setup[i], c) : i \in 1 .. 6})
  BY <1>1, SeqDef DEF All
<1> QED
  BY <1>2, <1>3, <1>4, LenProperties

(* Where a step of the controller leads.                                    *)
Ends == pc' \in Ended /\ Len(todo') \in 0 .. 6
OnTheSpot ==
  /\ pc' = pc /\ batch' = batch
  /\ Len(todo') \in 0 .. 6
  /\ WritesLeft' < WritesLeft
Forward ==
  /\ pc' \in Phases /\ batch' \in Batches
  /\ Len(todo') \in 0 .. 6
  /\ Places' < Places

LEMMA AgentMoves ==
  ASSUME AgentInv, ShortLists, Controller \/ Crash
  PROVE  pc \notin Ended /\ (Ends \/ OnTheSpot \/ Forward)
<1> USE DEF bundle, planner, proposals
<1>0. TypeOK /\ WriteUnderWay /\ WorkerAwaited
  BY DEF AgentInv
<1>1. CASE WriteTemporary \/ ReplaceFile \/ TruncateManifest
  <2>1. /\ UNCHANGED <<pc, batch, todo, error>> /\ pc \notin Ended
        /\ \/ step = "check" /\ step' = "temporary"
           \/ step = "temporary" /\ step' = "replaced"
           \/ step = "replaced" /\ step' = "manifest"
    BY <1>1 DEF WriteTemporary, ReplaceFile, TruncateManifest, Writing
  <2>2. WritesLeft' < WritesLeft
    BY <2>1 DEF WritesLeft, Begun, ShortLists
  <2> QED
    BY <2>1, <2>2 DEF OnTheSpot, ShortLists
<1>2. CASE WriteManifest
  <2>1. /\ UNCHANGED <<pc, batch, error>> /\ pc \notin Ended
        /\ step = "manifest" /\ step' = "check" /\ todo # << >> /\ todo' = Tail(todo)
    BY <1>2 DEF WriteManifest, Writing
  <2>2. Len(todo') = Len(todo) - 1 /\ Len(todo) >= 1
    BY <1>0, <2>1 DEF TypeOK, ShortLists
  <2>3. WritesLeft' < WritesLeft
    BY <2>1, <2>2 DEF WritesLeft, Begun, ShortLists
  <2>4. Len(todo') \in 0 .. 6
    BY <2>2, OneFewer DEF ShortLists
  <2> QED
    BY <2>1, <2>3, <2>4 DEF OnTheSpot
<1>3. CASE RefuseWrite
  <2>1. /\ UNCHANGED <<batch, step>> /\ pc \notin Ended /\ step = "check" /\ todo # << >>
        /\ todo' = << >> /\ pc' = IF pc = "return" THEN "raised" ELSE pc
        /\ error' = IF pc \in {"decide", "return"} THEN "none" ELSE "size"
    BY <1>3, Refused DEF RefuseWrite, Writing
  <2>2. Len(todo) >= 1 /\ Len(todo') = 0
    BY <1>0, <2>1 DEF TypeOK, ShortLists
  <2>3. error' = "none" => error = "none"
    BY <1>0, <2>1 DEF WorkerAwaited
  <2>4. WritesLeft' < WritesLeft
    BY <2>1, <2>2, <2>3 DEF WritesLeft, Begun, ShortLists
  <2> QED
    BY <2>1, <2>2, <2>4 DEF OnTheSpot, Ends, Ended
(* Everything else happens with nothing left to write.                      *)
<1>4. ASSUME todo = << >>, error = "none", step' = step, todo' = << >>, error' # "none",
             pc' = pc, batch' = batch
      PROVE  OnTheSpot
  <2>1. WritesLeft' = WritesLeft - 5 /\ WritesLeft \in Int
    BY <1>0, <1>4 DEF WritesLeft, Begun, TypeOK
  <2> QED
    BY <1>4, <2>1 DEF OnTheSpot
<1>5. ASSUME todo = << >>, error = "none", step' = step, Exhaust
      PROVE  OnTheSpot
  <2>1. Len(todo) = 0 /\ Len(todo') = 1 /\ error' = "budget" /\ pc' = pc /\ batch' = batch
    BY <1>5 DEF Exhaust
  <2>2. WritesLeft' = WritesLeft - 1 /\ WritesLeft \in Int
    BY <1>0, <1>5, <2>1 DEF WritesLeft, Begun, TypeOK
  <2> QED
    BY <2>1, <2>2 DEF OnTheSpot
<1>6. ASSUME pc \in {"propose", "asked"},
             FallBack \/ \E s, v \in {"LIVE", "FALLBACK", "SAVED", "valid", "invalid"} : Propose(s, v)
      PROVE  Forward
  <2>1. /\ Len(todo') \in 0 .. 6 /\ batch' = batch
        /\ pc' = IF batch = 1 THEN "gate" ELSE "select"
    BY <1>6 DEF FallBack, Propose
  <2>2. Places' < Places
    BY <1>0, <1>6, <2>1 DEF Places, Place, Phases, TypeOK, Batches
  <2> QED
    BY <1>0, <2>1, <2>2 DEF Forward, Phases, TypeOK
<1>7. ASSUME NEW l \in Phases, NEW w, pc \in Phases \ {"decide", "return"}, Goto(l, w),
             Len(w) \in 0 .. 6, Place[l] < Place[pc]
      PROVE  Forward
  <2>1. pc' = l /\ batch' = batch /\ todo' = w
    BY <1>7 DEF Goto
  <2>2. Places' < Places
    <3>1. \A k \in Phases : Place[k] \in Nat
      BY DEF Place
    <3>2. batch \in {1, 2} /\ batch' = batch /\ pc \notin {"decide", "return"}
      BY <1>0, <1>7, <2>1 DEF TypeOK, Batches
    <3> QED
      BY <1>7, <2>1, <3>1, <3>2 DEF Places
  <2> QED
    BY <1>0, <1>7, <2>1, <2>2 DEF Forward, TypeOK
<1>8. CASE ChoosePlanner \/ Select \/ Gate \/ Replay
  <2>1. /\ pc \in {"setup", "select", "gate", "replay"} /\ todo = << >> /\ error = "none" /\ step' = step
        /\ \/ \E e \in {"invalid"} : Raise(e)
           \/ \E l \in Phases : \E w : Goto(l, w) /\ Len(w) \in 0 .. 6 /\ Place[l] < Place[pc]
    <3>1. CASE ChoosePlanner
      <4>1. Place["propose"] < Place["setup"] /\ "propose" \in Phases /\ Len(<< >>) = 0
        BY DEF Place, Phases
      <4> QED
        BY <3>1, <4>1 DEF ChoosePlanner, At
    <3>2. CASE Select
      <4>1. Place["gate"] < Place["select"] /\ "gate" \in Phases
        BY DEF Place, Phases
      <4>2. \A a, b : Len(<<a>>) \in 0 .. 6 /\ Len(<<a, b>>) \in 0 .. 6
        OBVIOUS
      <4> QED
        BY <3>2, <4>1, <4>2 DEF Select, At
    <3>3. CASE Gate
      <4>1. /\ {"launch", "replay", "compare"} \subseteq Phases
            /\ Place["launch"] < Place["gate"] /\ Place["replay"] < Place["gate"]
            /\ Place["compare"] < Place["gate"]
        BY DEF Place, Phases
      <4>2. \A a, b : Len(<<a>>) \in 0 .. 6 /\ Len(<<a, b>>) \in 0 .. 6
        OBVIOUS
      <4> QED
        BY <3>3, <4>1, <4>2 DEF Gate, At
    <3>4. CASE Replay
      <4>1. Place["calibrate"] < Place["replay"] /\ "calibrate" \in Phases
        BY DEF Place, Phases
      <4> QED
        BY <3>4, <4>1 DEF Replay, At
    <3> QED
      BY <1>8, <3>1, <3>2, <3>3, <3>4
  <2>2. CASE \E e \in {"invalid"} : Raise(e)
    BY <1>4, <2>1, <2>2 DEF Raise, Ended
  <2>3. CASE \E l \in Phases : \E w : Goto(l, w) /\ Len(w) \in 0 .. 6 /\ Place[l] < Place[pc]
    BY <1>7, <2>1, <2>3 DEF Phases, Ended
  <2> QED
    BY <2>1, <2>2, <2>3
<1>9. CASE ProposeOffline \/ PlannerLimit \/ PlannerRefuses
  <2>1. pc = "propose" /\ todo = << >> /\ error = "none" /\ step' = step
    BY <1>9 DEF ProposeOffline, PlannerLimit, PlannerRefuses, At
  <2>2. \/ Exhaust \/ FallBack
        \/ \E s, v \in {"LIVE", "FALLBACK", "SAVED", "valid", "invalid"} : Propose(s, v)
        \/ Raise("invalid")
    BY <1>9 DEF ProposeOffline, PlannerLimit, PlannerRefuses
  <2>3. OnTheSpot \/ Forward
    BY <1>4, <1>5, <1>6, <2>1, <2>2 DEF Raise
  <2> QED
    BY <2>1, <2>3 DEF Ended
<1>10. ASSUME AnswerLost \/ AnswerUnaccountable \/ \E u \in Usages, a \in Answers : AnswerComes(u, a)
       PROVE  pc \notin Ended /\ (OnTheSpot \/ Forward)
  <2>1. pc = "asked" /\ todo = << >> /\ error = "none" /\ step' = step
    BY <1>10 DEF AnswerLost, AnswerUnaccountable, AnswerComes, At
  <2>2. \/ Exhaust \/ FallBack
        \/ \E s, v \in {"LIVE", "FALLBACK", "SAVED", "valid", "invalid"} : Propose(s, v)
    BY <1>10 DEF AnswerLost, AnswerUnaccountable, AnswerComes
  <2>3. OnTheSpot \/ Forward
    BY <1>5, <1>6, <2>1, <2>2
  <2> QED
    BY <2>1, <2>3 DEF Ended
<1>11. CASE SendRequest \/ LaunchWorker \/ AwaitFailure
  <2>1. /\ pc \in {"propose", "launch", "waiting"} /\ todo = << >> /\ error = "none" /\ step' = step
        /\ \/ \E e \in {"timeout", "blocked", "budget"} : Raise(e)
           \/ /\ UNCHANGED <<todo, batch, error>>
              /\ \/ pc = "propose" /\ pc' = "asked"
                 \/ pc = "launch" /\ pc' = "waiting"
    <3>1. CASE SendRequest
      BY <3>1 DEF SendRequest, At
    <3>2. CASE LaunchWorker
      BY <3>2 DEF LaunchWorker, At
    <3>3. CASE AwaitFailure
      BY <3>3 DEF AwaitFailure, At
    <3> QED
      BY <1>11, <3>1, <3>2, <3>3
  <2>2. CASE \E e \in {"timeout", "blocked", "budget"} : Raise(e)
    BY <1>4, <2>1, <2>2 DEF Raise, Ended
  <2>3. CASE /\ UNCHANGED <<todo, batch, error>>
             /\ \/ pc = "propose" /\ pc' = "asked"
                \/ pc = "launch" /\ pc' = "waiting"
    <3>1. Places' < Places
      BY <1>0, <2>3 DEF Places, Place, Phases, TypeOK, Batches
    <3> QED
      BY <1>0, <2>1, <2>3, <3>1 DEF Forward, Phases, TypeOK, Ended
  <2> QED
    BY <2>1, <2>2, <2>3
<1>12. CASE Collect
  <2>1. /\ pc = "waiting" /\ todo = << >> /\ error = "none" /\ step' = step
        /\ Raise("size") \/ Goto("calibrate", All(batch, Results, measured[batch]))
    BY <1>12 DEF Collect, At
  <2>2. CASE Raise("size")
    BY <1>4, <2>1, <2>2 DEF Raise, Ended
  <2>3. CASE Goto("calibrate", All(batch, Results, measured[batch]))
    <3>1. Len(All(batch, Results, measured[batch])) = 6
      BY ListLengths
    <3>2. "calibrate" \in Phases /\ pc \in Phases /\ Place["calibrate"] < Place[pc]
      BY <2>1 DEF Phases, Place
    <3> QED
      BY <1>7, <2>1, <2>3, <3>1, <3>2 DEF Ended
  <2> QED
    BY <2>1, <2>2, <2>3
<1>13. CASE Calibrate \/ Compare \/ Classify \/ Handle \/ Decide
  <2>1. /\ pc \in Phases \ {"return"} /\ Len(todo') \in 0 .. 6 /\ batch' \in Batches
        /\ \/ pc = "calibrate" /\ batch = 1 /\ pc' = "propose" /\ batch' = 2
           \/ pc = "calibrate" /\ pc' = "compare" /\ batch' = batch
           \/ pc = "compare" /\ pc' = "classify" /\ batch' = batch
           \/ pc = "classify" /\ pc' = "record" /\ batch' = batch
           \/ pc # "decide" /\ pc' = "decide"
           \/ pc \in {"record", "decide"} /\ pc' = "return"
    BY <1>0, <1>13 DEF Calibrate, Compare, Classify, Handle, Decide, At, Goto, Phases, TypeOK, Batches, Ended,
       WorkerAwaited
  <2>2. Places' < Places
    <3>1. batch \in {1, 2} /\ batch' \in {1, 2}
      BY <1>0, <2>1 DEF TypeOK, Batches
    <3>2. CASE \/ pc = "calibrate" /\ batch = 1 /\ pc' = "propose" /\ batch' = 2
               \/ pc = "calibrate" /\ pc' = "compare" /\ batch' = batch
      BY <3>1, <3>2 DEF Places, Place, Phases
    <3>3. CASE \/ pc = "compare" /\ pc' = "classify" /\ batch' = batch
               \/ pc = "classify" /\ pc' = "record" /\ batch' = batch
      BY <3>1, <3>3 DEF Places, Place, Phases
    <3>4. CASE pc # "decide" /\ pc' = "decide"
      <4>1. Place[pc] \in 3 .. 13 /\ Places' = 2
        BY <2>1, <3>4 DEF Places, Place, Phases
      <4> QED
        BY <2>1, <3>1, <3>4, <4>1 DEF Places
    <3>5. CASE pc \in {"record", "decide"} /\ pc' = "return"
      <4>1. Places' = 1 /\ Place["record"] = 3 /\ Place["decide"] = 2
        BY <3>5 DEF Places, Place, Phases
      <4> QED
        BY <3>1, <3>5, <4>1 DEF Places
    <3> QED
      BY <2>1, <3>2, <3>3, <3>4, <3>5
  <2> QED
    BY <2>1, <2>2 DEF Forward, Phases, Ended
<1>14. CASE Return \/ Crash
  BY <1>14 DEF Return, Crash, At, Ended, ShortLists, Ends
<1> QED
  BY <1>1, <1>2, <1>3, <1>8, <1>9, <1>10, <1>11, <1>12, <1>13, <1>14
  DEF Controller, Plan, Store, Measure, Conclude

(* Every list of writes is short, and a step leaves the controller fewer.   *)
LEMMA AgentStepsLeft ==
  ASSUME AgentInv, AgentInv', ShortLists, Next
  PROVE  /\ ShortLists'
         /\ Controller \/ Crash => StepsLeft' < StepsLeft
         /\ Worker => StepsLeft' = StepsLeft
<1>1. Worker => ShortLists' /\ StepsLeft' = StepsLeft
  <2> SUFFICES ASSUME Worker PROVE ShortLists' /\ StepsLeft' = StepsLeft
    OBVIOUS
  <2>1. UNCHANGED <<pc, batch, todo, step, error>>
    BY DEF Worker, WorkerWrites, WorkerFinishes, WorkerFails
  <2> QED
    BY <2>1 DEF ShortLists, StepsLeft, Places, WritesLeft, Begun
<1>2. Controller \/ Crash => ShortLists' /\ StepsLeft' < StepsLeft
  <2> SUFFICES ASSUME Controller \/ Crash PROVE ShortLists' /\ StepsLeft' < StepsLeft
    OBVIOUS
  <2>1. pc \notin Ended /\ ShortLists' /\ (Ends \/ OnTheSpot \/ Forward)
    BY AgentMoves DEF ShortLists, Ends, OnTheSpot, Forward
  <2>2. /\ WritesLeft \in 0 .. 29 /\ Places \in 1 .. 20
        /\ WritesLeft' \in 0 .. 29 /\ (pc' \notin Ended => Places' \in 1 .. 20)
    <3>1. Ranges
      BY AgentRanges DEF AgentInv
    <3>2. (TypeOK /\ ShortLists /\ WriteUnderWay => Ranges)'
      BY AgentRanges, PTL
    <3>3. Ranges'
      BY <2>1, <3>2 DEF AgentInv
    <3> QED
      BY <2>1, <3>1, <3>3 DEF Ranges
  <2>3. StepsLeft = 30 * Places + WritesLeft
    BY <2>1 DEF StepsLeft
  <2>4. CASE Ends
    BY <2>1, <2>2, <2>3, <2>4 DEF StepsLeft, Ends
  <2>5. CASE pc' \notin Ended /\ OnTheSpot
    <3>1. Places' = Places
      BY <2>5 DEF OnTheSpot, Places
    <3>2. StepsLeft' = 30 * Places' + WritesLeft' /\ WritesLeft' < WritesLeft
      BY <2>5 DEF StepsLeft, OnTheSpot
    <3>3. WritesLeft \in Int /\ WritesLeft' \in Int /\ Places \in Int
      BY <2>2
    <3>4. StepsLeft' < StepsLeft
      BY <2>3, <3>1, <3>2, <3>3, FewerWrites
    <3> QED
      BY <2>1, <3>4
  <2>6. CASE pc' \notin Ended /\ Forward
    <3>1. StepsLeft' = 30 * Places' + WritesLeft' /\ Places' < Places
      BY <2>6 DEF StepsLeft, Forward
    <3>2. WritesLeft \in 0 .. 29 /\ WritesLeft' \in 0 .. 29 /\ Places \in Int /\ Places' \in Int
      BY <2>2, <2>6
    <3>3. StepsLeft' < StepsLeft
      BY <2>3, <3>1, <3>2, FewerPlaces
    <3> QED
      BY <2>1, <3>3
  <2> QED
    BY <2>1, <2>4, <2>5, <2>6 DEF Ends, OnTheSpot, Forward
<1> QED
  BY <1>1, <1>2 DEF Next

(* The controller does not go on for ever: every step of it, on whatever    *)
(* path, leaves it fewer, no step of its worker gives it more, and from the *)
(* start it has fewer than six hundred and thirty, whatever the limits are. *)
THEOREM AgentStepsAreBounded ==
  Spec => /\ [](StepsLeft \in 0 .. 629)
          /\ [][(Controller \/ Crash => StepsLeft' < StepsLeft) /\ (Worker => StepsLeft' = StepsLeft)]_vars
<1>1. Init => ShortLists
  <2> SUFFICES ASSUME Init PROVE ShortLists
    OBVIOUS
  <2>1. Len(todo) = 6
    BY ListLengths DEF Init
  <2> QED
    BY <2>1 DEF ShortLists
<1>2. AgentInv /\ AgentInv' /\ ShortLists /\ [Next]_vars =>
        /\ ShortLists'
        /\ [(Controller \/ Crash => StepsLeft' < StepsLeft) /\ (Worker => StepsLeft' = StepsLeft)]_vars
  <2> SUFFICES ASSUME AgentInv, AgentInv', ShortLists, [Next]_vars
               PROVE  /\ ShortLists'
                      /\ [(Controller \/ Crash => StepsLeft' < StepsLeft) /\ (Worker => StepsLeft' = StepsLeft)]_vars
    OBVIOUS
  <2>1. CASE Next
    BY <2>1, AgentStepsLeft
  <2>2. CASE UNCHANGED vars
    BY <2>2 DEF vars, ShortLists
  <2> QED
    BY <2>1, <2>2
<1>3. AgentInv /\ ShortLists => StepsLeft \in 0 .. 629
  <2> SUFFICES ASSUME AgentInv, ShortLists PROVE StepsLeft \in 0 .. 629
    OBVIOUS
  <2>1. WritesLeft \in 0 .. 29 /\ (pc \notin Ended => Places \in 1 .. 20)
    BY AgentRanges DEF AgentInv, Ranges
  <2>2. CASE pc \in Ended
    BY <2>2 DEF StepsLeft
  <2>3. CASE pc \notin Ended
    BY <2>1, <2>3 DEF StepsLeft
  <2> QED
    BY <2>2, <2>3
<1> QED
  BY <1>1, <1>2, <1>3, AgentInvariant, PTL DEF Spec

-----------------------------------------------------------------------------
(* The room of the bundle: the files that are neither temporary nor a       *)
(* worker's nor of the end of the run leave the reserve free, the one under *)
(* way included; at the end there is a decision, or what took its place.    *)
Special == {Temporary, Failure, Decision, Unfinished(1), Unfinished(2)}
Ordinary == DOMAIN files \ Special
RoomInv ==
  /\ args.room \in Rooms /\ args.note \in Notes
  /\ IsFiniteSet(DOMAIN files)
  /\ Temporary \in DOMAIN files => step = "temporary"
  /\ Cardinality(Ordinary) + Reserve <= args.room
  /\ step = "temporary" /\ Head(todo).name \notin Special =>
       Cardinality(Ordinary \cup {Head(todo).name}) + Reserve <= args.room
DecisionInv ==
  /\ pc = "return" => \/ todo = << >> /\ Decision \in DOMAIN files
                      \/ \E c \in Contents : todo = <<Write(0, "decision", c)>>
  /\ pc = "returned" => Decision \in DOMAIN files
  /\ pc = "raised" => Long \/ \E b \in Batches : Unfinished(b) \in DOMAIN files

(* What the files of a bundle cost is no less than the number of those that *)
(* do not close the run, and no more than that and the notes that may be    *)
(* there.                                                                   *)
LEMMA UsedBounds ==
  ASSUME NEW D, IsFiniteSet(D), args.note \in Nat
  PROVE  /\ Cardinality(D \ Closers) \in Nat /\ Used(D) \in Nat
         /\ Cardinality(D \ Closers) <= Used(D)
         /\ Used(D) <= Cardinality(D \ Closers) + 2 * args.note
<1>1. /\ IsFiniteSet(D \ Closers) /\ Cardinality(D \ Closers) \in Nat
      /\ IsFiniteSet(D \cap Closers) /\ Cardinality(D \cap Closers) \in Nat
  BY FS_Subset, FS_CardinalityType
<1>2. IsFiniteSet(Closers) /\ Cardinality(Closers) <= 2
  <2>1. IsFiniteSet({Failure}) /\ Cardinality({Failure}) = 1
    BY FS_Singleton
  <2>2. IsFiniteSet({Failure} \cup {Decision}) /\ Cardinality({Failure} \cup {Decision}) \in {1, 2}
    BY <2>1, FS_AddElement
  <2>3. Closers = {Failure} \cup {Decision}
    BY DEF Closers
  <2> QED
    BY <2>2, <2>3
<1>3. Cardinality(D \cap Closers) <= Cardinality(Closers)
  BY <1>2, FS_Subset
<1>4. Cardinality(D \cap Closers) \in {0, 1, 2}
  <2>1. Cardinality(Closers) \in Nat
    BY <1>2, FS_CardinalityType
  <2> QED
    BY <1>1, <1>2, <1>3, <2>1
<1>5. args.note * Cardinality(D \cap Closers) \in {0, args.note, 2 * args.note}
  BY <1>4
<1> QED
  BY <1>1, <1>5 DEF Used

(* A step that leaves the bundle alone, but for a worker's output, while    *)
(* nothing is being written.                                                *)
LEMMA RoomIsKept ==
  ASSUME AgentInv, RoomInv, UNCHANGED <<args, step>>, step # "temporary",
         IsFiniteSet(DOMAIN files'), Ordinary' = Ordinary,
         Temporary \in DOMAIN files' => Temporary \in DOMAIN files
  PROVE  RoomInv'
BY DEF RoomInv

(* Every step keeps the room.                                               *)
LEMMA RoomStep == ASSUME AgentInv, RoomInv, AgentConstants, [Next]_vars PROVE RoomInv'
<1> USE DEF bundle, planner, proposals
<1>0. /\ Temporary \in Special /\ Failure \in Special /\ Decision \in Special
      /\ \A b \in Batches : Unfinished(b) \in Special /\ Unfinished(b) # Temporary
  BY DEF Special, Batches, Temporary, Unfinished
<1>1. Reserve \in Nat /\ args.room \in Nat /\ IsFiniteSet(DOMAIN files)
  BY AgentConstants DEF RoomInv
<1>2. IsFiniteSet(Ordinary) /\ Cardinality(Ordinary) \in Nat
  BY <1>1, FS_Subset, FS_CardinalityType DEF Ordinary
<1>3. CASE WriteTemporary
  <2> DEFINE n == Head(todo).name
  <2>1. /\ DOMAIN files' = DOMAIN files \cup {Temporary} /\ step' = "temporary" /\ todo' = todo
        /\ args' = args /\ Fits
    BY <1>3 DEF WriteTemporary, Put
  <2>2. IsFiniteSet(DOMAIN files') /\ Ordinary' = Ordinary
    BY <1>0, <1>1, <2>1, FS_AddElement DEF Ordinary, Special, Temporary, Failure, Decision, Unfinished
  <2>3. ASSUME n \notin Special PROVE Cardinality(Ordinary \cup {n}) + Reserve <= args.room
    <3> DEFINE D == DOMAIN files \cup {n}
    <3>1. IsFiniteSet(D)
      BY <1>1, FS_AddElement
    <3>2. Used(D) + Reserve <= args.room
      BY <1>0, <2>1, <2>3 DEF Fits, Closers
    <3>3. args.note \in Nat
      BY AgentConstants DEF RoomInv
    <3>4. Cardinality(D \ Closers) \in Nat /\ Used(D) \in Nat /\ Cardinality(D \ Closers) <= Used(D)
      BY <3>1, <3>3, UsedBounds
    <3>5. Ordinary \cup {n} \subseteq D \ Closers
      BY <1>0, <2>3 DEF Ordinary, Special, Closers
    <3>6. IsFiniteSet(D \ Closers)
      BY <3>1, FS_Subset
    <3>7. /\ Cardinality(Ordinary \cup {n}) <= Cardinality(D \ Closers)
          /\ Cardinality(Ordinary \cup {n}) \in Nat
      BY <3>5, <3>6, FS_Subset, FS_CardinalityType
    <3> HIDE DEF D
    <3> QED
      BY <1>1, <3>2, <3>4, <3>7
  <2>4. Special' = Special
    BY DEF Special, Temporary, Failure, Decision, Unfinished
  <2>5. /\ args'.room \in Rooms /\ args'.note \in Notes /\ Cardinality(Ordinary') + Reserve <= args'.room
        /\ (Head(todo).name)' = Head(todo).name
    BY <2>1, <2>2 DEF RoomInv
  <2>6. (Ordinary \cup {Head(todo).name})' = Ordinary \cup {n}
    BY <2>1, <2>2
  <2> QED
    BY <2>1, <2>2, <2>3, <2>4, <2>5, <2>6 DEF RoomInv
<1>4. CASE ReplaceFile
  <2> DEFINE n == Head(todo).name
  <2>1. /\ DOMAIN files' = (DOMAIN files \ {Temporary}) \cup {n} /\ step' = "replaced"
        /\ args' = args /\ step = "temporary" /\ todo # << >>
    BY <1>4 DEF ReplaceFile, Put, Without, Restrict, Writing
  <2>2. n # Temporary
    <3>1. Head(todo) \in Pending
      BY <2>1, ElementsOfTail DEF Pending, AgentInv, TypeOK
    <3> QED
      BY <3>1 DEF AgentInv, WritesAgree
  <2>3. IsFiniteSet(DOMAIN files') /\ Temporary \notin DOMAIN files'
    <3>1. IsFiniteSet(DOMAIN files \ {Temporary})
      BY <1>1, FS_RemoveElement
    <3>2. IsFiniteSet((DOMAIN files \ {Temporary}) \cup {n})
      BY <3>1, FS_AddElement
    <3> QED
      BY <2>1, <2>2, <3>2
  <2>4. Ordinary' = IF n \in Special THEN Ordinary ELSE Ordinary \cup {n}
    BY <1>0, <2>1 DEF Ordinary, Special, Temporary, Failure, Decision, Unfinished
  <2>5. Cardinality(Ordinary') + Reserve <= args'.room
    BY <2>1, <2>4 DEF RoomInv
  <2> QED
    BY <2>1, <2>3, <2>5 DEF RoomInv
<1>5. CASE TruncateManifest \/ WriteManifest \/ RefuseWrite \/ Decide
  <2>1. /\ UNCHANGED <<args, files>> /\ step' \in {step, "manifest", "check"} /\ step # "temporary"
    BY <1>5 DEF TruncateManifest, WriteManifest, RefuseWrite, Decide, Writing, At, AgentInv,
       WriteUnderWay
  <2>2. Ordinary' = Ordinary
    BY <2>1 DEF Ordinary, Special, Temporary, Failure, Decision, Unfinished
  <2> QED
    BY <2>1, <2>2 DEF RoomInv
<1>6. ASSUME UNCHANGED <<args, step>>, step # "temporary",
             \/ DOMAIN files' = DOMAIN files
             \/ \E b \in Batches : DOMAIN files' \in {DOMAIN files \cup {Unfinished(b)},
                                                      DOMAIN files \ {Unfinished(b)}}
      PROVE  RoomInv'
  <2>1. IsFiniteSet(DOMAIN files')
    <3>1. \A x : IsFiniteSet(DOMAIN files \cup {x})
      BY <1>1, FS_AddElement
    <3>2. \A x : IsFiniteSet(DOMAIN files \ {x})
      BY <1>1, FS_RemoveElement
    <3> QED
      BY <1>1, <1>6, <3>1, <3>2
  <2>2. /\ Ordinary' = Ordinary
        /\ Temporary \in DOMAIN files' => Temporary \in DOMAIN files
    BY <1>0, <1>6 DEF Ordinary, Special, Temporary, Failure, Decision, Unfinished
  <2> QED
    BY <1>6, <2>1, <2>2, RoomIsKept
<1>7. todo = << >> => step # "temporary"
  BY DEF AgentInv, WriteUnderWay
<1>8. CASE Routine
  <2>1. todo = << >> /\ UNCHANGED <<args, step>>
    BY <1>8, RoutineStep DEF AgentInv, Routine, ChoosePlanner, SendRequest, Select, Gate, Replay,
       LaunchWorker, AwaitFailure, Collect, Calibrate, Compare, Classify, Handle, Return
  <2>2. CASE Collect
    <3>1. batch \in Batches /\ DOMAIN files' = DOMAIN files \ {Unfinished(batch)}
      BY <2>2 DEF Collect, Without, Restrict, AgentInv, TypeOK
    <3> QED
      BY <1>6, <1>7, <2>1, <3>1
  <2>3. CASE ~Collect
    <3>1. files' = files
      BY <1>8, <2>3 DEF Routine, ChoosePlanner, SendRequest, Select, Gate, Replay, LaunchWorker,
         AwaitFailure, Calibrate, Compare, Classify, Handle, Return
    <3> QED
      BY <1>6, <1>7, <2>1, <3>1
  <2> QED
    BY <2>2, <2>3
<1>9. CASE Answered
  BY <1>6, <1>7, <1>9, AnsweredStep DEF AgentInv
<1>10. CASE Worker
  <2>1. worker # "none" /\ UNCHANGED <<args, step>>
    BY <1>10 DEF Worker, WorkerWrites, WorkerFinishes, WorkerFails
  <2>2. todo = << >> /\ batch \in Batches
    BY <2>1 DEF AgentInv, WorkerAwaited, TypeOK
  <2>3. DOMAIN files' = DOMAIN files \/ DOMAIN files' = DOMAIN files \cup {Unfinished(batch)}
    BY <1>10 DEF Worker, WorkerWrites, WorkerFinishes, WorkerFails, Put
  <2> QED
    BY <1>6, <1>7, <2>1, <2>2, <2>3
<1>11. CASE Crash \/ UNCHANGED vars
  <2>1. UNCHANGED <<args, files, todo, step>>
    BY <1>11 DEF Crash, vars
  <2>2. /\ Ordinary' = Ordinary /\ Special' = Special
        /\ (Ordinary \cup {Head(todo).name})' = Ordinary \cup {Head(todo).name}
    BY <2>1 DEF Ordinary, Special, Temporary, Failure, Decision, Unfinished
  <2> QED
    BY <2>1, <2>2 DEF RoomInv
<1> QED
  BY <1>3, <1>4, <1>5, <1>8, <1>9, <1>10, <1>11, StepKinds DEF Store

(* Every step of a run with room enough keeps the way to the decision.      *)
LEMMA DecisionStep ==
  ASSUME AgentInv, RoomInv, DecisionInv, AgentConstants, [Next]_vars
  PROVE  DecisionInv'
<1> USE DEF bundle, planner, proposals
<1>1. CASE Store /\ pc # "return"
  <2>1. pc' = pc /\ pc \notin {"return", "returned", "raised"}
    BY <1>1, Refused DEF Store, WriteTemporary, ReplaceFile, TruncateManifest, WriteManifest,
       Writing, Ended
  <2> QED
    BY <2>1 DEF DecisionInv
<1>2. CASE Store /\ pc = "return"
  <2>1. PICK c \in Contents : todo = <<Write(0, "decision", c)>>
    BY <1>2 DEF Store, WriteTemporary, ReplaceFile, TruncateManifest, WriteManifest, RefuseWrite,
       Writing, DecisionInv
  <2>2. Head(todo).name = Decision /\ Tail(todo) = << >>
    BY <2>1 DEF Write, Decision
  <2>3. CASE WriteTemporary \/ ReplaceFile \/ TruncateManifest
    BY <1>2, <2>1, <2>3 DEF WriteTemporary, ReplaceFile, TruncateManifest, DecisionInv
  <2>4. CASE WriteManifest
    <3>1. step = "manifest" /\ todo' = << >> /\ UNCHANGED <<pc, files>>
      BY <2>2, <2>4 DEF WriteManifest, Writing
    <3>2. Decision \in DOMAIN files
      BY <2>2, <3>1 DEF AgentInv, WriteUnderWay, Holds
    <3> QED
      BY <1>2, <3>1, <3>2 DEF DecisionInv
  <2>5. CASE RefuseWrite
    <3> DEFINE D == DOMAIN files \cup {Decision}
    <3>1. pc' = "raised" /\ files' = files /\ args' = args /\ step = "check" /\ ~Fits
      BY <1>2, <2>2, <2>5 DEF RefuseWrite, Writing
    <3>2. /\ args.note \in Nat /\ args.room \in Nat /\ Reserve \in Nat /\ IsFiniteSet(DOMAIN files)
      BY AgentConstants DEF RoomInv
    <3>3. IsFiniteSet(D)
      BY <3>2, FS_AddElement
    <3>4. /\ Cardinality(D \ Closers) \in Nat /\ Used(D) \in Nat
          /\ Used(D) <= Cardinality(D \ Closers) + 2 * args.note
      BY <3>2, <3>3, UsedBounds
    <3>5. Used(D) > args.room
      <4>1. ~(Used(D) + 0 <= args.room)
        BY <2>2, <3>1 DEF Fits, Closers
      <4> HIDE DEF D
      <4> QED
        BY <3>2, <3>4, <4>1
    <3>6. Temporary \notin DOMAIN files
      BY <3>1 DEF RoomInv
    <3>7. ASSUME ~Long, \A b \in Batches : Unfinished(b) \notin DOMAIN files PROVE FALSE
      <4>1. Unfinished(1) \notin DOMAIN files /\ Unfinished(2) \notin DOMAIN files
        BY <3>7 DEF Batches
      <4>2. D \ Closers = Ordinary
        BY <3>6, <4>1 DEF Ordinary, Special, Closers
      <4>3. Cardinality(Ordinary) + Reserve <= args.room
        BY DEF RoomInv
      <4>4. 2 * args.note <= Reserve
        BY <3>2, <3>7 DEF Long
      <4>5. \A others, used, note, kept, room \in Nat :
              ~(used <= others + 2 * note /\ used > room /\ others + kept <= room /\ 2 * note <= kept)
        OBVIOUS
      <4> HIDE DEF D
      <4> QED
        BY <3>2, <3>4, <3>5, <4>2, <4>3, <4>4, <4>5
    <3> QED
      BY <3>1, <3>7 DEF DecisionInv, Unfinished, Long
  <2> QED
    BY <1>2, <2>3, <2>4, <2>5 DEF Store
<1>3. CASE Routine /\ ~Return
  <2>1. pc' \notin {"return", "returned", "raised"}
    <3>1. pc \notin Ended \cup {"return"}
      BY <1>3 DEF Routine, ChoosePlanner, SendRequest, Select, Gate, Replay, LaunchWorker,
         AwaitFailure, Collect, Calibrate, Compare, Classify, Handle, At, Ended, AgentInv, WorkerAwaited
    <3> QED
      BY <1>3, <3>1 DEF Routine, ChoosePlanner, SendRequest, Select, Gate, Replay, LaunchWorker,
         AwaitFailure, Collect, Calibrate, Compare, Classify, Handle, Goto, Raise, Ended
  <2> QED
    BY <2>1 DEF DecisionInv
<1>4. CASE Return
  <2>1. pc = "return" /\ todo = << >> /\ pc' = "returned" /\ files' = files
    BY <1>4 DEF Return, At
  <2>2. \A c : todo # <<Write(0, "decision", c)>>
    BY <2>1
  <2> QED
    BY <2>1, <2>2 DEF DecisionInv
<1>5. CASE Answered
  <2>1. pc' \notin {"return", "returned", "raised"}
    BY <1>5, AnsweredStep DEF AgentInv, Propose, FallBack, Exhaust, Raise
  <2> QED
    BY <2>1 DEF DecisionInv
<1>6. CASE Decide
  <2>1. pc' = "return" /\ todo' = <<Write(0, "decision", outcome.class)>>
    BY <1>6 DEF Decide, Goto
  <2>2. outcome.class \in Contents
    BY DEF AgentInv, TypeOK, Contents
  <2> QED
    BY <2>1, <2>2 DEF DecisionInv, Write
<1>7. CASE Worker
  <2>1. worker # "none" /\ pc' = pc
    BY <1>7 DEF Worker, WorkerWrites, WorkerFinishes, WorkerFails
  <2>2. pc' \in {"waiting", "crashed"}
    BY <2>1 DEF AgentInv, WorkerAwaited
  <2> QED
    BY <2>2 DEF DecisionInv
<1>8. CASE Crash
  BY <1>8 DEF Crash, DecisionInv
<1>9. CASE UNCHANGED vars
  BY <1>9 DEF vars, DecisionInv, Unfinished, Long
<1> QED
  BY <1>1, <1>2, <1>3, <1>4, <1>5, <1>6, <1>7, <1>8, <1>9, StepKinds

(* A run returns only with its decision in the bundle and in the manifest,  *)
(* whatever went wrong and wherever a write was refused, and is raised out  *)
(* of only over the output of a worker or over a reason twice as long as    *)
(* the reserve allows: every earlier write has kept the reserve free.       *)
THEOREM AgentEndsDecided ==
  Spec => [](/\ pc = "returned" => Decided
             /\ pc = "raised" => Crowded)
<1>1. Init => RoomInv /\ DecisionInv
  <2> SUFFICES ASSUME Init PROVE RoomInv /\ DecisionInv
    OBVIOUS
  <2>1. DOMAIN files = {} /\ step = "check" /\ pc = "setup" /\ args.room \in Rooms /\ args.note \in Notes
    BY DEF Init, Nothing, Invocations
  <2>2. Ordinary = {} /\ IsFiniteSet({}) /\ Cardinality({}) = 0
    BY <2>1, FS_EmptySet DEF Ordinary
  <2>3. Reserve \in Nat /\ args.room \in Nat /\ Reserve <= args.room
    BY <2>1, AgentConstants
  <2> QED
    BY <2>1, <2>2, <2>3 DEF RoomInv, DecisionInv
<1>2. AgentInv /\ RoomInv /\ DecisionInv /\ [Next]_vars => RoomInv' /\ DecisionInv'
  BY RoomStep, DecisionStep, AgentConstants
<1>3. AgentInv /\ ManifestMatches /\ [Next]_vars => ManifestMatches'
  BY ManifestMatchesStep
<1>4. Init => ManifestMatches
  BY DEF Init, ManifestMatches
<1>5. ManifestMatches /\ DecisionInv =>
        (pc = "returned" => Decided) /\ (pc = "raised" => Crowded)
  BY DEF ManifestMatches, DecisionInv, Decided, Crowded
<1> QED
  BY <1>1, <1>2, <1>3, <1>4, <1>5, AgentInvariant, PTL DEF Spec
=============================================================================
