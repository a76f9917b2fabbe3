------------------------ MODULE ExperimentSessionProofs ------------------------
(***************************************************************************)
(* Proofs about ExperimentSession, for any number of processes, proposals, *)
(* candidates and faults.                                                  *)
(***************************************************************************)
EXTENDS ExperimentSession, SumTheorems

(* A process that works on the session, or whose worker still keeps its    *)
(* file description open, holds the lock.                                  *)
LockInv ==
  \A q \in Procs :
    /\ pc[q] \in Active \cup {"orphan"} => lock = q
    /\ worker[q] = "running" => pc[q] \in {"child", "orphan"}
    /\ worker[q] = "torn" => pc[q] = "child"
    /\ worker[q] = "survivor" => pc[q] \in Active \cup {"orphan", "linger"}

(* The batch record never runs ahead of what was launched, and a final one *)
(* lists all of it.                                                        *)
BatchInv ==
  \A p \in Ids :
    /\ batch[p].conf + batch[p].unc <= launched[p]
    /\ batch[p].conf <= durable[p]
    /\ batch[p].status \in FinalBatch => batch[p].conf + batch[p].unc = launched[p]

(* A record before its batch has run. *)
Unspent(e) == e.consumed = 0 /\ e.resolution = "none"

(* What a record of proposal p, saved or about to be saved, says about p. *)
Justified(e, p) ==
  /\ e.st \in {"absent", "accepted"} =>
       Unspent(e) /\ launched[p] = 0 /\ durable[p] = 0 /\ batch[p] = NoBatch
  /\ e.st \in {"accepted", "running"} => Unspent(e) /\ e.reserved = e.cost /\ e.reps > 0
  /\ e.st \in Recoverable =>
       /\ launched[p] <= e.consumed + e.reserved
       /\ e.consumed <= batch[p].conf
       /\ e.resolution = "none"
  /\ e.st \in Terminal =>
       /\ e.reserved = 0
       /\ launched[p] <= e.consumed + ReleasedUnits(e)
       /\ e.consumed <= durable[p] + ForcedUnits(e)
  /\ e.st \in {"completed", "interrupted"} => launched[p] = e.consumed
  /\ e.st = "completed" => e.consumed = e.cost
  /\ batch[p].status = "success" => batch[p].unc = 0 /\ batch[p].conf = e.cost

LedgerInv == \A p \in Ids : Justified(session.ledger[p], p)

(* The batch a process runs for the entry e of proposal p. *)
RunInv(q, p, e) ==
  /\ run[q].conf <= durable[p]
  /\ run[q].planned <= e.cost
  /\ run[q].ok => run[q].unc = 0 /\ (run[q].status = "running" => run[q].planned = e.cost)
  /\ pc[q] \in {"loop", "child"} => batch[p] = Persisted(run[q])
  /\ pc[q] \in {"loop", "persist"} =>
       /\ run[q].status \in {"running", "interrupted"}
       /\ launched[p] = run[q].conf + run[q].unc
       /\ launched[p] <= run[q].planned
  /\ pc[q] \in {"child", "persist"} => batch[p].status = "running"
  /\ pc[q] = "persist" => launched[p] = batch[p].conf + batch[p].unc + 1
  /\ pc[q] = "child" =>
       /\ run[q].status = "running"
       /\ launched[p] = run[q].conf + run[q].unc + 1
       /\ launched[p] <= run[q].planned

(* What the process that holds the lock knows: its copy differs from       *)
(* session.json in its own proposal only.                                  *)
Holder(q) ==
  /\ pc[q] # "save_rejection" => cur[q] \in Ids
  /\ \A p \in Ids : p # cur[q] => mem[q].ledger[p] = session.ledger[p]
  /\ pc[q] = "save_rejection" => mem[q].ledger = session.ledger
  /\ pc[q] \in {"mkdir", "save_accepted"} =>
       session.ledger[cur[q]].st = "absent" /\ mem[q].ledger[cur[q]].st = "accepted"
  /\ pc[q] = "save_running" => session.ledger[cur[q]].st = "accepted"
  /\ pc[q] \in BatchPhase \cup {"settle", "settle_error"} => session.ledger[cur[q]].st = "running"
  /\ pc[q] \in BatchPhase \cup {"settle", "settle_error", "save_running"} =>
       mem[q].ledger[cur[q]] = session.ledger[cur[q]]
  /\ pc[q] \in {"mkdir", "save_accepted", "save_final"} =>
       Justified(mem[q].ledger[cur[q]], cur[q])
  /\ pc[q] = "save_final" => session.ledger[cur[q]].st \in Recoverable
  /\ pc[q] = "open" => batch[cur[q]] = NoBatch /\ launched[cur[q]] = 0
  /\ pc[q] \in {"loop", "child", "persist"} => RunInv(q, cur[q], session.ledger[cur[q]])
  /\ pc[q] = "settle" =>
       batch[cur[q]] = Persisted(run[q]) /\ run[q].status \in FinalBatch

HolderInv == \A q \in Procs : pc[q] \in Active => Holder(q)

IInv == TypeOK /\ LockInv /\ BatchInv /\ LedgerInv /\ HolderInv
-----------------------------------------------------------------------------
(* Updating one record, and recomputing the budget, changes nothing else. *)
LEMMA WithEntryIs ==
  ASSUME NEW s, IsSession(s), NEW p \in Ids, NEW e \in Entry
  PROVE  /\ IsSession(WithEntry(s, p, e))
         /\ WithEntry(s, p, e).ledger = [s.ledger EXCEPT ![p] = e]
         /\ WithEntry(s, p, e).rejected = s.rejected
         /\ WithEntry(s, p, e).seen = s.seen
<1> DEFINE t == [s EXCEPT !.ledger[p] = e]
<1>1. /\ t = [ledger |-> [s.ledger EXCEPT ![p] = e], rejected |-> s.rejected,
             seen |-> s.seen, remaining |-> s.remaining]
  BY DEF IsSession
<1>2. PICK n : Rebudget(t) = [t EXCEPT !.remaining = n]
  BY DEF Rebudget
<1>3. Rebudget(t) = [ledger |-> [s.ledger EXCEPT ![p] = e], rejected |-> s.rejected,
                     seen |-> s.seen, remaining |-> n]
  BY <1>1, <1>2
<1>4. [s.ledger EXCEPT ![p] = e] \in [Ids -> Entry]
  BY DEF IsSession
<1> QED
  BY <1>3, <1>4 DEF IsSession, WithEntry
-----------------------------------------------------------------------------
(* Only one process is active at a time. *)
LEMMA OneHolder ==
  ASSUME LockInv, NEW q \in Procs, NEW r \in Procs,
         pc[q] \in Active \cup {"orphan"}, pc[r] \in Active \cup {"orphan"}
  PROVE  q = r
  BY DEF LockInv

(* A step that writes no file and lets no process get ahead. *)
LEMMA Quiet ==
  ASSUME IInv, TypeOK', LockInv', session'.ledger = session.ledger,
         UNCHANGED <<batch, launched, durable>>,
         \A r \in Procs : pc'[r] \in Active =>
           pc'[r] = pc[r] /\ cur'[r] = cur[r] /\ mem'[r] = mem[r] /\ run'[r] = run[r]
  PROVE  IInv'
<1>1. BatchInv'
  BY DEF IInv, BatchInv
<1>2. \A e, p : Justified(e, p)' <=> Justified(e, p)
  BY DEF Justified
<1>3. LedgerInv'
  BY <1>2 DEF IInv, LedgerInv
<1>4. HolderInv'
  <2> SUFFICES ASSUME NEW r \in Procs, pc'[r] \in Active PROVE Holder(r)'
    BY DEF HolderInv
  <2>1. Holder(r) /\ pc'[r] = pc[r] /\ cur'[r] = cur[r] /\ mem'[r] = mem[r] /\ run'[r] = run[r]
    BY DEF IInv, HolderInv
  <2>2. \A p, e : RunInv(r, p, e)' <=> RunInv(r, p, e)
    BY <2>1 DEF RunInv, Persisted
  <2> QED
    BY <1>2, <2>1, <2>2 DEF Holder, Persisted
<1> QED
  BY <1>1, <1>3, <1>4 DEF IInv

(* A freshly created session satisfies the invariant.                       *)
LEMMA InitHolds == ASSUME Init PROVE IInv
<1>1. IsSession(Fresh)
  BY DEF IsSession, Fresh, Absent, Entry, Terminal, Recoverable, Resolutions
<1>2. TypeOK
  BY <1>1 DEF Init, TypeOK, Entry, Absent, Terminal, Recoverable, Resolutions,
       BatchRecord, NoBatch, FinalBatch, RunRecord, NoRun
<1>3. LockInv /\ HolderInv
  BY DEF Init, LockInv, HolderInv, Active, BatchPhase, SubmitPhase
<1>4. BatchInv
  BY DEF Init, BatchInv, NoBatch, FinalBatch
<1>5. LedgerInv
  BY DEF Init, LedgerInv, Justified, Fresh, Absent, Unspent, NoBatch, Terminal, Recoverable
<1> QED
  BY <1>2, <1>3, <1>4, <1>5 DEF IInv
-----------------------------------------------------------------------------
(* Steps that end the work of a process: its copy is dropped. *)
LEMMA UnlockTypes ==
  ASSUME TypeOK, NEW q \in Procs, Unlock(q),
         IsSession(session'), dirs' = dirs, UNCHANGED <<rec, batch, worker, launched, durable>>
  PROVE  TypeOK'
<1>1. IsSession(Fresh)
  BY DEF IsSession, Fresh, Absent, Entry, Terminal, Recoverable, Resolutions
<1>2. mem' = [r \in Procs |-> mem'[r]] /\ \A r \in Procs : IsSession(mem'[r])
  BY <1>1 DEF Unlock, Forget, TypeOK
<1>3. /\ lock' \in Procs \cup {NoProc}
      /\ pc' \in [Procs -> Active \cup {"idle", "linger", "orphan"}]
      /\ cur' \in [Procs -> Ids \cup {NoId}]
  BY DEF Unlock, Forget, TypeOK
<1>4. run' \in [Procs -> RunRecord]
  BY DEF Unlock, Forget, TypeOK, RunRecord, NoRun, FinalBatch
<1> QED
  BY <1>2, <1>3, <1>4 DEF TypeOK, IsSession

(* Releasing the lock leaves no process active, and no orphan.              *)
LEMMA UnlockKeepsLock ==
  ASSUME TypeOK, LockInv, NEW q \in Procs, pc[q] \in Active, pc[q] # "child", Unlock(q),
         worker' = worker
  PROVE  LockInv'
<1>1. /\ worker[q] \notin {"running", "torn"} /\ pc'[q] \notin Active \cup {"orphan"}
      /\ worker[q] = "survivor" => pc'[q] = "linger"
  BY DEF LockInv, Unlock, TypeOK, Active, BatchPhase, SubmitPhase
<1>2. \A r \in Procs \ {q} : pc'[r] = pc[r] /\ pc[r] \notin Active \cup {"orphan"}
  BY OneHolder DEF Unlock, TypeOK
<1> QED
  BY <1>1, <1>2 DEF LockInv, Active, BatchPhase

(* A process that releases the lock and writes nothing gets nobody ahead.   *)
LEMMA UnlockIsQuiet ==
  ASSUME TypeOK, LockInv, NEW q \in Procs, pc[q] \in Active, Unlock(q)
  PROVE  \A r \in Procs : pc'[r] \notin Active
<1>1. \A r \in Procs \ {q} : pc'[r] = pc[r] /\ pc[r] \notin Active
  BY OneHolder DEF Unlock, TypeOK
<1> QED
  BY <1>1 DEF Unlock, TypeOK, Active, BatchPhase, SubmitPhase

(* An exception outside the batch call keeps the invariant.                 *)
LEMMA EscapeStep == ASSUME IInv, NEW q \in Procs, Escape(q) PROVE IInv'
<1>1. TypeOK'
  BY UnlockTypes DEF IInv, Escape, TypeOK
<1>2. pc[q] \in Active /\ pc[q] # "child"
  BY DEF Escape, Active, BatchPhase, SubmitPhase
<1>3. LockInv' /\ \A r \in Procs : pc'[r] \notin Active
  BY <1>2, UnlockKeepsLock, UnlockIsQuiet DEF IInv, Escape
<1> QED
  BY <1>1, <1>3, Quiet DEF Escape

(* A command that dies on an existing proposal directory keeps the          *)
(* invariant.                                                               *)
LEMMA DirectoryExistsStep == ASSUME IInv, NEW q \in Procs, DirectoryExists(q) PROVE IInv'
<1>1. TypeOK'
  BY UnlockTypes DEF IInv, DirectoryExists, TypeOK
<1>2. pc[q] \in Active /\ pc[q] # "child"
  BY DEF DirectoryExists, Active, BatchPhase, SubmitPhase
<1>3. LockInv' /\ \A r \in Procs : pc'[r] \notin Active
  BY <1>2, UnlockKeepsLock, UnlockIsQuiet DEF IInv, DirectoryExists
<1> QED
  BY <1>1, <1>3, Quiet DEF DirectoryExists

(* Saving a rejected proposal id keeps the invariant: no record changes.    *)
LEMMA SaveRejectionStep == ASSUME IInv, NEW q \in Procs, SaveRejection(q) PROVE IInv'
<1>1. TypeOK'
  BY UnlockTypes DEF IInv, SaveRejection, TypeOK
<1>2. pc[q] \in Active /\ pc[q] # "child"
  BY DEF SaveRejection, Active, BatchPhase, SubmitPhase
<1>3. LockInv' /\ \A r \in Procs : pc'[r] \notin Active
  BY <1>2, UnlockKeepsLock, UnlockIsQuiet DEF IInv, SaveRejection
<1>4. session'.ledger = session.ledger
  BY <1>2 DEF IInv, HolderInv, Holder, SaveRejection
<1> QED
  BY <1>1, <1>3, <1>4, Quiet DEF SaveRejection

(* The death of a controller keeps the invariant: its worker keeps the      *)
(* flock.                                                                   *)
LEMMA KillStep == ASSUME IInv, NEW q \in Procs, Kill(q) PROVE IInv'
<1>1. IsSession(Fresh)
  BY DEF IsSession, Fresh, Absent, Entry, Terminal, Recoverable, Resolutions
<1>2. mem' = [r \in Procs |-> mem'[r]] /\ \A r \in Procs : IsSession(mem'[r])
  BY <1>1 DEF IInv, Kill, Forget, TypeOK
<1>3. run' \in [Procs -> RunRecord]
  BY DEF IInv, Kill, Forget, TypeOK, RunRecord, NoRun, FinalBatch
<1>4. TypeOK'
  BY <1>2, <1>3 DEF IInv, Kill, Forget, TypeOK, IsSession
<1>5. \A r \in Procs \ {q} : pc'[r] = pc[r] /\ pc[r] \notin Active \cup {"orphan"}
  BY OneHolder DEF IInv, Kill, TypeOK
<1>6. pc'[q] \notin Active /\ (pc'[q] = "orphan" => lock' = q)
  BY DEF IInv, Kill, TypeOK, LockInv, Active, BatchPhase, SubmitPhase
<1>7. /\ worker'[q] \in {"none", "running", "survivor"} /\ (worker'[q] # "none" => pc'[q] = "orphan")
      /\ \A r \in Procs \ {q} : worker'[r] = worker[r]
  BY DEF IInv, Kill, TypeOK, OnGpu
<1>8. LockInv'
  BY <1>5, <1>6, <1>7 DEF IInv, LockInv, Active, BatchPhase
<1> QED
  BY <1>4, <1>5, <1>6, <1>8, Quiet DEF Kill

(* A worker that dies inside its payload keeps the invariant: the runner    *)
(* goes on waiting for it.                                                  *)
LEMMA TearStep == ASSUME IInv, NEW q \in Procs, Tear(q) PROVE IInv'
<1>1. TypeOK'
  BY DEF IInv, Tear, TypeOK, IsSession
<1>2. LockInv'
  BY DEF IInv, Tear, TypeOK, LockInv
<1> QED
  BY <1>1, <1>2, Quiet DEF Tear

(* The end of an orphan or surviving worker keeps the invariant.            *)
LEMMA WorkerExitStep == ASSUME IInv, NEW q \in Procs, WorkerExit(q) PROVE IInv'
<1>1. TypeOK'
  BY DEF IInv, WorkerExit, TypeOK, IsSession
<1>2. \A r \in Procs : pc'[r] \in Active \cup {"orphan"} => pc'[r] = pc[r]
  BY DEF IInv, WorkerExit, TypeOK, Active, BatchPhase, SubmitPhase
<1>3. pc'[q] # "orphan"
  BY DEF IInv, WorkerExit, TypeOK
<1>4. \A r \in Procs \ {q} : pc[r] \in Active \cup {"orphan"} => lock' = r
  <2> SUFFICES ASSUME NEW r \in Procs \ {q}, pc[r] \in Active \cup {"orphan"} PROVE lock' = r
    OBVIOUS
  <2>1. pc[q] # "orphan"
    BY OneHolder DEF IInv
  <2> QED
    BY <2>1 DEF IInv, WorkerExit, LockInv
<1>5. pc[q] \in Active => lock' = q
  BY DEF IInv, WorkerExit, LockInv, Active, BatchPhase, SubmitPhase
<1>6. \A r \in Procs : worker'[r] # "none" => r # q /\ pc'[r] = pc[r] /\ worker'[r] = worker[r]
  BY DEF IInv, WorkerExit, TypeOK
<1>7. LockInv'
  BY <1>2, <1>3, <1>4, <1>5, <1>6 DEF IInv, LockInv
<1> QED
  BY <1>1, <1>2, <1>7, Quiet DEF WorkerExit
-----------------------------------------------------------------------------
(* Steps of the process that holds the lock, or takes it. *)
LEMMA NobodyActive ==
  ASSUME TypeOK, LockInv, Free, ConstantsOK
  PROVE  \A r \in Procs : pc[r] \notin Active \cup {"orphan"}
  BY DEF TypeOK, LockInv, Free, ConstantsOK

(* q moves on to a working phase and keeps, or has just taken, the lock. *)
Works(q, phase) ==
  /\ phase \in Active
  /\ pc' = [pc EXCEPT ![q] = phase]
  /\ lock' = q
  /\ \A r \in Procs \ {q} : worker'[r] = worker[r]
  /\ worker'[q] \in {"running", "torn"} => phase = "child"
  /\ \A r \in Procs \ {q} : pc[r] \notin Active \cup {"orphan"}

(* While a process is active it holds the lock and all the others rest.     *)
LEMMA OthersRest ==
  ASSUME LockInv, NEW q \in Procs, pc[q] \in Active
  PROVE  lock = q /\ \A r \in Procs \ {q} : pc[r] \notin Active \cup {"orphan"}
  BY OneHolder DEF LockInv

(* What a step of the lock holder has to establish: its own part of the     *)
(* invariant.                                                               *)
LEMMA WorkingStep ==
  ASSUME IInv, NEW q \in Procs, NEW phase, Works(q, phase), TypeOK', BatchInv', LedgerInv',
         Holder(q)'
  PROVE  IInv'
<1>1. \A r \in Procs \ {q} : pc'[r] = pc[r]
  BY DEF Works, IInv, TypeOK
<1>2. pc'[q] = phase
  BY DEF Works, IInv, TypeOK
<1>3. LockInv'
  <2> SUFFICES ASSUME NEW r \in Procs
               PROVE  /\ pc'[r] \in Active \cup {"orphan"} => lock' = r
                      /\ worker'[r] = "running" => pc'[r] \in {"child", "orphan"}
                      /\ worker'[r] = "torn" => pc'[r] = "child"
                      /\ worker'[r] = "survivor" => pc'[r] \in Active \cup {"orphan", "linger"}
    BY DEF LockInv, Active, BatchPhase, SubmitPhase
  <2>1. CASE r = q
    BY <2>1, <1>2 DEF Works
  <2>2. CASE r # q
    BY <2>2, <1>1 DEF Works, IInv, LockInv
  <2> QED
    BY <2>1, <2>2
<1>4. HolderInv'
  BY <1>1 DEF HolderInv, Works, Active, BatchPhase, SubmitPhase
<1> QED
  BY <1>3, <1>4 DEF IInv

(* Files and history that stay as they are keep their invariants. *)
LEMMA SameFiles ==
  ASSUME IInv, UNCHANGED <<session, batch, launched, durable>>
  PROVE  BatchInv' /\ LedgerInv' /\ \A e, p : Justified(e, p)' <=> Justified(e, p)
<1>1. \A e, p : Justified(e, p)' <=> Justified(e, p)
  BY DEF Justified
<1> QED
  BY <1>1 DEF IInv, BatchInv, LedgerInv

(* Updating the rejected ids or the fingerprints of a session leaves its    *)
(* records alone.                                                           *)
LEMMA RecordUpdates ==
  ASSUME NEW s, IsSession(s), NEW x
  PROVE  /\ [s EXCEPT !.rejected = x] =
              [ledger |-> s.ledger, rejected |-> x, seen |-> s.seen, remaining |-> s.remaining]
         /\ [s EXCEPT !.seen = x] =
              [ledger |-> s.ledger, rejected |-> s.rejected, seen |-> x, remaining |-> s.remaining]
  BY DEF IsSession

(* Refusing a proposal keeps the invariant.                                 *)
LEMMA BeginRejectionStep ==
  ASSUME IInv, ConstantsOK, NEW q \in Procs, NEW sub \in Submissions, BeginRejection(q, sub)
  PROVE  IInv'
<1> DEFINE m == [session EXCEPT !.rejected = @ \cup {sub.id}]
<1>1. \A r \in Procs : pc[r] \notin Active \cup {"orphan"}
  BY NobodyActive DEF IInv, BeginRejection
<1>2. worker[q] \notin {"running", "torn"}
  BY <1>1 DEF IInv, LockInv, Active, BatchPhase
<1>3. m = [ledger |-> session.ledger, rejected |-> session.rejected \cup {sub.id},
           seen |-> session.seen, remaining |-> session.remaining]
  <2> DEFINE x == session.rejected \cup {sub.id}
  <2> HIDE DEF x
  <2>1. [session EXCEPT !.rejected = x] =
          [ledger |-> session.ledger, rejected |-> x,
           seen |-> session.seen, remaining |-> session.remaining]
    BY RecordUpdates DEF IInv, TypeOK
  <2> QED
    BY <2>1 DEF x
<1>4. IsSession(m) /\ m.ledger = session.ledger
  BY <1>3 DEF IInv, TypeOK, IsSession, ConstantsOK
<1>5. mem' = [mem EXCEPT ![q] = m]
  BY DEF BeginRejection
<1>6. mem' = [r \in Procs |-> mem'[r]] /\ (\A r \in Procs : IsSession(mem'[r])) /\ mem'[q] = m
  BY <1>4, <1>5 DEF IInv, TypeOK
<1>7. TypeOK'
  BY <1>6 DEF IInv, TypeOK, BeginRejection, IsSession, Active
<1>8. Works(q, "save_rejection")
  BY <1>1, <1>2 DEF Works, BeginRejection, Active
<1>9. Holder(q)'
  <2>1. pc'[q] = "save_rejection"
    BY DEF BeginRejection, IInv, TypeOK
  <2> QED
    BY <2>1, <1>4, <1>6 DEF Holder, BeginRejection, BatchPhase
<1> QED
  BY <1>7, <1>8, <1>9, SameFiles, WorkingStep DEF BeginRejection

(* The record of a newly accepted proposal reserves its whole cost and is   *)
(* justified by files that do not exist yet.                                *)
LEMMA AcceptedIsJustified ==
  ASSUME ConstantsOK, NEW s, NEW sub \in Submissions, ~Invalid(s, sub)
  PROVE  /\ sub.id \in Ids
         /\ s.ledger[sub.id].st = "absent"
         /\ Accepted(sub) \in Entry
         /\ Accepted(sub).st = "accepted"
         /\ Unspent(Accepted(sub))
         /\ Accepted(sub).reserved = Accepted(sub).cost
         /\ Accepted(sub).reps > 0
         /\ {sub.cands[i].fp : i \in DOMAIN sub.cands} \subseteq Fingerprints
<1>1. sub.wellformed /\ sub.id \in Ids /\ sub.reps \in Nat \ {0} /\ Cost(sub) \in Nat
  BY DEF ConstantsOK, Invalid, Unacceptable, Cost
<1>2. s.ledger[sub.id].st = "absent"
  BY <1>1 DEF Invalid, Unacceptable, UsedIds, Proposals
<1>3. Accepted(sub) = [st |-> "accepted", cost |-> Cost(sub), reps |-> sub.reps, consumed |-> 0,
                       reserved |-> Cost(sub), linked |-> FALSE, results |-> 0,
                       resolution |-> "none", units |-> 0]
  BY DEF Accepted
<1>4. {sub.cands[i].fp : i \in DOMAIN sub.cands} \subseteq Fingerprints
  BY DEF Fingerprints
<1> QED
  BY <1>1, <1>2, <1>3, <1>4 DEF Entry, Unspent, Recoverable, Resolutions

(* Accepting a proposal in memory keeps the invariant.                      *)
LEMMA BeginSubmissionStep ==
  ASSUME IInv, ConstantsOK, NEW q \in Procs, NEW sub \in Submissions, BeginSubmission(q, sub)
  PROVE  IInv'
<1> DEFINE fps == {sub.cands[i].fp : i \in DOMAIN sub.cands}
           w == WithEntry(session, sub.id, Accepted(sub))
           m == [w EXCEPT !.seen = @ \cup fps]
<1> HIDE DEF fps, w, m
<1>1. \A r \in Procs : pc[r] \notin Active \cup {"orphan"}
  BY NobodyActive DEF IInv, BeginSubmission
<1>2. worker[q] \notin {"running", "torn"}
  BY <1>1 DEF IInv, LockInv, Active, BatchPhase
<1>3. /\ sub.id \in Ids
      /\ session.ledger[sub.id].st = "absent"
      /\ Accepted(sub) \in Entry
      /\ Accepted(sub).st = "accepted"
      /\ Unspent(Accepted(sub))
      /\ Accepted(sub).reserved = Accepted(sub).cost
      /\ Accepted(sub).reps > 0
      /\ fps \subseteq Fingerprints
  BY AcceptedIsJustified DEF BeginSubmission, fps
<1>4. IsSession(w) /\ w.ledger = [session.ledger EXCEPT ![sub.id] = Accepted(sub)]
  BY <1>3, WithEntryIs DEF IInv, TypeOK, w
<1>5. m = [ledger |-> w.ledger, rejected |-> w.rejected,
           seen |-> w.seen \cup fps, remaining |-> w.remaining]
  <2> DEFINE x == w.seen \cup fps
  <2> HIDE DEF x
  <2>1. [w EXCEPT !.seen = x] =
          [ledger |-> w.ledger, rejected |-> w.rejected, seen |-> x, remaining |-> w.remaining]
    BY <1>4, RecordUpdates
  <2> QED
    BY <2>1 DEF x, m
<1>6. IsSession(m) /\ m.ledger = w.ledger
  BY <1>3, <1>4, <1>5 DEF IsSession
<1>7. mem' = [mem EXCEPT ![q] = m]
  BY DEF BeginSubmission, fps, w, m
<1>8. mem' = [r \in Procs |-> mem'[r]] /\ (\A r \in Procs : IsSession(mem'[r])) /\ mem'[q] = m
  BY <1>6, <1>7 DEF IInv, TypeOK
<1>9. TypeOK'
  BY <1>3, <1>8 DEF IInv, TypeOK, BeginSubmission, IsSession, Active, SubmitPhase
<1>10. Works(q, "mkdir")
  BY <1>1, <1>2 DEF Works, BeginSubmission, Active, SubmitPhase
<1>11. Justified(Accepted(sub), sub.id)
  BY <1>3 DEF IInv, LedgerInv, Justified, Terminal, Recoverable, NoBatch, Unspent, Entry
<1>12. Holder(q)'
  <2>1. pc'[q] = "mkdir" /\ cur'[q] = sub.id
    BY DEF BeginSubmission, IInv, TypeOK
  <2>2. mem'[q].ledger = [session.ledger EXCEPT ![sub.id] = Accepted(sub)]
    BY <1>4, <1>6, <1>8
  <2>3. session.ledger \in [Ids -> Entry]
    BY DEF IInv, TypeOK, IsSession
  <2>4. Justified(Accepted(sub), sub.id)'
    BY <1>11, SameFiles DEF BeginSubmission
  <2> QED
    BY <2>1, <2>2, <2>3, <2>4, <1>3 DEF Holder, BeginSubmission, BatchPhase
<1> QED
  BY <1>9, <1>10, <1>12, SameFiles, WorkingStep DEF BeginSubmission
-----------------------------------------------------------------------------
(* Saving the accepted and the running record. *)
LEMMA MakeDirectoryStep == ASSUME IInv, NEW q \in Procs, MakeDirectory(q) PROVE IInv'
<1>1. pc[q] \in Active /\ pc[q] # "child" /\ Holder(q)
  BY DEF IInv, HolderInv, MakeDirectory, Active, BatchPhase, SubmitPhase
<1>2. TypeOK'
  BY <1>1 DEF IInv, TypeOK, IsSession, MakeDirectory, Holder, Active, SubmitPhase
<1>3. worker[q] \notin {"running", "torn"}
  BY <1>1 DEF IInv, LockInv, Active, BatchPhase, SubmitPhase
<1>4. Works(q, "save_accepted")
  BY <1>1, <1>3, OthersRest DEF IInv, Works, MakeDirectory, Active, SubmitPhase
<1>5. Holder(q)'
  <2>1. pc'[q] = "save_accepted" /\ pc[q] = "mkdir"
    BY DEF MakeDirectory, IInv, TypeOK
  <2> QED
    BY <2>1, <1>1, SameFiles DEF Holder, MakeDirectory, BatchPhase
<1> QED
  BY <1>2, <1>4, <1>5, SameFiles, WorkingStep DEF MakeDirectory

(* Saving the accepted record keeps the invariant: nothing ran for it.      *)
LEMMA SaveAcceptedStep == ASSUME IInv, NEW q \in Procs, SaveAccepted(q) PROVE IInv'
<1>1. pc[q] \in Active /\ pc[q] = "save_accepted" /\ Holder(q) /\ pc'[q] = "save_running"
  BY DEF IInv, HolderInv, SaveAccepted, Active, SubmitPhase, TypeOK
<1>2. TypeOK'
  BY DEF IInv, TypeOK, IsSession, SaveAccepted, Active, SubmitPhase
<1>3. worker[q] \notin {"running", "torn"}
  BY <1>1 DEF IInv, LockInv
<1>4. Works(q, "save_running")
  BY <1>1, <1>3, OthersRest DEF IInv, Works, SaveAccepted, Active, SubmitPhase
<1>5. \A e, p : Justified(e, p)' <=> Justified(e, p)
  BY DEF Justified, SaveAccepted
<1>6. BatchInv'
  BY DEF IInv, BatchInv, SaveAccepted
<1>7. LedgerInv'
  BY <1>1, <1>5 DEF IInv, LedgerInv, Holder, SaveAccepted
<1>8. Holder(q)'
  BY <1>1, <1>5 DEF Holder, SaveAccepted, BatchPhase
<1> QED
  BY <1>2, <1>4, <1>6, <1>7, <1>8, WorkingStep

(* Saving the running record keeps the invariant: its reservation stays     *)
(* whole.                                                                   *)
LEMMA SaveRunningStep == ASSUME IInv, NEW q \in Procs, SaveRunning(q) PROVE IInv'
<1> DEFINE p == cur[q]
           e == [session.ledger[p] EXCEPT !.st = "running"]
           m == [mem[q] EXCEPT !.ledger[p].st = "running"]
<1>1. /\ pc[q] \in Active /\ pc[q] = "save_running" /\ Holder(q) /\ pc'[q] = "open"
      /\ p \in Ids /\ session.ledger[p].st = "accepted"
      /\ mem[q].ledger[p] = session.ledger[p]
  BY DEF IInv, HolderInv, Holder, SaveRunning, Active, SubmitPhase, TypeOK
<1>2. session.ledger[p] \in Entry /\ IsSession(mem[q]) /\ mem[q].ledger = session.ledger
  BY <1>1 DEF IInv, TypeOK, IsSession, Holder
<1>3. /\ e \in Entry /\ e.st = "running"
      /\ e.cost = session.ledger[p].cost /\ e.reps = session.ledger[p].reps
      /\ e.consumed = session.ledger[p].consumed /\ e.reserved = session.ledger[p].reserved
      /\ e.resolution = session.ledger[p].resolution
  BY <1>2 DEF Entry, Recoverable
<1>4. /\ m = [ledger |-> [session.ledger EXCEPT ![p] = e], rejected |-> mem[q].rejected,
              seen |-> mem[q].seen, remaining |-> mem[q].remaining]
  BY <1>2 DEF IsSession
<1>5. IsSession(m) /\ m.ledger = [session.ledger EXCEPT ![p] = e]
  BY <1>2, <1>3, <1>4 DEF IsSession
<1>6. mem' = [mem EXCEPT ![q] = m] /\ mem'[q] = m /\ session' = m
  BY DEF SaveRunning, IInv, TypeOK
<1>7. mem' = [r \in Procs |-> mem'[r]] /\ (\A r \in Procs : IsSession(mem'[r]))
  BY <1>5, <1>6 DEF IInv, TypeOK
<1>8. TypeOK'
  BY <1>5, <1>6, <1>7 DEF IInv, TypeOK, IsSession, SaveRunning, Active, BatchPhase
<1>9. worker[q] \notin {"running", "torn"}
  BY <1>1 DEF IInv, LockInv
<1>10. Works(q, "open")
  BY <1>1, <1>9, OthersRest DEF IInv, Works, SaveRunning, Active, BatchPhase
<1>11. Justified(e, p)
  BY <1>1, <1>2, <1>3 DEF IInv, LedgerInv, Justified, Unspent, Terminal, Recoverable, NoBatch,
       Entry
<1>12. \A f, x : Justified(f, x)' <=> Justified(f, x)
  BY DEF Justified, SaveRunning
<1>13. BatchInv'
  BY DEF IInv, BatchInv, SaveRunning
<1>14. session.ledger \in [Ids -> Entry]
  BY DEF IInv, TypeOK, IsSession
<1>15. LedgerInv'
  BY <1>5, <1>6, <1>11, <1>12, <1>14 DEF IInv, LedgerInv
<1>16. Holder(q)'
  <2>1. batch[p] = NoBatch /\ launched[p] = 0
    BY <1>1 DEF IInv, LedgerInv, Justified
  <2>2. session'.ledger = [session.ledger EXCEPT ![p] = e] /\ mem'[q].ledger = session'.ledger
    BY <1>5, <1>6
  <2>3. session'.ledger[p].st = "running"
    BY <2>2, <1>1, <1>3, <1>14
  <2>4. cur'[q] = p /\ batch' = batch /\ launched' = launched
    BY DEF SaveRunning
  <2> QED
    BY <2>1, <2>2, <2>3, <2>4, <1>1 DEF Holder, BatchPhase
<1> QED
  BY <1>8, <1>10, <1>13, <1>15, <1>16, WorkingStep
-----------------------------------------------------------------------------
(* The batch.  While it runs, session.json does not change. *)

(* The files of the other proposals stay as they are. *)
OnlyBatchOf(p) ==
  /\ session' = session
  /\ \A x \in Ids : x # p =>
       batch'[x] = batch[x] /\ launched'[x] = launched[x] /\ durable'[x] = durable[x]

(* A step of one batch leaves the evidence and records of all the other     *)
(* proposals alone.                                                         *)
LEMMA BatchFrame ==
  ASSUME IInv, NEW p \in Ids, OnlyBatchOf(p)
  PROVE  \A x \in Ids : x # p =>
              /\ batch'[x].conf + batch'[x].unc <= launched'[x]
              /\ batch'[x].conf <= durable'[x]
              /\ batch'[x].status \in FinalBatch => batch'[x].conf + batch'[x].unc = launched'[x]
              /\ Justified(session.ledger[x], x)'
<1> SUFFICES ASSUME NEW x \in Ids, x # p
             PROVE  /\ batch'[x].conf + batch'[x].unc <= launched'[x]
                    /\ batch'[x].conf <= durable'[x]
                    /\ batch'[x].status \in FinalBatch =>
                          batch'[x].conf + batch'[x].unc = launched'[x]
                    /\ Justified(session.ledger[x], x)'
  OBVIOUS
<1>1. /\ session' = session
      /\ batch'[x] = batch[x] /\ launched'[x] = launched[x] /\ durable'[x] = durable[x]
  BY DEF OnlyBatchOf
<1>2. Justified(session.ledger[x], x)
  BY DEF IInv, LedgerInv
<1>3. Justified(session.ledger[x], x)'
  BY <1>1, <1>2 DEF Justified
<1> QED
  BY <1>1, <1>3 DEF IInv, BatchInv

(* A process that works on a batch: its proposal is running, unspent, and  *)
(* reserved in full.                                                       *)
LEMMA BatchPremise ==
  ASSUME IInv, NEW q \in Procs, pc[q] \in BatchPhase \cup {"settle", "settle_error"}
  PROVE  \E p \in Ids : \E e \in Entry :
            /\ p = cur[q] /\ e = session.ledger[p]
            /\ pc[q] \in Active /\ Holder(q)
            /\ e.st = "running" /\ mem[q].ledger = session.ledger
            /\ e.consumed = 0 /\ e.reserved = e.cost /\ e.resolution = "none" /\ e.reps > 0
            /\ launched[p] \in Nat /\ durable[p] \in Nat /\ launched[p] <= e.cost
            /\ batch[p] \in BatchRecord /\ run[q] \in RunRecord
            /\ batch[p].conf + batch[p].unc <= launched[p]
            /\ batch[p].conf <= durable[p]
<1>1. pc[q] \in Active
  BY DEF Active, BatchPhase, SubmitPhase
<1>2. Holder(q) /\ cur[q] \in Ids /\ session.ledger[cur[q]].st = "running"
  BY <1>1 DEF IInv, HolderInv, Holder, BatchPhase
<1>3. session.ledger[cur[q]] \in Entry
  BY <1>2 DEF IInv, TypeOK, IsSession
<1>4. PICK p \in Ids, e \in Entry : p = cur[q] /\ e = session.ledger[p]
  BY <1>2, <1>3
<1>5. mem[q].ledger = session.ledger
  <2>1. mem[q].ledger \in [Ids -> Entry] /\ session.ledger \in [Ids -> Entry]
    BY DEF IInv, TypeOK, IsSession
  <2>2. \A x \in Ids : mem[q].ledger[x] = session.ledger[x]
    BY <1>2 DEF Holder
  <2> QED
    BY <2>1, <2>2
<1>6. Justified(e, p)
  BY <1>4 DEF IInv, LedgerInv
<1>7. /\ launched[p] \in Nat /\ durable[p] \in Nat
      /\ batch[p] \in BatchRecord /\ run[q] \in RunRecord
  BY DEF IInv, TypeOK
<1>8. batch[p].conf + batch[p].unc <= launched[p] /\ batch[p].conf <= durable[p]
  BY DEF IInv, BatchInv
<1>9. e.consumed = 0 /\ e.reserved = e.cost /\ e.resolution = "none" /\ e.reps > 0
      /\ launched[p] <= e.cost
  BY <1>2, <1>4, <1>6, <1>7 DEF Justified, Unspent, Recoverable, Entry
<1> QED
  BY <1>1, <1>2, <1>4, <1>5, <1>7, <1>8, <1>9

(* What a step of the batch of q has to establish. *)
LEMMA BatchStep ==
  ASSUME IInv, NEW q \in Procs, NEW p \in Ids, NEW e \in Entry, NEW phase,
         p = cur[q], e = session.ledger[p], pc[q] \in BatchPhase,
         phase \in {"loop", "child", "persist", "settle", "settle_error"},
         OnlyBatchOf(p), mem' = mem, cur' = cur, Works(q, phase), TypeOK',
         launched'[p] <= e.cost,
         batch'[p].conf + batch'[p].unc <= launched'[p],
         batch'[p].conf <= durable'[p],
         batch'[p].status \in FinalBatch => batch'[p].conf + batch'[p].unc = launched'[p],
         batch'[p].status = "success" => batch'[p].unc = 0 /\ batch'[p].conf = e.cost,
         phase \in {"loop", "child", "persist"} => RunInv(q, p, e)',
         phase = "settle" => batch'[p] = Persisted(run[q])' /\ run'[q].status \in FinalBatch
  PROVE  IInv'
<1>1. /\ pc[q] \in Active /\ Holder(q)
      /\ e.st = "running" /\ mem[q].ledger = session.ledger
      /\ e.consumed = 0 /\ e.reserved = e.cost /\ e.resolution = "none" /\ e.reps > 0
  BY BatchPremise
<1>2. pc'[q] = phase /\ cur'[q] = p /\ mem'[q] = mem[q] /\ session' = session
  BY DEF Works, IInv, TypeOK, OnlyBatchOf
<1>3. BatchInv'
  BY BatchFrame DEF BatchInv
<1>4. launched'[p] \in Nat /\ batch'[p] \in BatchRecord
  BY DEF TypeOK
<1>5. Justified(e, p)'
  <2>1. batch'[p].conf \in Nat
    BY <1>4 DEF BatchRecord
  <2> QED
    BY <1>1, <1>4, <2>1 DEF Justified, Unspent, Recoverable, Terminal, Entry
<1>6. LedgerInv'
  <2> SUFFICES ASSUME NEW x \in Ids PROVE Justified(session.ledger[x], x)'
    BY DEF LedgerInv
  <2>1. CASE x = p
    BY <2>1, <1>2, <1>5
  <2>2. CASE x # p
    BY <2>2, BatchFrame
  <2> QED
    BY <2>1, <2>2
<1>7. Holder(q)'
  BY <1>1, <1>2 DEF Holder, BatchPhase
<1> QED
  BY <1>3, <1>6, <1>7, WorkingStep

(* The record a batch persists has the type of a batch file.                *)
LEMMA RunTypes ==
  ASSUME NEW r \in RunRecord
  PROVE  /\ Persisted(r) \in BatchRecord
         /\ r.conf \in Nat /\ r.unc \in Nat /\ r.planned \in Nat /\ r.ok \in BOOLEAN
         /\ Persisted(r).status = r.status /\ Persisted(r).conf = r.conf
         /\ Persisted(r).unc = r.unc
  BY DEF Persisted, RunRecord, BatchRecord

(* Opening a batch, or refusing its invalid candidates, keeps the           *)
(* invariant.                                                               *)
LEMMA OpenBatchStep == ASSUME IInv, NEW q \in Procs, OpenBatch(q) PROVE IInv'
<1>0. pc[q] = "open" /\ pc[q] \in BatchPhase
  BY DEF OpenBatch, BatchPhase
<1>1. PICK p \in Ids, e \in Entry :
        /\ p = cur[q] /\ e = session.ledger[p]
        /\ pc[q] \in Active /\ Holder(q) /\ mem[q].ledger = session.ledger
        /\ launched[p] \in Nat /\ durable[p] \in Nat /\ launched[p] <= e.cost
  BY <1>0, BatchPremise
<1>2. PICK n \in 0 .. e.cost :
        run' = [run EXCEPT ![q] = [planned |-> n, status |-> "running",
                                   conf |-> 0, unc |-> 0, ok |-> n = e.cost]]
  BY <1>1 DEF OpenBatch
<1> DEFINE r == [planned |-> n, status |-> "running", conf |-> 0, unc |-> 0, ok |-> n = e.cost]
<1>3. n \in Nat /\ n <= e.cost
  BY DEF Entry
<1>4. r \in RunRecord
  BY <1>3 DEF RunRecord
<1>5. /\ run'[q] = r /\ run' \in [Procs -> RunRecord]
      /\ batch' = [batch EXCEPT ![p] = Persisted(r)]
  BY <1>1, <1>2, <1>4 DEF OpenBatch, IInv, TypeOK
<1> HIDE DEF r
<1>6. batch'[p] = Persisted(r) /\ batch' \in [Ids -> BatchRecord]
  BY <1>4, <1>5, RunTypes DEF IInv, TypeOK
<1>7. TypeOK'
  BY <1>5, <1>6 DEF IInv, TypeOK, IsSession, OpenBatch, Active, BatchPhase
<1>8. worker[q] \notin {"running", "torn"}
  BY <1>0 DEF IInv, LockInv
<1>9. Works(q, "loop")
  BY <1>1, <1>8, OthersRest DEF IInv, Works, OpenBatch, Active, BatchPhase
<1>10. OnlyBatchOf(p)
  BY <1>5 DEF OnlyBatchOf, OpenBatch, IInv, TypeOK
<1>11. launched[p] = 0
  BY <1>0, <1>1 DEF Holder
<1>12. UNCHANGED <<launched, durable, mem, cur, session>>
  BY DEF OpenBatch
<1>13. r.planned = n /\ r.status = "running" /\ r.conf = 0 /\ r.unc = 0 /\ (r.ok => n = e.cost)
  BY DEF r
<1>14. /\ batch'[p].status = "running" /\ batch'[p].conf = 0 /\ batch'[p].unc = 0
  BY <1>6, <1>13 DEF Persisted
<1>15. pc'[q] = "loop"
  BY DEF OpenBatch, IInv, TypeOK
<1>16. RunInv(q, p, e)'
  BY <1>1, <1>3, <1>5, <1>6, <1>11, <1>12, <1>13, <1>15 DEF RunInv, Persisted
<1> QED
  BY <1>0, <1>1, <1>7, <1>9, <1>10, <1>11, <1>12, <1>14, <1>16, BatchStep DEF FinalBatch

(* Refusing a whole batch keeps the invariant: nothing ran.                 *)
LEMMA RefuseBatchStep == ASSUME IInv, NEW q \in Procs, RefuseBatch(q) PROVE IInv'
<1>0. pc[q] = "open" /\ pc[q] \in BatchPhase
  BY DEF RefuseBatch, BatchPhase
<1>1. PICK p \in Ids, e \in Entry :
        /\ p = cur[q] /\ e = session.ledger[p]
        /\ pc[q] \in Active /\ Holder(q)
        /\ launched[p] \in Nat /\ durable[p] \in Nat /\ launched[p] <= e.cost
  BY <1>0, BatchPremise
<1> DEFINE r == [planned |-> 0, status |-> "configuration_failed", conf |-> 0, unc |-> 0, ok |-> FALSE]
<1>3. r \in RunRecord
  BY DEF RunRecord, FinalBatch
<1>4. /\ run'[q] = r /\ run' \in [Procs -> RunRecord]
      /\ batch' = [batch EXCEPT ![p] = Persisted(r)]
  BY <1>1, <1>3 DEF RefuseBatch, IInv, TypeOK
<1>5. r.status = "configuration_failed" /\ r.conf = 0 /\ r.unc = 0
  OBVIOUS
<1> HIDE DEF r
<1>6. batch'[p] = Persisted(r) /\ batch' \in [Ids -> BatchRecord]
  BY <1>3, <1>4, RunTypes DEF IInv, TypeOK
<1>7. TypeOK'
  BY <1>4, <1>6 DEF IInv, TypeOK, IsSession, RefuseBatch, Active, SubmitPhase
<1>8. worker[q] \notin {"running", "torn"}
  BY <1>0 DEF IInv, LockInv
<1>9. Works(q, "settle")
  BY <1>1, <1>8, OthersRest DEF IInv, Works, RefuseBatch, Active, SubmitPhase
<1>10. OnlyBatchOf(p)
  BY <1>4 DEF OnlyBatchOf, RefuseBatch, IInv, TypeOK
<1>11. launched[p] = 0
  BY <1>0, <1>1 DEF Holder
<1>12. UNCHANGED <<launched, durable, mem, cur, session>>
  BY DEF RefuseBatch
<1>13. batch'[p].status = "configuration_failed" /\ batch'[p].conf = 0 /\ batch'[p].unc = 0
  BY <1>5, <1>6 DEF Persisted
<1>14. batch'[p] = Persisted(run[q])' /\ run'[q].status \in FinalBatch
  BY <1>4, <1>5, <1>6 DEF Persisted, FinalBatch
<1> QED
  BY <1>0, <1>1, <1>7, <1>9, <1>10, <1>11, <1>12, <1>13, <1>14, BatchStep

(* Launching an invocation keeps the invariant: its unit is reserved on     *)
(* disk.                                                                    *)
LEMMA LaunchStep == ASSUME IInv, NEW q \in Procs, Launch(q) PROVE IInv'
<1>0. pc[q] = "loop" /\ pc[q] \in BatchPhase
  BY DEF Launch, BatchPhase
<1>1. PICK p \in Ids, e \in Entry :
        /\ p = cur[q] /\ e = session.ledger[p]
        /\ pc[q] \in Active /\ Holder(q)
        /\ launched[p] \in Nat /\ durable[p] \in Nat /\ launched[p] <= e.cost
        /\ batch[p] \in BatchRecord /\ run[q] \in RunRecord
        /\ batch[p].conf + batch[p].unc <= launched[p]
        /\ batch[p].conf <= durable[p]
  BY <1>0, BatchPremise
<1>2. TypeOK'
  <2>0. launched \in [Ids -> Nat] /\ launched' = [launched EXCEPT ![p] = launched[p] + 1]
    BY <1>1 DEF IInv, TypeOK, Launch
  <2>1. launched' \in [Ids -> Nat]
    BY <1>1, <2>0
  <2>2. /\ worker' \in [Procs -> {"none", "running", "torn", "survivor"}]
        /\ pc' \in [Procs -> Active \cup {"idle", "linger", "orphan"}]
    BY DEF IInv, TypeOK, Launch, Active, BatchPhase
  <2> QED
    BY <2>1, <2>2 DEF IInv, TypeOK, IsSession, Launch
<1>3. Works(q, "child")
  BY <1>1, OthersRest DEF IInv, TypeOK, Works, Launch, Active, BatchPhase
<1>4. /\ OnlyBatchOf(p) /\ launched'[p] = launched[p] + 1 /\ pc'[q] = "child"
  BY <1>1 DEF OnlyBatchOf, Launch, IInv, TypeOK
<1>5. UNCHANGED <<batch, durable, mem, cur, session, run>>
  BY DEF Launch
<1>6. RunInv(q, p, e)
  BY <1>0, <1>1 DEF Holder
<1>7. /\ run[q].status = "running" /\ run[q].conf + run[q].unc < run[q].planned
      /\ batch[p].status = run[q].status /\ run[q].planned <= e.cost
      /\ run[q].planned \in Nat /\ run[q].conf \in Nat /\ run[q].unc \in Nat
      /\ launched[p] = run[q].conf + run[q].unc
  BY <1>0, <1>1, <1>6 DEF Launch, Stopped, RunInv, Persisted, RunRecord
<1>8. RunInv(q, p, e)'
  BY <1>0, <1>1, <1>4, <1>5, <1>6, <1>7 DEF RunInv, Persisted
<1>9. /\ launched'[p] <= e.cost /\ batch'[p].conf + batch'[p].unc <= launched'[p]
      /\ batch'[p].conf <= durable'[p] /\ batch'[p].status = "running"
  BY <1>1, <1>4, <1>5, <1>7 DEF BatchRecord, Entry
<1> QED
  BY <1>0, <1>1, <1>2, <1>3, <1>4, <1>5, <1>8, <1>9, BatchStep DEF FinalBatch

(* The worker has ended one way or the other: the run counts one entry more. *)
LEMMA ChildStep ==
  ASSUME IInv, NEW q \in Procs, pc[q] = "child",
         NEW r \in RunRecord, NEW wrote \in Nat,
         r.planned = run[q].planned, r.conf + r.unc = run[q].conf + run[q].unc + 1,
         r.conf <= run[q].conf + wrote,
         r.ok => run[q].ok /\ r.unc = run[q].unc,
         r.status \in {run[q].status, "interrupted"},
         run' = [run EXCEPT ![q] = r],
         durable' = [durable EXCEPT ![cur[q]] = @ + wrote],
         NEW w \in {"none", "survivor"}, worker' = [worker EXCEPT ![q] = w],
         pc' = [pc EXCEPT ![q] = "persist"],
         UNCHANGED <<session, dirs, rec, batch, lock, cur, mem, launched>>
  PROVE  IInv'
<1>0. pc[q] \in BatchPhase
  BY DEF BatchPhase
<1>1. PICK p \in Ids, e \in Entry :
        /\ p = cur[q] /\ e = session.ledger[p]
        /\ pc[q] \in Active /\ Holder(q)
        /\ launched[p] \in Nat /\ durable[p] \in Nat /\ launched[p] <= e.cost
        /\ batch[p] \in BatchRecord /\ run[q] \in RunRecord
        /\ batch[p].conf + batch[p].unc <= launched[p]
        /\ batch[p].conf <= durable[p]
  BY <1>0, BatchPremise
<1>2. TypeOK'
  <2>0. durable \in [Ids -> Nat] /\ durable' = [durable EXCEPT ![p] = durable[p] + wrote]
    BY <1>1 DEF IInv, TypeOK
  <2>1. durable' \in [Ids -> Nat] /\ run' \in [Procs -> RunRecord]
    BY <1>1, <2>0 DEF IInv, TypeOK
  <2>2. /\ worker' \in [Procs -> {"none", "running", "torn", "survivor"}]
        /\ pc' \in [Procs -> Active \cup {"idle", "linger", "orphan"}]
    BY DEF IInv, TypeOK, Active, BatchPhase
  <2> QED
    BY <2>1, <2>2 DEF IInv, TypeOK, IsSession
<1>3. Works(q, "persist")
  BY <1>1, OthersRest DEF IInv, TypeOK, Works, Active, BatchPhase
<1>4. /\ OnlyBatchOf(p) /\ durable'[p] = durable[p] + wrote /\ pc'[q] = "persist" /\ run'[q] = r
  BY <1>1 DEF OnlyBatchOf, IInv, TypeOK
<1>5. RunInv(q, p, e)
  BY <1>1 DEF Holder
<1>6. /\ run[q].status = "running" /\ launched[p] = run[q].conf + run[q].unc + 1
      /\ launched[p] <= run[q].planned
      /\ batch[p].status = "running" /\ run[q].planned <= e.cost
      /\ run[q].planned \in Nat /\ run[q].conf \in Nat /\ run[q].unc \in Nat
      /\ run[q].conf <= durable[p]
      /\ r.conf \in Nat /\ r.unc \in Nat
      /\ (run[q].ok => run[q].unc = 0 /\ run[q].planned = e.cost)
  BY <1>1, <1>5 DEF RunInv, RunRecord
<1>7. RunInv(q, p, e)'
  <2>1. launched[p] = batch[p].conf + batch[p].unc + 1
    BY <1>5, <1>6 DEF RunInv, Persisted
  <2> QED
    BY <1>1, <1>4, <1>6, <2>1 DEF RunInv
<1>8. /\ launched'[p] <= e.cost /\ batch'[p].conf + batch'[p].unc <= launched'[p]
      /\ batch'[p].conf <= durable'[p] /\ batch'[p].status = "running"
  BY <1>1, <1>4, <1>6 DEF BatchRecord, Entry
<1> QED
  BY <1>0, <1>1, <1>2, <1>3, <1>4, <1>7, <1>8, BatchStep DEF FinalBatch

(* An invocation that left a result keeps the invariant.                    *)
LEMMA ChildRecordedStep ==
  ASSUME IInv, NEW q \in Procs, NEW o \in {"success", "failed", "interrupted"}, ChildRecorded(q, o)
  PROVE  IInv'
<1> DEFINE r == [planned |-> run[q].planned, conf |-> run[q].conf + 1, unc |-> run[q].unc,
                 ok |-> run[q].ok /\ o = "success",
                 status |-> IF o = "interrupted" THEN "interrupted" ELSE run[q].status]
<1>1. run[q] \in RunRecord
  BY DEF IInv, TypeOK
<1>2. r \in RunRecord
  BY <1>1 DEF RunRecord, FinalBatch
<1>3. PICK w \in {"none", "survivor"} : worker' = [worker EXCEPT ![q] = w]
  BY DEF ChildRecorded, WorkerAfter
<1>4. run' = [run EXCEPT ![q] = r] /\ durable' = [durable EXCEPT ![cur[q]] = @ + 1]
  BY DEF ChildRecorded
<1>5. /\ r.planned = run[q].planned /\ r.conf + r.unc = run[q].conf + run[q].unc + 1
      /\ r.conf <= run[q].conf + 1 /\ (r.ok => run[q].ok /\ r.unc = run[q].unc)
      /\ r.status \in {run[q].status, "interrupted"}
  BY <1>1 DEF RunRecord
<1> HIDE DEF r
<1> QED
  BY <1>2, <1>3, <1>4, <1>5, ChildStep DEF ChildRecorded

(* An invocation that raised keeps the invariant.                           *)
LEMMA ChildRaisedStep ==
  ASSUME IInv, NEW q \in Procs, NEW i \in BOOLEAN, ChildRaised(q, i)
  PROVE  IInv'
<1> DEFINE r == [planned |-> run[q].planned, conf |-> run[q].conf, unc |-> run[q].unc + 1,
                 ok |-> FALSE,
                 status |-> IF i THEN "interrupted" ELSE run[q].status]
<1>1. run[q] \in RunRecord
  BY DEF IInv, TypeOK
<1>2. r \in RunRecord
  BY <1>1 DEF RunRecord, FinalBatch
<1>3. PICK w \in {"none", "survivor"} : worker' = [worker EXCEPT ![q] = w]
  BY DEF ChildRaised, WorkerAfter
<1>4. PICK wrote \in {0, 1} : durable' = [durable EXCEPT ![cur[q]] = @ + wrote]
  BY DEF ChildRaised
<1>5. run' = [run EXCEPT ![q] = r]
  BY DEF ChildRaised
<1>6. /\ r.planned = run[q].planned /\ r.conf + r.unc = run[q].conf + run[q].unc + 1
      /\ r.conf <= run[q].conf + wrote /\ (r.ok => run[q].ok /\ r.unc = run[q].unc)
      /\ r.status \in {run[q].status, "interrupted"}
  BY <1>1 DEF RunRecord
<1> HIDE DEF r
<1> QED
  BY <1>2, <1>3, <1>4, <1>5, <1>6, ChildStep DEF ChildRaised

(* Persisting an entry keeps the invariant: the file lists what was         *)
(* launched.                                                                *)
LEMMA PersistEntryStep == ASSUME IInv, NEW q \in Procs, PersistEntry(q) PROVE IInv'
<1>0. pc[q] = "persist" /\ pc[q] \in BatchPhase
  BY DEF PersistEntry, BatchPhase
<1>1. PICK p \in Ids, e \in Entry :
        /\ p = cur[q] /\ e = session.ledger[p]
        /\ pc[q] \in Active /\ Holder(q)
        /\ launched[p] \in Nat /\ durable[p] \in Nat /\ launched[p] <= e.cost
        /\ run[q] \in RunRecord
  BY <1>0, BatchPremise
<1>2. batch' = [batch EXCEPT ![p] = Persisted(run[q])] /\ batch'[p] = Persisted(run[q])
  BY <1>1, RunTypes DEF PersistEntry, IInv, TypeOK
<1>3. TypeOK'
  <2>1. batch' \in [Ids -> BatchRecord]
    BY <1>1, <1>2, RunTypes DEF IInv, TypeOK
  <2> QED
    BY <2>1 DEF IInv, TypeOK, IsSession, PersistEntry, Active, BatchPhase
<1>4. worker[q] \notin {"running", "torn"}
  BY <1>0 DEF IInv, LockInv
<1>5. Works(q, "loop")
  BY <1>1, <1>4, OthersRest DEF IInv, Works, PersistEntry, Active, BatchPhase
<1>6. OnlyBatchOf(p) /\ pc'[q] = "loop" /\ UNCHANGED <<run, mem, cur, session, launched, durable>>
  BY <1>1, <1>2 DEF OnlyBatchOf, PersistEntry, IInv, TypeOK
<1>7. RunInv(q, p, e)
  BY <1>0, <1>1 DEF Holder
<1>8. RunInv(q, p, e)'
  BY <1>0, <1>2, <1>6, <1>7 DEF RunInv, Persisted
<1>9. /\ run[q].status \in {"running", "interrupted"} /\ run[q].conf <= durable[p]
      /\ launched[p] = run[q].conf + run[q].unc
  BY <1>0, <1>7 DEF RunInv
<1>10. /\ batch'[p].conf + batch'[p].unc = launched'[p] /\ batch'[p].conf <= durable'[p]
       /\ batch'[p].status # "success"
  BY <1>1, <1>2, <1>6, <1>9, RunTypes
<1>11. launched'[p] <= e.cost /\ batch'[p].conf + batch'[p].unc <= launched'[p]
  BY <1>1, <1>6, <1>10
<1> QED
  BY <1>0, <1>1, <1>3, <1>5, <1>6, <1>8, <1>10, <1>11, BatchStep

(* At the end of the loop every planned entry is in the record, or the     *)
(* batch was interrupted; either way the record is complete.               *)
LEMMA StoppedBatch ==
  ASSUME IInv, NEW q \in Procs, pc[q] = "loop", Stopped(run[q]),
         NEW p \in Ids, NEW e \in Entry, p = cur[q], e = session.ledger[p], Holder(q)
  PROVE  /\ FinalStatus(run[q]) \in FinalBatch
         /\ launched[p] = run[q].conf + run[q].unc
         /\ run[q].conf <= durable[p]
         /\ FinalStatus(run[q]) = "success" => run[q].unc = 0 /\ run[q].conf = e.cost
<1>1. RunInv(q, p, e) /\ run[q] \in RunRecord
  BY DEF Holder, IInv, TypeOK
<1>2. FinalStatus(run[q]) \in FinalBatch
  BY DEF FinalStatus, FinalBatch
<1>3. FinalStatus(run[q]) = "success" =>
        run[q].status # "interrupted" /\ run[q].ok /\ run[q].conf + run[q].unc = run[q].planned
  BY DEF FinalStatus
<1> QED
  BY <1>1, <1>2, <1>3, RunTypes DEF RunInv

(* Closing a batch keeps the invariant: the file lists every invocation.    *)
LEMMA FinishBatchStep == ASSUME IInv, NEW q \in Procs, FinishBatch(q) PROVE IInv'
<1>0. pc[q] = "loop" /\ pc[q] \in BatchPhase /\ Stopped(run[q])
  BY DEF FinishBatch, BatchPhase
<1>1. PICK p \in Ids, e \in Entry :
        /\ p = cur[q] /\ e = session.ledger[p]
        /\ pc[q] \in Active /\ Holder(q)
        /\ launched[p] \in Nat /\ durable[p] \in Nat /\ launched[p] <= e.cost
        /\ run[q] \in RunRecord
  BY <1>0, BatchPremise
<1> DEFINE f == FinalStatus(run[q])
           r == [run[q] EXCEPT !.status = f]
<1>2. /\ f \in FinalBatch /\ launched[p] = run[q].conf + run[q].unc /\ run[q].conf <= durable[p]
      /\ (f = "success" => run[q].unc = 0 /\ run[q].conf = e.cost)
  BY <1>0, <1>1, StoppedBatch
<1> HIDE DEF f
<1>3. /\ r \in RunRecord /\ r.status = f /\ r.conf = run[q].conf /\ r.unc = run[q].unc
  BY <1>1, <1>2 DEF RunRecord
<1>4. run' = [run EXCEPT ![q] = r] /\ run'[q] = r
  BY DEF FinishBatch, f, IInv, TypeOK
<1>5. batch' = [batch EXCEPT ![p] = Persisted(r)] /\ batch'[p] = Persisted(r)
  BY <1>1, <1>4 DEF FinishBatch, IInv, TypeOK
<1>6. TypeOK'
  <2>1. batch' \in [Ids -> BatchRecord] /\ run' \in [Procs -> RunRecord]
    BY <1>3, <1>4, <1>5, RunTypes DEF IInv, TypeOK
  <2> QED
    BY <2>1 DEF IInv, TypeOK, IsSession, FinishBatch, Active, SubmitPhase
<1>7. worker[q] \notin {"running", "torn"}
  BY <1>0 DEF IInv, LockInv
<1>8. Works(q, "settle")
  BY <1>1, <1>7, OthersRest DEF IInv, Works, FinishBatch, Active, SubmitPhase
<1>9. OnlyBatchOf(p) /\ UNCHANGED <<mem, cur, session, launched, durable>>
  BY <1>1, <1>5 DEF OnlyBatchOf, FinishBatch, IInv, TypeOK
<1>10. batch'[p].status = f /\ batch'[p].conf = run[q].conf /\ batch'[p].unc = run[q].unc
  BY <1>3, <1>5, RunTypes
<1>11. batch'[p] = Persisted(run[q])' /\ run'[q].status \in FinalBatch
  BY <1>2, <1>3, <1>4, <1>5 DEF Persisted
<1>12. /\ launched'[p] <= e.cost /\ batch'[p].conf + batch'[p].unc = launched'[p]
       /\ batch'[p].conf + batch'[p].unc <= launched'[p] /\ batch'[p].conf <= durable'[p]
       /\ (batch'[p].status = "success" => batch'[p].unc = 0 /\ batch'[p].conf = e.cost)
  BY <1>1, <1>2, <1>9, <1>10
<1> QED
  BY <1>0, <1>1, <1>6, <1>8, <1>9, <1>11, <1>12, BatchStep

(* An exception that leaves run_batch, before or after its write, keeps the *)
(* invariant.                                                               *)
LEMMA BatchRaisesStep == ASSUME IInv, NEW q \in Procs, BatchRaises(q) PROVE IInv'
<1>0. pc[q] \in {"open", "persist", "loop"} /\ pc[q] \in BatchPhase
      /\ (pc[q] = "loop" => Stopped(run[q]))
  BY DEF BatchRaises, BatchPhase
<1>1. PICK p \in Ids, e \in Entry :
        /\ p = cur[q] /\ e = session.ledger[p]
        /\ pc[q] \in Active /\ Holder(q)
        /\ launched[p] \in Nat /\ durable[p] \in Nat /\ launched[p] <= e.cost
        /\ batch[p] \in BatchRecord /\ run[q] \in RunRecord
        /\ batch[p].conf + batch[p].unc <= launched[p]
        /\ batch[p].conf <= durable[p]
  BY <1>0, BatchPremise
<1>2. PICK b \in PendingBatch(q) \cup {batch[cur[q]]} : batch' = [batch EXCEPT ![cur[q]] = b]
  BY DEF BatchRaises
<1> DEFINE Sound ==
      /\ b \in BatchRecord /\ b.conf + b.unc <= launched[p] /\ b.conf <= durable[p]
      /\ (b.status \in FinalBatch => b.conf + b.unc = launched[p])
      /\ (b.status = "success" => b.unc = 0 /\ b.conf = e.cost)
<1>3. Sound
  <2>1. CASE b = batch[cur[q]]
    BY <2>1, <1>1 DEF IInv, BatchInv, LedgerInv, Justified
  <2>2. CASE pc[q] = "open" /\ b \in PendingBatch(q)
    <3>1. PICK s \in {"running", "configuration_failed"} : b = [NoBatch EXCEPT !.status = s]
      BY <2>2 DEF PendingBatch
    <3>2. b.status = s /\ b.conf = 0 /\ b.unc = 0 /\ b \in BatchRecord
      BY <3>1 DEF NoBatch, BatchRecord, FinalBatch
    <3>3. launched[p] = 0
      BY <2>2, <1>1 DEF Holder
    <3> QED
      BY <3>2, <3>3, <1>1
  <2>3. CASE pc[q] = "persist" /\ b \in PendingBatch(q)
    <3>1. b = Persisted(run[q])
      BY <2>3 DEF PendingBatch
    <3>2. RunInv(q, p, e)
      BY <2>3, <1>1 DEF Holder
    <3> QED
      BY <2>3, <3>1, <3>2, <1>1, RunTypes DEF RunInv
  <2>4. CASE pc[q] = "loop" /\ b \in PendingBatch(q)
    <3> DEFINE f == FinalStatus(run[q])
    <3>1. b = [Persisted(run[q]) EXCEPT !.status = f]
      BY <2>4 DEF PendingBatch
    <3>2. /\ f \in FinalBatch /\ launched[p] = run[q].conf + run[q].unc
          /\ run[q].conf <= durable[p]
          /\ (f = "success" => run[q].unc = 0 /\ run[q].conf = e.cost)
      BY <1>0, <1>1, <2>4, StoppedBatch
    <3> HIDE DEF f
    <3>3. b.status = f /\ b.conf = run[q].conf /\ b.unc = run[q].unc /\ b \in BatchRecord
      BY <3>1, <3>2, <1>1, RunTypes DEF BatchRecord
    <3> QED
      BY <3>2, <3>3, <1>1, RunTypes
  <2> QED
    BY <1>0, <2>1, <2>2, <2>3, <2>4
<1>4. batch' = [batch EXCEPT ![p] = b] /\ batch'[p] = b
  BY <1>1, <1>2 DEF IInv, TypeOK
<1>5. TypeOK'
  <2>1. batch' \in [Ids -> BatchRecord]
    BY <1>3, <1>4 DEF IInv, TypeOK
  <2>2. run' \in [Procs -> RunRecord]
    BY DEF IInv, TypeOK, BatchRaises, RunRecord, NoRun
  <2> QED
    BY <2>1, <2>2 DEF IInv, TypeOK, IsSession, BatchRaises, Active, SubmitPhase
<1>6. worker[q] \notin {"running", "torn"}
  BY <1>0 DEF IInv, LockInv
<1>7. Works(q, "settle_error")
  BY <1>1, <1>6, OthersRest DEF IInv, Works, BatchRaises, Active, SubmitPhase
<1>8. OnlyBatchOf(p) /\ UNCHANGED <<mem, cur, session, launched, durable>>
  BY <1>1, <1>4 DEF OnlyBatchOf, BatchRaises, IInv, TypeOK
<1>9. /\ launched'[p] <= e.cost /\ batch'[p].conf + batch'[p].unc <= launched'[p]
      /\ batch'[p].conf <= durable'[p]
      /\ (batch'[p].status \in FinalBatch => batch'[p].conf + batch'[p].unc = launched'[p])
      /\ (batch'[p].status = "success" => batch'[p].unc = 0 /\ batch'[p].conf = e.cost)
  BY <1>1, <1>3, <1>4, <1>8
<1> QED
  BY <1>0, <1>1, <1>5, <1>7, <1>8, <1>9, BatchStep
-----------------------------------------------------------------------------
(* Settling and recovering: a justified record is written, then saved. *)

(* Writing a justified record to proposal_state.json and to memory keeps    *)
(* the invariant.                                                           *)
LEMMA RecordStep ==
  ASSUME IInv, NEW q \in Procs, NEW p \in Ids, NEW f \in Entry, NEW s,
         IsSession(s), s.ledger = session.ledger, Justified(f, p),
         session.ledger[p].st \in Recoverable,
         rec' = [rec EXCEPT ![p] = f], mem' = [mem EXCEPT ![q] = WithEntry(s, p, f)],
         pc' = [pc EXCEPT ![q] = "save_final"],
         cur' \in [Procs -> Ids \cup {NoId}], cur'[q] = p, lock' = q, worker[q] \notin {"running", "torn"},
         \A r \in Procs \ {q} : pc[r] \notin Active \cup {"orphan"},
         UNCHANGED <<session, dirs, batch, run, worker, launched, durable>>
  PROVE  IInv'
<1> DEFINE w == WithEntry(s, p, f)
<1>1. IsSession(w) /\ w.ledger = [session.ledger EXCEPT ![p] = f]
  BY WithEntryIs
<1> HIDE DEF w
<1>2. mem' = [mem EXCEPT ![q] = w]
  BY DEF w
<1>3. mem' = [r \in Procs |-> mem'[r]] /\ (\A r \in Procs : IsSession(mem'[r])) /\ mem'[q] = w
  BY <1>1, <1>2 DEF IInv, TypeOK
<1>4. TypeOK'
  BY <1>3 DEF IInv, TypeOK, IsSession, Active
<1>5. Works(q, "save_final")
  BY DEF Works, Active
<1>6. Holder(q)'
  <2>1. pc'[q] = "save_final"
    BY DEF IInv, TypeOK
  <2>2. session.ledger \in [Ids -> Entry]
    BY DEF IInv, TypeOK, IsSession
  <2>3. Justified(f, p)'
    BY SameFiles
  <2> QED
    BY <2>1, <2>2, <2>3, <1>1, <1>3 DEF Holder, BatchPhase
<1> QED
  BY <1>4, <1>5, <1>6, SameFiles, WorkingStep

(* Settling a proposal after its batch keeps the invariant.                 *)
LEMMA SettleStep == ASSUME IInv, NEW q \in Procs, Settle(q) PROVE IInv'
<1>0. pc[q] = "settle" /\ pc[q] # "save_rejection"
  BY DEF Settle
<1>1. PICK p \in Ids, e \in Entry :
        /\ p = cur[q] /\ e = session.ledger[p] /\ mem[q].ledger = session.ledger
        /\ pc[q] \in Active /\ Holder(q)
        /\ e.st = "running" /\ e.consumed = 0 /\ e.reserved = e.cost /\ e.resolution = "none"
        /\ launched[p] \in Nat /\ durable[p] \in Nat /\ launched[p] <= e.cost
        /\ run[q] \in RunRecord
        /\ batch[p].conf + batch[p].unc <= launched[p]
        /\ batch[p].conf <= durable[p]
  BY <1>0, BatchPremise
<1> DEFINE f == SettledEntry(e, run[q])
<1>2. batch[p] = Persisted(run[q]) /\ run[q].status \in FinalBatch
  BY <1>0, <1>1 DEF Holder
<1>3. /\ launched[p] = run[q].conf + run[q].unc /\ run[q].conf <= durable[p]
      /\ (run[q].status = "success" => run[q].unc = 0 /\ run[q].conf = e.cost)
  BY <1>1, <1>2, RunTypes DEF IInv, BatchInv, LedgerInv, Justified
<1>4. run[q].conf \in Nat /\ run[q].unc \in Nat
  BY <1>1, RunTypes
<1>5. /\ SettledState(run[q]) \in {"needs_reconciliation", "interrupted", "completed", "failed"}
      /\ SettledState(run[q]) = "needs_reconciliation" => run[q].unc > 0
      /\ SettledState(run[q]) # "needs_reconciliation" => run[q].unc = 0
      /\ SettledState(run[q]) = "completed" => run[q].status = "success"
  BY <1>4 DEF SettledState
<1>6. f \in Entry
  BY <1>1, <1>4, <1>5 DEF SettledEntry, Entry, Terminal, Recoverable
<1>7. Justified(f, p)
  <2>1. /\ f.st = SettledState(run[q]) /\ f.consumed = run[q].conf /\ f.reserved = run[q].unc
        /\ f.cost = e.cost /\ f.resolution = "none" /\ f.units = e.units /\ e.units \in Nat
    BY <1>1 DEF SettledEntry, Entry
  <2>2. batch[p].conf = run[q].conf /\ batch[p].unc = run[q].unc /\ batch[p].status = run[q].status
    BY <1>1, <1>2, RunTypes
  <2> HIDE DEF f
  <2> QED
    BY <1>1, <1>3, <1>4, <1>5, <2>1, <2>2
    DEF Justified, Recoverable, Terminal, ReleasedUnits, ForcedUnits
<1>8. worker[q] \notin {"running", "torn"}
  BY <1>0 DEF IInv, LockInv
<1>9. IsSession(mem[q]) /\ cur \in [Procs -> Ids \cup {NoId}]
  BY DEF IInv, TypeOK
<1>10. mem[q].ledger[cur[q]] = e
  BY <1>1
<1>11. /\ rec' = [rec EXCEPT ![p] = f] /\ mem' = [mem EXCEPT ![q] = WithEntry(mem[q], p, f)]
       /\ pc' = [pc EXCEPT ![q] = "save_final"]
  BY <1>1, <1>10 DEF Settle, Record
<1> HIDE DEF f
<1> QED
  BY <1>1, <1>6, <1>7, <1>8, <1>9, <1>11, OthersRest, RecordStep DEF Settle, IInv, Recoverable

(* Settling a proposal after an escaped batch keeps the invariant.          *)
LEMMA SettleAfterErrorStep == ASSUME IInv, NEW q \in Procs, SettleAfterError(q) PROVE IInv'
<1>0. pc[q] = "settle_error"
  BY DEF SettleAfterError
<1>1. PICK p \in Ids, e \in Entry :
        /\ p = cur[q] /\ e = session.ledger[p] /\ mem[q].ledger = session.ledger
        /\ pc[q] \in Active /\ Holder(q)
        /\ e.st = "running" /\ e.consumed = 0 /\ e.reserved = e.cost /\ e.resolution = "none"
        /\ launched[p] \in Nat /\ durable[p] \in Nat /\ launched[p] <= e.cost
        /\ batch[p] \in BatchRecord
        /\ batch[p].conf + batch[p].unc <= launched[p]
        /\ batch[p].conf <= durable[p]
  BY <1>0, BatchPremise
<1> DEFINE f == FailedEntry(e, batch[p])
<1>2. batch[p].conf \in Nat /\ batch[p].unc \in Nat /\ e.cost \in Nat
  BY <1>1 DEF BatchRecord, Entry
<1>3. e.cost - batch[p].conf \in Nat
  BY <1>1, <1>2
<1>4. f \in Entry
  BY <1>1, <1>2, <1>3 DEF FailedEntry, Entry, Recoverable
<1>5. Justified(f, p)
  <2>1. /\ f.st = "needs_reconciliation" /\ f.consumed = batch[p].conf
        /\ f.reserved = e.cost - batch[p].conf /\ f.cost = e.cost /\ f.resolution = "none"
    BY <1>1 DEF FailedEntry
  <2>2. batch[p].status = "success" => batch[p].unc = 0 /\ batch[p].conf = e.cost
    BY <1>1 DEF IInv, LedgerInv, Justified
  <2> HIDE DEF f
  <2> QED
    BY <1>1, <1>2, <2>1, <2>2 DEF Justified, Recoverable, Terminal
<1>6. worker[q] \notin {"running", "torn"}
  BY <1>0 DEF IInv, LockInv
<1>7. IsSession(mem[q]) /\ cur \in [Procs -> Ids \cup {NoId}]
  BY DEF IInv, TypeOK
<1>8. mem[q].ledger[cur[q]] = e
  BY <1>1
<1>9. /\ rec' = [rec EXCEPT ![p] = f] /\ mem' = [mem EXCEPT ![q] = WithEntry(mem[q], p, f)]
      /\ pc' = [pc EXCEPT ![q] = "save_final"]
  BY <1>1, <1>8 DEF SettleAfterError, Record
<1> HIDE DEF f
<1> QED
  BY <1>1, <1>4, <1>5, <1>6, <1>7, <1>9, OthersRest, RecordStep
  DEF SettleAfterError, IInv, Recoverable

(* Saving the settled record keeps the invariant.                           *)
LEMMA SaveFinalStep == ASSUME IInv, NEW q \in Procs, SaveFinal(q) PROVE IInv'
<1>1. pc[q] = "save_final" /\ pc[q] \in Active /\ pc[q] # "child" /\ Holder(q)
  BY DEF IInv, HolderInv, SaveFinal, Active, BatchPhase
<1>2. TypeOK'
  BY UnlockTypes DEF IInv, SaveFinal, TypeOK
<1>3. LockInv' /\ \A r \in Procs : pc'[r] \notin Active
  BY <1>1, UnlockKeepsLock, UnlockIsQuiet DEF IInv, SaveFinal
<1>4. BatchInv'
  BY DEF IInv, BatchInv, SaveFinal
<1>5. HolderInv'
  BY <1>3 DEF HolderInv
<1>6. \A e, p : Justified(e, p)' <=> Justified(e, p)
  BY DEF Justified, SaveFinal
<1>7. \A p \in Ids : Justified(mem[q].ledger[p], p)
  BY <1>1 DEF Holder, IInv, LedgerInv
<1>8. LedgerInv'
  BY <1>6, <1>7 DEF LedgerInv, SaveFinal
<1> QED
  BY <1>2, <1>3, <1>4, <1>5, <1>8 DEF IInv

(* What reconciliation computes, before the resolution is applied: the     *)
(* units confirmed since, and the ones no evidence decides.                *)
LEMMA Reconciled ==
  ASSUME NEW e \in Entry, NEW b \in BatchRecord, NEW n \in Nat, NEW d \in Nat,
         e.st \in Recoverable, n <= e.consumed + e.reserved, e.consumed <= b.conf,
         b.conf + b.unc <= n, b.conf <= d,
         b.status \in FinalBatch => b.conf + b.unc = n,
         e.st = "accepted" => n = 0
  PROVE  /\ Moved(e, b) \in Nat /\ StillReserved(e, b) \in Nat
         /\ e.consumed + Moved(e, b) = b.conf
         /\ n <= b.conf + StillReserved(e, b)
         /\ b.status \in FinalBatch => StillReserved(e, b) = b.unc
<1>1. e.consumed \in Nat /\ e.reserved \in Nat /\ b.conf \in Nat /\ b.unc \in Nat
  BY DEF Entry, BatchRecord
<1>2. Moved(e, b) = b.conf - e.consumed
  BY <1>1 DEF Moved, LesserOf
<1> DEFINE left == e.reserved - Moved(e, b)
<1>3. left \in Nat /\ n <= b.conf + left
  BY <1>1, <1>2
<1>4. CASE b.status \in FinalBatch
  <2>1. StillReserved(e, b) = LesserOf(left, b.unc)
    BY <1>4 DEF StillReserved
  <2>2. LesserOf(left, b.unc) = b.unc
    BY <1>1, <1>3, <1>4 DEF LesserOf
  <2> QED
    BY <1>1, <1>2, <1>4, <2>1, <2>2
<1>5. CASE b.status \notin FinalBatch /\ e.st = "accepted" /\ b.status = "none"
  BY <1>1, <1>2, <1>5 DEF StillReserved
<1>6. CASE b.status \notin FinalBatch /\ ~(e.st = "accepted" /\ b.status = "none")
  <2>1. StillReserved(e, b) = left
    BY <1>6 DEF StillReserved
  <2> QED
    BY <1>1, <1>2, <1>3, <1>6, <2>1
<1> QED
  BY <1>4, <1>5, <1>6

(* Reconciling a proposal with the evidence on disk keeps the invariant,    *)
(* whatever the resolution.                                                 *)
LEMMA RecoverStep ==
  ASSUME IInv, ConstantsOK, NEW q \in Procs, NEW p \in Ids, NEW res \in Resolutions,
         Recover(q, p, res)
  PROVE  IInv'
<1>1. \A r \in Procs : pc[r] \notin Active \cup {"orphan"}
  BY NobodyActive DEF IInv, Recover
<1>2. worker[q] \notin {"running", "torn"}
  BY <1>1 DEF IInv, LockInv, Active, BatchPhase
<1>3. PICK e \in Entry : e = session.ledger[p] /\ e.st \in Recoverable
  BY DEF IInv, TypeOK, IsSession, Recover
<1>4. PICK b \in BatchRecord : b = batch[p]
  BY DEF IInv, TypeOK
<1>5. launched[p] \in Nat /\ durable[p] \in Nat
  BY DEF IInv, TypeOK
<1>6. /\ launched[p] <= e.consumed + e.reserved /\ e.consumed <= b.conf
      /\ e.resolution = "none" /\ (e.st = "accepted" => launched[p] = 0)
      /\ (b.status = "success" => b.unc = 0 /\ b.conf = e.cost)
  BY <1>3, <1>4 DEF IInv, LedgerInv, Justified
<1>7. /\ b.conf + b.unc <= launched[p] /\ b.conf <= durable[p]
      /\ (b.status \in FinalBatch => b.conf + b.unc = launched[p])
  BY <1>4 DEF IInv, BatchInv
<1> DEFINE left == StillReserved(e, b)
           stuck == res = "inspect" /\ left > 0
           f == RecoveredEntry(e, b, res)
<1>8. /\ Moved(e, b) \in Nat /\ left \in Nat
      /\ e.consumed + Moved(e, b) = b.conf
      /\ launched[p] <= b.conf + left
      /\ (b.status \in FinalBatch => left = b.unc)
  BY <1>3, <1>5, <1>6, <1>7, Reconciled
<1>9. b.conf \in Nat /\ b.unc \in Nat /\ b.status \in FinalBatch \cup {"none", "running"}
  BY DEF BatchRecord
<1>10. /\ f.st = ResolvedState(b, res, left) /\ f.cost = e.cost /\ f.reps = e.reps
       /\ f.consumed = b.conf + (IF res = "consume" THEN left ELSE 0)
       /\ f.reserved = (IF stuck THEN left ELSE 0)
       /\ f.resolution = (IF stuck THEN e.resolution ELSE res)
       /\ f.units = (IF stuck THEN e.units ELSE left)
       /\ f.linked = e.linked
       /\ f.results = (IF b.conf + b.unc > 0 THEN b.conf ELSE e.results)
  BY <1>8 DEF RecoveredEntry
<1>11. f = [st |-> f.st, cost |-> f.cost, reps |-> f.reps, consumed |-> f.consumed,
            reserved |-> f.reserved, linked |-> f.linked, results |-> f.results,
            resolution |-> f.resolution, units |-> f.units]
  BY DEF RecoveredEntry
<1>12. /\ f.st \in {"needs_reconciliation", "completed", "interrupted", "failed"}
       /\ (f.st = "needs_reconciliation" <=> stuck)
       /\ (f.st = "completed" => res = "inspect" /\ left = 0 /\ b.status = "success")
       /\ (f.st = "interrupted" => res = "inspect" /\ left = 0 /\ b.status = "interrupted")
  BY <1>8, <1>10 DEF ResolvedState
<1>13. res \in {"inspect", "consume", "release"}
  BY DEF Resolutions
<1> HIDE DEF left, f
<1>14. f \in Entry
  <2>1. /\ e.cost \in Nat /\ e.reps \in Nat /\ e.linked \in BOOLEAN /\ e.results \in Nat
        /\ e.resolution \in Resolutions \cup {"none"} /\ e.units \in Nat
    BY <1>3 DEF Entry
  <2>2. f.st \in Terminal \cup Recoverable \cup {"absent"}
    BY <1>12 DEF Terminal, Recoverable
  <2>3. f.consumed \in Nat /\ f.reserved \in Nat
    BY <1>8, <1>9, <1>10
  <2>4. f.results \in Nat /\ f.units \in Nat
    BY <2>1, <1>8, <1>9, <1>10
  <2>5. f.resolution \in Resolutions \cup {"none"}
    BY <2>1, <1>10
  <2>6. f.cost \in Nat /\ f.reps \in Nat /\ f.linked \in BOOLEAN
    BY <2>1, <1>10
  <2> QED
    BY <1>11, <2>2, <2>3, <2>4, <2>5, <2>6 DEF Entry
<1>15. Justified(f, p)
  <2>1. CASE stuck
    BY <2>1, <1>4, <1>5, <1>6, <1>7, <1>8, <1>9, <1>10, <1>12
    DEF Justified, Terminal, Recoverable
  <2>2. CASE ~stuck
    <3>1. ReleasedUnits(f) = (IF res = "release" THEN left ELSE 0)
          /\ ForcedUnits(f) = (IF res = "consume" THEN left ELSE 0)
      BY <2>2, <1>10 DEF ReleasedUnits, ForcedUnits
    <3>2. launched[p] <= f.consumed + ReleasedUnits(f)
      BY <2>2, <3>1, <1>5, <1>8, <1>9, <1>10, <1>13
    <3>3. f.consumed <= durable[p] + ForcedUnits(f)
      BY <3>1, <1>5, <1>7, <1>8, <1>9, <1>10
    <3>4. f.st \in {"completed", "interrupted"} => launched[p] = f.consumed
      BY <1>5, <1>7, <1>8, <1>9, <1>10, <1>12 DEF FinalBatch
    <3>5. f.st = "completed" => f.consumed = f.cost
      BY <1>6, <1>9, <1>10, <1>12
    <3> QED
      BY <2>2, <3>2, <3>3, <3>4, <3>5, <1>4, <1>6, <1>10, <1>12
      DEF Justified, Terminal, Recoverable
  <2> QED
    BY <2>1, <2>2
<1>16. /\ rec' = [rec EXCEPT ![p] = f] /\ mem' = [mem EXCEPT ![q] = WithEntry(session, p, f)]
       /\ pc' = [pc EXCEPT ![q] = "save_final"]
  BY <1>3, <1>4 DEF Recover, f
<1>17. cur' \in [Procs -> Ids \cup {NoId}] /\ cur'[q] = p
  BY DEF Recover, IInv, TypeOK
<1>18. IsSession(session) /\ lock' = q
  BY DEF Recover, IInv, TypeOK
<1> QED
  BY <1>1, <1>2, <1>3, <1>14, <1>15, <1>16, <1>17, <1>18, RecordStep DEF Recover
-----------------------------------------------------------------------------
(* Every step of every process keeps the invariant: one case per action.    *)
LEMMA NextPreserves == ASSUME IInv, ConstantsOK, [Next]_vars PROVE IInv'
<1>1. CASE UNCHANGED vars
  <2>1. TypeOK' /\ LockInv'
    BY <1>1 DEF IInv, TypeOK, IsSession, LockInv, vars
  <2> QED
    BY <1>1, <2>1, Quiet DEF vars
<1>2. ASSUME NEW q \in Procs, NEW sub \in Submissions, BeginRejection(q, sub) PROVE IInv'
  BY <1>2, BeginRejectionStep
<1>3. ASSUME NEW q \in Procs, NEW sub \in Submissions, BeginSubmission(q, sub) PROVE IInv'
  BY <1>3, BeginSubmissionStep
<1>4. ASSUME NEW q \in Procs, NEW p \in Ids, NEW r \in Resolutions, Recover(q, p, r) PROVE IInv'
  BY <1>4, RecoverStep
<1>5. ASSUME NEW q \in Procs, Step(q) PROVE IInv'
  BY <1>5, SaveRejectionStep, MakeDirectoryStep, DirectoryExistsStep, SaveAcceptedStep,
     SaveRunningStep, OpenBatchStep, RefuseBatchStep, LaunchStep, ChildRecordedStep,
     ChildRaisedStep, PersistEntryStep, FinishBatchStep, BatchRaisesStep, SettleStep,
     SettleAfterErrorStep, SaveFinalStep
  DEF Step
<1>6. ASSUME NEW q \in Procs, Tear(q) \/ Escape(q) \/ Kill(q) \/ WorkerExit(q) PROVE IInv'
  BY <1>6, TearStep, EscapeStep, KillStep, WorkerExitStep
<1> QED
  BY <1>1, <1>2, <1>3, <1>4, <1>5, <1>6 DEF Next

(* The inductive invariant holds in every reachable state. *)
THEOREM Invariant == Spec => []IInv
<1>1. Init => IInv
  BY InitHolds
<1>2. IInv /\ [Next]_vars => IInv'
  BY NextPreserves, ConstantsOK
<1> QED
  BY <1>1, <1>2, PTL DEF Spec

(* Every variable keeps its type, whatever the processes, proposals and     *)
(* faults are.                                                              *)
THEOREM TypeCorrect == Spec => []TypeOK
<1>1. IInv => TypeOK
  BY DEF IInv
<1> QED
  BY <1>1, Invariant, PTL

(* A worker on the GPU belongs to the process that holds the lock: the      *)
(* flock outlives a killed controller for as long as its worker shares the  *)
(* open file.  Only the survivor of an interrupted command, whose process   *)
(* has given the lock up and waits for it, may overlap another worker.      *)
THEOREM GpuIsLockedAlways == Spec => []GpuIsLocked
<1>1. ASSUME IInv PROVE GpuIsLocked
  <2>1. \A q \in Procs : OnGpu(q) => lock = q \/ (worker[q] = "survivor" /\ pc[q] = "linger")
    BY <1>1 DEF IInv, LockInv, OnGpu, Active, BatchPhase
  <2> QED
    BY <2>1 DEF GpuIsLocked
<1> QED
  BY <1>1, Invariant, PTL

(* No invocation of the runner escapes the budget: through crashes, escapes *)
(* and recoveries it is consumed, reserved, or explicitly released.         *)
THEOREM LaunchesAreCovered == Spec => []LaunchesCovered
<1>1. ASSUME IInv PROVE LaunchesCovered
  <2> SUFFICES ASSUME NEW p \in Ids
               PROVE  launched[p] <= Charge(session.ledger[p]) + ReleasedUnits(session.ledger[p])
    BY DEF LaunchesCovered
  <2> DEFINE e == session.ledger[p]
  <2>1. e \in Entry /\ Justified(e, p) /\ launched[p] \in Nat
    BY <1>1 DEF IInv, TypeOK, IsSession, LedgerInv
  <2>2. e.st \in Terminal \cup Recoverable \cup {"absent"}
        /\ e.consumed \in Nat /\ e.reserved \in Nat /\ ReleasedUnits(e) \in Nat
    BY <2>1 DEF Entry, ReleasedUnits
  <2> HIDE DEF e
  <2>3. launched[p] <= e.consumed + e.reserved + ReleasedUnits(e)
    BY <2>1, <2>2 DEF Justified, Terminal, Recoverable
  <2> QED
    BY <2>3 DEF Charge, e
<1> QED
  BY <1>1, Invariant, PTL

(* Nothing is charged without a conclusive result.json on disk, unless the  *)
(* operator resolved it with "consume".                                     *)
THEOREM ChargesAreBacked == Spec => []ChargesBacked
<1>1. ASSUME IInv PROVE ChargesBacked
  <2> SUFFICES ASSUME NEW p \in Ids
               PROVE  session.ledger[p].consumed <= durable[p] + ForcedUnits(session.ledger[p])
    BY DEF ChargesBacked
  <2> DEFINE e == session.ledger[p]
  <2>1. /\ e \in Entry /\ Justified(e, p) /\ durable[p] \in Nat
        /\ batch[p] \in BatchRecord /\ batch[p].conf <= durable[p]
    BY <1>1 DEF IInv, TypeOK, IsSession, LedgerInv, BatchInv
  <2>2. e.st \in Terminal \cup Recoverable \cup {"absent"}
        /\ e.consumed \in Nat /\ ForcedUnits(e) \in Nat /\ batch[p].conf \in Nat
    BY <2>1 DEF Entry, ForcedUnits, BatchRecord
  <2> HIDE DEF e
  <2>3. e.consumed <= durable[p] + ForcedUnits(e)
    BY <2>1, <2>2 DEF Justified, Unspent, Terminal, Recoverable
  <2> QED
    BY <2>3 DEF e
<1> QED
  BY <1>1, Invariant, PTL

(* A final batch record lists every invocation that was launched.           *)
THEOREM FinalBatchesAreProof == Spec => []FinalBatchIsProof
<1>1. ASSUME IInv PROVE FinalBatchIsProof
  BY <1>1 DEF IInv, BatchInv, FinalBatchIsProof
<1> QED
  BY <1>1, Invariant, PTL

(* A settled proposal keeps no reservation, and "completed" and             *)
(* "interrupted" say exactly how many invocations ran.                      *)
THEOREM SettledAreExact == Spec => []SettledIsExact
<1>1. ASSUME IInv PROVE SettledIsExact
  BY <1>1 DEF IInv, LedgerInv, Justified, SettledIsExact
<1> QED
  BY <1>1, Invariant, PTL

(* A settled proposal is never reopened, recharged or run again: only the   *)
(* holder of the lock saves, and it changes no entry but its own, which is  *)
(* not settled.                                                             *)
THEOREM SettledStayFinal == Spec => SettledIsFinal
<1> DEFINE Kept ==
      \A p \in Ids : session.ledger[p].st \in Terminal =>
        session'.ledger[p] = session.ledger[p] /\ launched'[p] = launched[p]
<1>1. ASSUME IInv, [Next]_vars PROVE Kept
  <2> SUFFICES ASSUME NEW p \in Ids, session.ledger[p].st \in Terminal
               PROVE  session'.ledger[p] = session.ledger[p] /\ launched'[p] = launched[p]
    OBVIOUS
  <2>1. ASSUME NEW q \in Procs, SaveRejection(q)
        PROVE  session'.ledger = session.ledger /\ launched' = launched
    BY <1>1, <2>1 DEF IInv, HolderInv, Holder, SaveRejection, Active
  <2>2. ASSUME NEW q \in Procs, SaveAccepted(q) \/ SaveRunning(q) \/ SaveFinal(q)
        PROVE  session'.ledger[p] = session.ledger[p] /\ launched' = launched
    <3>1. Holder(q) /\ pc[q] \in {"save_accepted", "save_running", "save_final"}
      BY <1>1, <2>2 DEF IInv, HolderInv, SaveAccepted, SaveRunning, SaveFinal, Active, SubmitPhase
    <3>2. p # cur[q]
      BY <3>1 DEF Holder, Terminal, Recoverable
    <3>3. mem[q].ledger[p] = session.ledger[p]
      BY <3>1, <3>2 DEF Holder
    <3>4. CASE SaveRunning(q)
      <4>1. session' = [mem[q] EXCEPT !.ledger[cur[q]].st = "running"]
        BY <1>1, <3>4 DEF SaveRunning, IInv, TypeOK
      <4>2. session'.ledger[p] = mem[q].ledger[p]
        BY <1>1, <3>2, <4>1 DEF IInv, TypeOK, IsSession
      <4> QED
        BY <3>3, <3>4, <4>2 DEF SaveRunning
    <3> QED
      BY <2>2, <3>3, <3>4 DEF SaveAccepted, SaveFinal
  <2>3. ASSUME NEW q \in Procs, Launch(q)
        PROVE  session' = session /\ launched'[p] = launched[p]
    <3>1. cur[q] # p
      BY <1>1, <2>3 DEF IInv, HolderInv, Holder, Launch, Active, BatchPhase, Terminal
    <3> QED
      BY <1>1, <2>3, <3>1 DEF Launch, IInv, TypeOK
  <2>4. CASE UNCHANGED vars
    BY <2>4 DEF vars
  <2>5. ASSUME NEW q \in Procs, Step(q)
        PROVE  session'.ledger[p] = session.ledger[p] /\ launched'[p] = launched[p]
    BY <2>1, <2>2, <2>3, <2>5
    DEF Step, MakeDirectory, DirectoryExists, OpenBatch, RefuseBatch, ChildRecorded, ChildRaised,
        PersistEntry, FinishBatch, BatchRaises, Settle, SettleAfterError
  <2>6. ASSUME NEW q \in Procs,
               \/ Tear(q) \/ Escape(q) \/ Kill(q) \/ WorkerExit(q)
               \/ \E sub \in Submissions : BeginRejection(q, sub) \/ BeginSubmission(q, sub)
               \/ \E x \in Ids, r \in Resolutions : Recover(q, x, r)
        PROVE  session' = session /\ launched' = launched
    BY <2>6 DEF Tear, Escape, Kill, WorkerExit, BeginRejection, BeginSubmission, Recover
  <2> QED
    BY <1>1, <2>4, <2>5, <2>6 DEF Next
<1>2. Kept => (\A p \in Ids : session.ledger[p].st \in Terminal =>
                /\ session'.ledger[p] = session.ledger[p]
                /\ launched'[p] = launched[p])
  OBVIOUS
<1> QED
  BY <1>1, <1>2, Invariant, PTL DEF Spec, SettledIsFinal
-----------------------------------------------------------------------------
FileLog(p) == [status |-> batch[p].status, listed |-> batch[p].conf + batch[p].unc]

(* A step that leaves the batch files and the launches alone. *)
LEMMA LogStutters == ASSUME UNCHANGED <<batch, launched>> PROVE UNCHANGED Log!vars
  BY DEF Log!vars

(* A step that writes one batch file and launches nothing. *)
LEMMA LogWrites ==
  ASSUME IInv, NEW p \in Ids, NEW b \in BatchRecord, batch' = [batch EXCEPT ![p] = b],
         UNCHANGED launched,
         \/ b.status = batch[p].status /\ b.conf + b.unc = batch[p].conf + batch[p].unc
         \/ /\ batch[p].status = "none" /\ b.conf + b.unc = 0
            /\ b.status \in {"running", "configuration_failed"}
         \/ /\ batch[p].status = "running" /\ launched[p] = b.conf + b.unc
            /\ \/ /\ launched[p] = batch[p].conf + batch[p].unc + 1
                  /\ b.status \in {"running", "interrupted"}
               \/ /\ launched[p] = batch[p].conf + batch[p].unc
                  /\ b.status \in {"success", "completed_with_failures"}
  PROVE  [Log!Next]_(Log!vars)
<1> DEFINE log == [i \in Ids |-> FileLog(i)]
           new == [status |-> b.status, listed |-> b.conf + b.unc]
<1>1. log' = [log EXCEPT ![p] = new]
  <2>1. batch' = [i \in Ids |-> IF i = p THEN b ELSE batch[i]]
    BY DEF IInv, TypeOK
  <2> QED
    BY <2>1 DEF FileLog
<1>2. log[p] = FileLog(p)
  OBVIOUS
<1>3. CASE b.status = batch[p].status /\ b.conf + b.unc = batch[p].conf + batch[p].unc
  <2>1. new = log[p]
    BY <1>2, <1>3 DEF FileLog
  <2>2. log' = log
    BY <1>1, <2>1
  <2> QED
    BY <2>2 DEF Log!vars, FileLog
<1>4. CASE /\ batch[p].status = "none" /\ b.conf + b.unc = 0
           /\ b.status \in {"running", "configuration_failed"}
  <2>1. Log!Open(p)
    BY <1>1, <1>4 DEF Log!Open, Log!Write, FileLog
  <2> QED
    BY <2>1 DEF Log!Next
<1>5. CASE /\ batch[p].status = "running" /\ launched[p] = b.conf + b.unc
           /\ launched[p] = batch[p].conf + batch[p].unc + 1
           /\ b.status \in {"running", "interrupted"}
  <2>1. Log!Record(p)
    BY <1>1, <1>5 DEF Log!Record, Log!Write, FileLog
  <2> QED
    BY <2>1 DEF Log!Next
<1>6. CASE /\ batch[p].status = "running" /\ launched[p] = b.conf + b.unc
           /\ launched[p] = batch[p].conf + batch[p].unc
           /\ b.status \in {"success", "completed_with_failures"}
  <2>1. Log!Close(p)
    BY <1>1, <1>6 DEF Log!Close, Log!Write, FileLog
  <2> QED
    BY <2>1 DEF Log!Next
<1> QED
  BY <1>3, <1>4, <1>5, <1>6

(* Every write of a batch file, complete or cut short, is a step of its log. *)
LEMMA LogFileStep ==
  ASSUME IInv, NEW q \in Procs,
         OpenBatch(q) \/ RefuseBatch(q) \/ PersistEntry(q) \/ FinishBatch(q) \/ BatchRaises(q)
  PROVE  [Log!Next]_(Log!vars)
<1> DEFINE p == cur[q]
           r == run[q]
<1>1. /\ pc[q] \in {"open", "persist", "loop"} /\ pc[q] \in BatchPhase
      /\ pc[q] = "loop" => Stopped(r)
      /\ UNCHANGED launched
  BY DEF OpenBatch, RefuseBatch, PersistEntry, FinishBatch, BatchRaises, BatchPhase
<1>2. /\ p \in Ids /\ Holder(q) /\ r \in RunRecord /\ batch[p] \in BatchRecord
      /\ launched[p] \in Nat
  BY <1>1, BatchPremise
<1>3. PICK b \in PendingBatch(q) \cup {batch[p]} : batch' = [batch EXCEPT ![p] = b]
  <2>1. CASE OpenBatch(q)
    <3>1. run'[q].status = "running" /\ run'[q].conf = 0 /\ run'[q].unc = 0
      BY <2>1 DEF OpenBatch, IInv, TypeOK
    <3>2. Persisted(run'[q]) = [NoBatch EXCEPT !.status = "running"]
      BY <3>1 DEF Persisted, NoBatch
    <3> QED
      BY <2>1, <3>2 DEF OpenBatch, PendingBatch
  <2>2. CASE RefuseBatch(q)
    <3>1. run'[q].status = "configuration_failed" /\ run'[q].conf = 0 /\ run'[q].unc = 0
      BY <2>2 DEF RefuseBatch, IInv, TypeOK
    <3>2. Persisted(run'[q]) = [NoBatch EXCEPT !.status = "configuration_failed"]
      BY <3>1 DEF Persisted, NoBatch
    <3> QED
      BY <2>2, <3>2 DEF RefuseBatch, PendingBatch
  <2>3. CASE PersistEntry(q)
    BY <2>3 DEF PersistEntry, PendingBatch
  <2>4. CASE FinishBatch(q)
    <3>1. run'[q] = [r EXCEPT !.status = FinalStatus(r)]
      BY <2>4 DEF FinishBatch, IInv, TypeOK
    <3>2. Persisted(run'[q]) = [Persisted(r) EXCEPT !.status = FinalStatus(r)]
      BY <1>2, <3>1 DEF Persisted, RunRecord
    <3> QED
      BY <2>4, <3>2 DEF FinishBatch, PendingBatch
  <2>5. CASE BatchRaises(q)
    BY <2>5 DEF BatchRaises
  <2> QED
    BY <2>1, <2>2, <2>3, <2>4, <2>5
<1>4. CASE b = batch[p]
  BY <1>1, <1>2, <1>3, <1>4, LogWrites
<1>5. CASE pc[q] = "open" /\ b \in PendingBatch(q)
  <2>1. PICK s \in {"running", "configuration_failed"} : b = [NoBatch EXCEPT !.status = s]
    BY <1>5 DEF PendingBatch
  <2>2. b.status = s /\ b.conf + b.unc = 0 /\ b \in BatchRecord
    BY <2>1 DEF NoBatch, BatchRecord, FinalBatch
  <2>3. batch[p].status = "none"
    BY <1>2, <1>5 DEF Holder, NoBatch
  <2> QED
    BY <1>1, <1>2, <1>3, <2>2, <2>3, LogWrites
<1>6. CASE pc[q] = "persist" /\ b \in PendingBatch(q)
  <2>1. b = Persisted(r)
    BY <1>6 DEF PendingBatch
  <2>2. b \in BatchRecord /\ b.status = r.status /\ b.conf + b.unc = r.conf + r.unc
    BY <1>2, <2>1, RunTypes DEF Persisted
  <2>3. RunInv(q, p, session.ledger[p])
    BY <1>2, <1>6 DEF Holder
  <2> QED
    BY <1>1, <1>2, <1>3, <1>6, <2>2, <2>3, LogWrites DEF RunInv
<1>7. CASE pc[q] = "loop" /\ b \in PendingBatch(q)
  <2> DEFINE f == FinalStatus(r)
  <2>1. b = [Persisted(r) EXCEPT !.status = f]
    BY <1>7 DEF PendingBatch
  <2>2. RunInv(q, p, session.ledger[p])
    BY <1>2, <1>7 DEF Holder
  <2>3. \/ r.status = "interrupted" /\ f = "interrupted"
        \/ r.status = "running" /\ f \in {"success", "completed_with_failures"}
    BY <1>7, <2>2 DEF RunInv, FinalStatus
  <2> HIDE DEF f
  <2>4. b.status = f /\ b.conf = r.conf /\ b.unc = r.unc /\ b \in BatchRecord
    BY <1>2, <2>1, <2>3, RunTypes DEF BatchRecord, FinalBatch, Persisted
  <2>5. /\ batch[p].status = r.status /\ batch[p].conf = r.conf /\ batch[p].unc = r.unc
        /\ launched[p] = r.conf + r.unc
    BY <1>7, <2>2 DEF RunInv, Persisted
  <2> QED
    BY <1>1, <1>2, <1>3, <2>3, <2>4, <2>5, LogWrites
<1> QED
  BY <1>1, <1>4, <1>5, <1>6, <1>7

(* Every step of the session is a step of the abstract log of one proposal, *)
(* or leaves all logs alone.                                                *)
LEMMA LogStep == ASSUME IInv, ConstantsOK, [Next]_vars PROVE [Log!Next]_(Log!vars)
<1>1. CASE UNCHANGED vars
  BY <1>1, LogStutters DEF vars
<1>2. ASSUME NEW q \in Procs, NEW sub \in Submissions,
             BeginRejection(q, sub) \/ BeginSubmission(q, sub)
      PROVE  [Log!Next]_(Log!vars)
  BY <1>2, LogStutters DEF BeginRejection, BeginSubmission
<1>3. ASSUME NEW q \in Procs, NEW p \in Ids, NEW r \in Resolutions, Recover(q, p, r)
      PROVE  [Log!Next]_(Log!vars)
  BY <1>3, LogStutters DEF Recover
<1>4. ASSUME NEW q \in Procs, Tear(q) \/ Escape(q) \/ Kill(q) \/ WorkerExit(q)
      PROVE  [Log!Next]_(Log!vars)
  BY <1>4, LogStutters DEF Tear, Escape, Kill, WorkerExit
<1>5. ASSUME NEW q \in Procs,
             \/ SaveRejection(q) \/ MakeDirectory(q) \/ DirectoryExists(q)
             \/ SaveAccepted(q) \/ SaveRunning(q) \/ Settle(q) \/ SettleAfterError(q) \/ SaveFinal(q)
             \/ \E o \in {"success", "failed", "interrupted"} : ChildRecorded(q, o)
             \/ \E i \in BOOLEAN : ChildRaised(q, i)
      PROVE  [Log!Next]_(Log!vars)
  BY <1>5, LogStutters DEF SaveRejection, MakeDirectory, DirectoryExists, SaveAccepted,
     SaveRunning, Settle, SettleAfterError, SaveFinal, ChildRecorded, ChildRaised
<1>6. ASSUME NEW q \in Procs,
             OpenBatch(q) \/ RefuseBatch(q) \/ PersistEntry(q) \/ FinishBatch(q) \/ BatchRaises(q)
      PROVE  [Log!Next]_(Log!vars)
  BY <1>6, LogFileStep
<1>7. ASSUME NEW q \in Procs, Launch(q) PROVE [Log!Next]_(Log!vars)
  <2>1. Holder(q) /\ cur[q] \in Ids /\ run[q] \in RunRecord
    BY <1>7 DEF IInv, HolderInv, Holder, Launch, Active, BatchPhase, TypeOK
  <2>2. /\ batch[cur[q]] = Persisted(run[q]) /\ run[q].status = "running"
        /\ launched[cur[q]] = run[q].conf + run[q].unc
    BY <1>7, <2>1 DEF Holder, RunInv, Launch, Stopped
  <2>3. Log!Launch(cur[q])
    BY <1>7, <2>1, <2>2 DEF Launch, Log!Launch, Persisted
  <2> QED
    BY <2>1, <2>3 DEF Log!Next
<1> QED
  BY <1>1, <1>2, <1>3, <1>4, <1>5, <1>6, <1>7 DEF Next, Step

(* Whatever the commands, crashes and races: the batch file of every        *)
(* proposal grows as BatchLog promises those who recover the session.       *)
THEOREM SessionImplementsBatchLog == Spec => ImplementsBatchLog
<1>1. Init => Log!Init
  BY DEF Init, Log!Init, NoBatch
<1>2. IInv /\ [Next]_vars => [Log!Next]_(Log!vars)
  BY LogStep, ConstantsOK
<1> QED
  BY <1>1, <1>2, Invariant, PTL DEF Spec, ImplementsBatchLog, Log!Spec
-----------------------------------------------------------------------------
(* What a save of session.json may rely on, and what it keeps. *)

(* What the holder of the lock is about to save is ahead of session.json,  *)
(* and the settled record in it is already in proposal_state.json.         *)
Ahead(q) ==
  /\ session.rejected \subseteq mem[q].rejected
  /\ session.seen \subseteq mem[q].seen
  /\ pc[q] = "save_final" =>
       /\ rec[cur[q]] = mem[q].ledger[cur[q]]
       /\ mem[q].ledger[cur[q]].st # "absent"
       /\ mem[q].ledger[cur[q]].consumed >= session.ledger[cur[q]].consumed

SaveInv == RecordPrecedesSession /\ \A q \in Procs : pc[q] \in Active => Ahead(q)

(* A save keeps what session.json had: rejections and fingerprints stay,   *)
(* and every proposal stays with no less consumed.                         *)
Keeps ==
  /\ session.rejected \subseteq session'.rejected
  /\ session.seen \subseteq session'.seen
  /\ \A p \in Ids : session.ledger[p].st # "absent" =>
       /\ session'.ledger[p].st # "absent"
       /\ session'.ledger[p].consumed >= session.ledger[p].consumed
-----------------------------------------------------------------------------
(* The records of a session have their types. *)
LEMMA EntriesAreTyped ==
  ASSUME TypeOK
  PROVE  /\ \A p \in Ids : session.ledger[p] \in Entry /\ session.ledger[p].consumed \in Nat
         /\ \A q \in Procs, p \in Ids : mem[q].ledger[p] \in Entry
BY DEF TypeOK, IsSession, Entry

(* A session that stays as it is keeps everything. *)
LEMMA SameSessionKeeps == ASSUME TypeOK, session' = session PROVE Keeps
BY EntriesAreTyped DEF Keeps

(* A step that writes neither file and gets no process ahead.              *)
LEMMA SavesRest ==
  ASSUME SaveInv, UNCHANGED <<session, rec>>,
         \A r \in Procs : pc'[r] \in Active =>
           /\ pc[r] \in Active /\ mem'[r] = mem[r]
           /\ pc'[r] = "save_final" => pc[r] = "save_final" /\ cur'[r] = cur[r]
  PROVE  SaveInv'
<1>1. RecordPrecedesSession'
  BY DEF SaveInv, RecordPrecedesSession
<1> QED
  BY <1>1 DEF SaveInv, Ahead

(* A command that takes the lock starts from a copy of session.json.       *)
LEMMA CopyTaken ==
  ASSUME SaveInv, UNCHANGED <<session, rec>>, NEW q \in Procs,
         \A r \in Procs \ {q} : pc'[r] \notin Active,
         pc'[q] # "save_final",
         session.rejected \subseteq mem'[q].rejected, session.seen \subseteq mem'[q].seen
  PROVE  SaveInv'
<1>1. RecordPrecedesSession'
  BY DEF SaveInv, RecordPrecedesSession
<1> QED
  BY <1>1 DEF SaveInv, Ahead

(* proposal_state.json is replaced while session.json has the proposal     *)
(* unsettled.                                                              *)
LEMMA RecordWritten ==
  ASSUME TypeOK, SaveInv, NEW q \in Procs, NEW p \in Ids, NEW f \in Entry, NEW s,
         IsSession(s), session.rejected \subseteq s.rejected, session.seen \subseteq s.seen,
         f.st # "absent", f.consumed >= session.ledger[p].consumed,
         session.ledger[p].st \notin Terminal,
         rec' = [rec EXCEPT ![p] = f], mem' = [mem EXCEPT ![q] = WithEntry(s, p, f)],
         cur'[q] = p, session' = session,
         \A r \in Procs \ {q} : pc'[r] \notin Active
  PROVE  SaveInv'
<1>1. rec \in [Ids -> Entry] /\ mem = [r \in Procs |-> mem[r]]
  BY DEF TypeOK
<1>2. RecordPrecedesSession'
  BY <1>1 DEF SaveInv, RecordPrecedesSession
<1>3. /\ mem'[q] = WithEntry(s, p, f) /\ rec'[p] = f
  BY <1>1
<1>4. /\ mem'[q].ledger[p] = f
      /\ mem'[q].rejected = s.rejected /\ mem'[q].seen = s.seen
  <2>1. /\ WithEntry(s, p, f).ledger = [s.ledger EXCEPT ![p] = f]
        /\ WithEntry(s, p, f).rejected = s.rejected /\ WithEntry(s, p, f).seen = s.seen
    BY WithEntryIs
  <2>2. s.ledger \in [Ids -> Entry]
    BY DEF IsSession
  <2> QED
    BY <1>3, <2>1, <2>2
<1>5. Ahead(q)'
  BY <1>3, <1>4 DEF Ahead
<1> QED
  BY <1>2, <1>5 DEF SaveInv

(* Recovery never takes back a consumed unit, and decides a state.         *)
LEMMA RecoveryAdds ==
  ASSUME NEW e \in Entry, NEW b \in BatchRecord, NEW res \in Resolutions
  PROVE  RecoveredEntry(e, b, res).st # "absent" /\ RecoveredEntry(e, b, res).consumed >= e.consumed
<1>1. e.consumed \in Nat /\ e.reserved \in Nat /\ b.conf \in Nat /\ b.unc \in Nat
  BY DEF Entry, BatchRecord
<1>2. Moved(e, b) \in Nat /\ Moved(e, b) <= e.reserved
  BY <1>1 DEF Moved, LesserOf
<1>3. StillReserved(e, b) \in Nat
  BY <1>1, <1>2 DEF StillReserved, LesserOf
<1>4. RecoveredEntry(e, b, res).consumed =
        e.consumed + Moved(e, b) + IF res = "consume" THEN StillReserved(e, b) ELSE 0
  BY DEF RecoveredEntry
<1>5. RecoveredEntry(e, b, res).st # "absent"
  BY DEF RecoveredEntry, ResolvedState
<1> QED
  BY <1>1, <1>2, <1>3, <1>4, <1>5
-----------------------------------------------------------------------------
(* Every step keeps SaveInv, and what session.json had.                    *)
SavesKept == SaveInv' /\ Keeps

(* The saves of a rejection and of a settled record, which end a command.  *)
LEMMA LastSaves ==
  ASSUME IInv, SaveInv, NEW q \in Procs, SaveRejection(q) \/ SaveFinal(q)
  PROVE  SavesKept
<1>1. pc[q] \in Active /\ Holder(q) /\ Ahead(q) /\ (SaveFinal(q) => pc[q] = "save_final")
  BY DEF IInv, HolderInv, SaveInv, SaveRejection, SaveFinal, Active
<1>2. \A r \in Procs : pc'[r] \notin Active
  BY <1>1, UnlockIsQuiet DEF IInv, SaveRejection, SaveFinal
<1>3. session' = mem[q] /\ rec' = rec
  BY DEF SaveRejection, SaveFinal
<1>4. CASE SaveRejection(q)
  <2>1. session'.ledger = session.ledger
    BY <1>1, <1>3, <1>4 DEF Holder, SaveRejection
  <2>2. RecordPrecedesSession'
    BY <1>3, <2>1 DEF SaveInv, RecordPrecedesSession
  <2>3. Keeps
    BY <1>1, <1>3, <2>1, EntriesAreTyped DEF Keeps, Ahead, IInv
  <2> QED
    BY <1>2, <2>2, <2>3 DEF SavesKept, SaveInv
<1>5. CASE SaveFinal(q)
  <2>1. /\ \A p \in Ids : p # cur[q] => session'.ledger[p] = session.ledger[p]
        /\ rec[cur[q]] = session'.ledger[cur[q]] /\ session'.ledger[cur[q]].st # "absent"
        /\ session'.ledger[cur[q]].consumed >= session.ledger[cur[q]].consumed
    BY <1>1, <1>3, <1>5 DEF Holder, Ahead
  <2>2. RecordPrecedesSession'
    BY <1>3, <2>1 DEF SaveInv, RecordPrecedesSession
  <2>3. Keeps
    <3>1. \A p \in Ids : session.ledger[p].consumed >= session.ledger[p].consumed
      BY EntriesAreTyped DEF IInv
    <3> QED
      BY <1>1, <1>3, <2>1, <3>1 DEF Keeps, Ahead
  <2> QED
    BY <1>2, <2>2, <2>3 DEF SavesKept, SaveInv
<1> QED
  BY <1>4, <1>5

(* The saves of an accepted and of a running proposal.                     *)
LEMMA FirstSaves ==
  ASSUME IInv, SaveInv, NEW q \in Procs, SaveAccepted(q) \/ SaveRunning(q)
  PROVE  SavesKept
<1>1. /\ pc[q] \in {"save_accepted", "save_running"} /\ pc[q] \in Active
      /\ Holder(q) /\ Ahead(q) /\ cur[q] \in Ids
  BY DEF IInv, HolderInv, SaveInv, SaveAccepted, SaveRunning, Active, SubmitPhase, Holder
<1>2. \A r \in Procs \ {q} : pc'[r] = pc[r] /\ pc[r] \notin Active
  BY <1>1, OthersRest DEF IInv, TypeOK, SaveAccepted, SaveRunning
<1>3. pc'[q] # "save_final"
  BY DEF IInv, TypeOK, SaveAccepted, SaveRunning
<1>4. /\ session' = mem'[q] /\ rec' = rec
      /\ session'.rejected = mem[q].rejected /\ session'.seen = mem[q].seen
      /\ \A p \in Ids : p # cur[q] => session'.ledger[p] = mem[q].ledger[p]
      /\ session'.ledger[cur[q]].st \in {"accepted", "running"}
      /\ session'.ledger[cur[q]].consumed = mem[q].ledger[cur[q]].consumed
  <2>1. CASE SaveAccepted(q)
    BY <1>1, <2>1 DEF SaveAccepted, Holder
  <2>2. CASE SaveRunning(q)
    <3> DEFINE m == mem[q]
               n == [m EXCEPT !.ledger[cur[q]].st = "running"]
    <3>1. session' = n /\ mem'[q] = n
      BY <2>2 DEF SaveRunning, IInv, TypeOK
    <3>2. /\ m = [ledger |-> m.ledger, rejected |-> m.rejected, seen |-> m.seen,
                  remaining |-> m.remaining]
          /\ m.ledger \in [Ids -> Entry]
      BY DEF IInv, TypeOK, IsSession
    <3>3. /\ n.rejected = m.rejected /\ n.seen = m.seen
          /\ n.ledger = [m.ledger EXCEPT ![cur[q]] = [@ EXCEPT !.st = "running"]]
      BY <3>2
    <3>4. m.ledger[cur[q]] \in Entry
      BY <1>1, <3>2
    <3> HIDE DEF n, m
    <3>5. /\ n.ledger[cur[q]] = [m.ledger[cur[q]] EXCEPT !.st = "running"]
          /\ \A p \in Ids : p # cur[q] => n.ledger[p] = m.ledger[p]
      BY <1>1, <3>2, <3>3
    <3>6. n.ledger[cur[q]].st = "running" /\ n.ledger[cur[q]].consumed = m.ledger[cur[q]].consumed
      BY <3>4, <3>5 DEF Entry
    <3> QED
      BY <2>2, <3>1, <3>3, <3>5, <3>6 DEF m, SaveRunning
  <2> QED
    BY <2>1, <2>2
<1>5. /\ \A p \in Ids : p # cur[q] => session'.ledger[p] = session.ledger[p]
      /\ session.ledger[cur[q]].st = "absent" \/ session'.ledger[cur[q]].consumed = session.ledger[cur[q]].consumed
  BY <1>1, <1>4 DEF Holder
<1>6. RecordPrecedesSession'
  BY <1>4, <1>5 DEF SaveInv, RecordPrecedesSession, Terminal
<1>7. Keeps
  <2>1. \A p \in Ids : session.ledger[p].consumed >= session.ledger[p].consumed
    BY EntriesAreTyped DEF IInv
  <2> QED
    BY <1>1, <1>4, <1>5, <2>1 DEF Keeps, Ahead
<1>8. Ahead(q)'
  BY <1>3, <1>4 DEF Ahead
<1> QED
  BY <1>2, <1>6, <1>7, <1>8 DEF SavesKept, SaveInv

(* Taking the lock, for a rejection or for a submission.                   *)
LEMMA FirstCopies ==
  ASSUME IInv, ConstantsOK, SaveInv, NEW q \in Procs, NEW sub \in Submissions,
         BeginRejection(q, sub) \/ BeginSubmission(q, sub)
  PROVE  SavesKept
<1>1. \A r \in Procs : pc[r] \notin Active
  BY NobodyActive DEF IInv, BeginRejection, BeginSubmission
<1>2. /\ \A r \in Procs \ {q} : pc'[r] \notin Active
      /\ pc'[q] # "save_final" /\ UNCHANGED <<session, rec>>
  BY <1>1 DEF IInv, TypeOK, BeginRejection, BeginSubmission
<1>3. IsSession(session) /\ mem = [r \in Procs |-> mem[r]]
  BY DEF IInv, TypeOK
<1>4. session.rejected \subseteq mem'[q].rejected /\ session.seen \subseteq mem'[q].seen
  <2>1. CASE BeginRejection(q, sub)
    <3>1. mem'[q] = [session EXCEPT !.rejected = @ \cup {sub.id}]
      BY <1>3, <2>1 DEF BeginRejection
    <3> QED
      BY <1>3, <3>1, RecordUpdates
  <2>2. CASE BeginSubmission(q, sub)
    <3> DEFINE w == WithEntry(session, sub.id, Accepted(sub))
               new == {sub.cands[i].fp : i \in DOMAIN sub.cands}
    <3>1. mem'[q] = [w EXCEPT !.seen = @ \cup new]
      BY <1>3, <2>2 DEF BeginSubmission
    <3>2. sub.id \in Ids /\ Accepted(sub) \in Entry
      BY <2>2, AcceptedIsJustified DEF BeginSubmission, Invalid, Unacceptable, ConstantsOK
    <3>3. IsSession(w) /\ w.rejected = session.rejected /\ w.seen = session.seen
      BY <1>3, <3>2, WithEntryIs
    <3> HIDE DEF w, new
    <3>4. mem'[q].rejected = w.rejected /\ mem'[q].seen = w.seen \cup new
      BY <3>1, <3>3, RecordUpdates
    <3> QED
      BY <3>3, <3>4
  <2> QED
    BY <2>1, <2>2
<1> QED
  BY <1>2, <1>4, CopyTaken, SameSessionKeeps DEF SavesKept, IInv

(* Writing proposal_state.json, after the batch or in a recovery.          *)
LEMMA Records ==
  ASSUME IInv, ConstantsOK, SaveInv, NEW q \in Procs,
         \/ Settle(q) \/ SettleAfterError(q)
         \/ \E p \in Ids, res \in Resolutions : Recover(q, p, res)
  PROVE  SavesKept
<1>1. session' = session /\ Keeps
  BY SameSessionKeeps DEF Settle, SettleAfterError, Recover, IInv
<1>2. CASE Settle(q) \/ SettleAfterError(q)
  <2> DEFINE p == cur[q]
             e == mem[q].ledger[p]
             f == IF Settle(q) THEN SettledEntry(e, run[q]) ELSE FailedEntry(e, batch[p])
  <2>1. /\ pc[q] \in {"settle", "settle_error"} /\ pc[q] \in Active /\ Holder(q) /\ Ahead(q)
        /\ p \in Ids /\ session.ledger[p].st = "running" /\ e = session.ledger[p]
    BY <1>2 DEF IInv, HolderInv, SaveInv, Settle, SettleAfterError, Active, SubmitPhase, Holder
  <2>2. \A r \in Procs \ {q} : pc'[r] \notin Active
    BY <1>2, <2>1, OthersRest DEF IInv, TypeOK, Settle, SettleAfterError, Record
  <2>3. /\ rec' = [rec EXCEPT ![p] = f] /\ mem' = [mem EXCEPT ![q] = WithEntry(mem[q], p, f)]
        /\ cur'[q] = p
    BY <1>2 DEF IInv, TypeOK, Settle, SettleAfterError, Record
  <2>4. f \in Entry /\ f.st # "absent" /\ f.consumed \in Nat
    <3>1. rec' \in [Ids -> Entry] /\ rec \in [Ids -> Entry]
      BY <1>2, SettleStep, SettleAfterErrorStep DEF IInv, TypeOK
    <3>2. rec'[p] = f
      BY <2>1, <2>3, <3>1
    <3>3. f \in Entry
      BY <2>1, <3>1, <3>2
    <3>4. f.st # "absent"
      BY DEF SettledEntry, SettledState, FailedEntry
    <3> QED
      BY <3>3, <3>4 DEF Entry
  <2>5. session.ledger[p].consumed = 0
    BY <2>1 DEF IInv, LedgerInv, Justified, Unspent
  <2>6. IsSession(mem[q]) /\ TypeOK
    BY DEF IInv, TypeOK
  <2> HIDE DEF f, p, e
  <2>7. f.consumed >= session.ledger[p].consumed
    BY <2>4, <2>5
  <2>8. session.rejected \subseteq mem[q].rejected /\ session.seen \subseteq mem[q].seen
        /\ session.ledger[p].st \notin Terminal
    BY <2>1 DEF Ahead, Terminal
  <2> QED
    BY <1>1, <2>1, <2>2, <2>3, <2>4, <2>6, <2>7, <2>8, RecordWritten DEF SavesKept
<1>3. ASSUME NEW p \in Ids, NEW res \in Resolutions, Recover(q, p, res) PROVE SavesKept
  <2> DEFINE f == RecoveredEntry(session.ledger[p], batch[p], res)
  <2>1. \A r \in Procs : pc[r] \notin Active
    BY <1>3, NobodyActive DEF IInv, Recover
  <2>2. \A r \in Procs \ {q} : pc'[r] \notin Active
    BY <1>3, <2>1 DEF IInv, TypeOK, Recover
  <2>3. /\ rec' = [rec EXCEPT ![p] = f] /\ mem' = [mem EXCEPT ![q] = WithEntry(session, p, f)]
        /\ cur'[q] = p
    BY <1>3 DEF IInv, TypeOK, Recover
  <2>4. session.ledger[p] \in Entry /\ batch[p] \in BatchRecord /\ session.ledger[p].st \notin Terminal
    BY <1>3 DEF IInv, TypeOK, IsSession, Recover, Recoverable, Terminal
  <2>5. f.st # "absent" /\ f.consumed >= session.ledger[p].consumed
    BY <2>4, RecoveryAdds
  <2>6. f \in Entry
    <3>1. rec' \in [Ids -> Entry] /\ rec \in [Ids -> Entry]
      BY <1>3, RecoverStep DEF IInv, TypeOK
    <3> QED
      BY <2>3, <3>1
  <2>7. IsSession(session) /\ TypeOK
    BY DEF IInv, TypeOK
  <2> HIDE DEF f
  <2> QED
    BY <1>1, <2>2, <2>3, <2>4, <2>5, <2>6, <2>7, RecordWritten DEF SavesKept
<1> QED
  BY <1>2, <1>3

(* All other steps write neither file, and let no process get ahead.       *)
LEMMA QuietSteps ==
  ASSUME IInv, NEW q \in Procs,
         \/ MakeDirectory(q) \/ DirectoryExists(q) \/ OpenBatch(q) \/ RefuseBatch(q) \/ Launch(q)
         \/ \E o \in {"success", "failed", "interrupted"} : ChildRecorded(q, o)
         \/ \E i \in BOOLEAN : ChildRaised(q, i)
         \/ PersistEntry(q) \/ FinishBatch(q) \/ BatchRaises(q)
         \/ Tear(q) \/ Escape(q) \/ Kill(q) \/ WorkerExit(q)
  PROVE  /\ UNCHANGED <<session, rec>>
         /\ \A r \in Procs : pc'[r] \in Active =>
              /\ pc[r] \in Active /\ mem'[r] = mem[r]
              /\ pc'[r] = "save_final" => pc[r] = "save_final" /\ cur'[r] = cur[r]
<1>1. UNCHANGED <<session, rec>>
  BY DEF MakeDirectory, DirectoryExists, OpenBatch, RefuseBatch, Launch, ChildRecorded, ChildRaised,
         PersistEntry, FinishBatch, BatchRaises, Tear, Escape, Kill, WorkerExit
<1>2. \A r \in Procs : pc'[r] \in Active =>
        /\ pc[r] \in Active /\ mem'[r] = mem[r]
        /\ pc'[r] = "save_final" => pc[r] = "save_final" /\ cur'[r] = cur[r]
  <2>1. CASE DirectoryExists(q) \/ Escape(q)
    <3>1. pc[q] \in Active /\ Unlock(q)
      BY <2>1 DEF DirectoryExists, Escape, Active, SubmitPhase
    <3> QED
      BY <3>1, UnlockIsQuiet DEF IInv
  <2>2. CASE Kill(q)
    <3>1. pc'[q] \notin Active
      BY <2>2 DEF IInv, TypeOK, Kill, Active, BatchPhase, SubmitPhase
    <3> QED
      BY <2>2, <3>1 DEF IInv, TypeOK, Kill, Forget
  <2>3. CASE Tear(q) \/ WorkerExit(q)
    BY <2>3 DEF IInv, TypeOK, Tear, WorkerExit, Active, BatchPhase, SubmitPhase
  <2>4. CASE \/ MakeDirectory(q) \/ OpenBatch(q) \/ RefuseBatch(q) \/ Launch(q)
             \/ \E o \in {"success", "failed", "interrupted"} : ChildRecorded(q, o)
             \/ \E i \in BOOLEAN : ChildRaised(q, i)
             \/ PersistEntry(q) \/ FinishBatch(q) \/ BatchRaises(q)
    <3>1. /\ pc[q] \in {"mkdir", "open", "loop", "child", "persist"}
          /\ mem' = mem /\ \E l : l # "save_final" /\ pc' = [pc EXCEPT ![q] = l]
          /\ cur' = cur
      BY <2>4 DEF MakeDirectory, OpenBatch, RefuseBatch, Launch, ChildRecorded, ChildRaised,
                  PersistEntry, FinishBatch, BatchRaises
    <3> QED
      BY <3>1 DEF IInv, TypeOK, Active, BatchPhase, SubmitPhase
  <2> QED
    BY <2>1, <2>2, <2>3, <2>4
<1> QED
  BY <1>1, <1>2

(* So they keep SaveInv.                                                   *)
LEMMA OtherSteps ==
  ASSUME IInv, SaveInv, NEW q \in Procs,
         \/ MakeDirectory(q) \/ DirectoryExists(q) \/ OpenBatch(q) \/ RefuseBatch(q) \/ Launch(q)
         \/ \E o \in {"success", "failed", "interrupted"} : ChildRecorded(q, o)
         \/ \E i \in BOOLEAN : ChildRaised(q, i)
         \/ PersistEntry(q) \/ FinishBatch(q) \/ BatchRaises(q)
         \/ Tear(q) \/ Escape(q) \/ Kill(q) \/ WorkerExit(q)
  PROVE  SavesKept
<1>1. /\ UNCHANGED <<session, rec>>
      /\ \A r \in Procs : pc'[r] \in Active =>
           /\ pc[r] \in Active /\ mem'[r] = mem[r]
           /\ pc'[r] = "save_final" => pc[r] = "save_final" /\ cur'[r] = cur[r]
  BY QuietSteps
<1> QED
  BY <1>1, SavesRest, SameSessionKeeps DEF SavesKept, IInv

(* Every step of every process: one case per group of actions.             *)
LEMMA SaveStep == ASSUME IInv, ConstantsOK, SaveInv, [Next]_vars PROVE SavesKept
<1>1. CASE UNCHANGED vars
  BY <1>1, SavesRest, SameSessionKeeps DEF vars, SavesKept, IInv
<1>2. ASSUME NEW q \in Procs, Step(q) PROVE SavesKept
  BY <1>2, LastSaves, FirstSaves, Records, OtherSteps DEF Step
<1> QED
  BY <1>1, <1>2, FirstCopies, Records, OtherSteps DEF Next

(* The inductive invariant of the saves holds of every reachable state.    *)
THEOREM SaveInvariant == Spec => [](IInv /\ SaveInv)
<1>1. Init => IInv /\ SaveInv
  <2>1. Init => SaveInv
    BY DEF Init, SaveInv, RecordPrecedesSession, Fresh, Absent, Terminal, Active, BatchPhase, SubmitPhase
  <2> QED
    BY <2>1, InitHolds
<1>2. IInv /\ SaveInv /\ [Next]_vars => (IInv /\ SaveInv)'
  BY NextPreserves, SaveStep, ConstantsOK DEF SavesKept
<1> QED
  BY <1>1, <1>2, PTL DEF Spec

(* A settled proposal's own record is on disk before session.json says so, *)
(* and nothing replaces it afterwards.                                     *)
THEOREM RecordsPrecede == Spec => []RecordPrecedesSession
<1>1. SaveInv => RecordPrecedesSession
  BY DEF SaveInv
<1> QED
  BY <1>1, SaveInvariant, PTL

(* No save of any command undoes what another one saved.                   *)
THEOREM SavesLoseNothing == Spec => NothingLost
<1>1. IInv /\ SaveInv /\ [Next]_vars => Keeps
  BY SaveStep, ConstantsOK DEF SavesKept
<1> QED
  BY <1>1, SaveInvariant, PTL DEF Spec, NothingLost, Keeps
-----------------------------------------------------------------------------
(* The budget of a session: finitely many proposals, and what they do not  *)
(* charge is left.                                                         *)
Sound(s) ==
  /\ IsFiniteSet(Proposals(s))
  /\ s.remaining >= 0
  /\ s.remaining = Total - Spent(s)

BudgetInv == Sound(session) /\ \A q \in Procs : pc[q] \in Active => Sound(mem[q])

(* What a proposal charges by its record, nothing if there is none. *)
Charged(s, p) == IF p \in Proposals(s) THEN Charge(s.ledger[p]) ELSE 0

(* Charges and their sum are numbers.                                      *)
LEMMA ChargesAreNumbers ==
  ASSUME NEW s, IsSession(s)
  PROVE  /\ \A p \in Ids : Charge(s.ledger[p]) \in Nat
         /\ IsFiniteSet(Proposals(s)) => Spent(s) \in Int
<1>1. \A p \in Ids : Charge(s.ledger[p]) \in Nat
  <2>1. \A p \in Ids : s.ledger[p].consumed \in Nat /\ s.ledger[p].reserved \in Nat
    BY DEF IsSession, Entry
  <2> QED
    BY <2>1 DEF Charge
<1> DEFINE f == [p \in Ids |-> Charge(s.ledger[p])]
<1>2. \A p \in Proposals(s) : f[p] \in Int
  BY <1>1 DEF Proposals
<1>3. Spent(s) = SumFunctionOnSet(f, Proposals(s))
  BY DEF Spent
<1> HIDE DEF f
<1> QED
  BY <1>1, <1>2, <1>3, SumTakesOut

(* Sessions whose proposals charge the same have the same budget.          *)
LEMMA SameCharges ==
  ASSUME NEW s, NEW t, Sound(s), IsSession(s), t.remaining = s.remaining,
         Proposals(t) = Proposals(s),
         \A p \in Ids : Charge(t.ledger[p]) = Charge(s.ledger[p])
  PROVE  Sound(t)
<1>1. [p \in Ids |-> Charge(t.ledger[p])] = [p \in Ids |-> Charge(s.ledger[p])]
  OBVIOUS
<1>2. Spent(t) = Spent(s)
  BY <1>1 DEF Spent
<1> QED
  BY <1>2 DEF Sound

(* A record that charges no more than was charged for its proposal, and    *)
(* was left, can be put into a session.                                    *)
LEMMA Rebudgeted ==
  ASSUME NEW s, IsSession(s), Sound(s), NEW p \in Ids, NEW e \in Entry, e.st # "absent",
         Charge(e) <= s.remaining + Charged(s, p)
  PROVE  Sound(WithEntry(s, p, e))
<1> DEFINE w == WithEntry(s, p, e)
           P == Proposals(s)
           f == [i \in Ids |-> Charge(s.ledger[i])]
           g == [i \in Ids |-> Charge(w.ledger[i])]
<1>1. IsSession(w) /\ w.ledger = [s.ledger EXCEPT ![p] = e] /\ s.ledger \in [Ids -> Entry]
  BY WithEntryIs DEF IsSession
<1>2. w.ledger[p] = e /\ \A i \in Ids \ {p} : w.ledger[i] = s.ledger[i]
  BY <1>1
<1>3. w.remaining = Total - Spent(w)
  <2> DEFINE t == [s EXCEPT !.ledger[p] = e]
  <2>1. w = [t EXCEPT !.remaining = Total - Spent(t)]
    BY DEF WithEntry, Rebudget
  <2>2. t = [ledger |-> [s.ledger EXCEPT ![p] = e], rejected |-> s.rejected,
             seen |-> s.seen, remaining |-> s.remaining]
    BY DEF IsSession
  <2> HIDE DEF t
  <2>3. w = [ledger |-> t.ledger, rejected |-> t.rejected, seen |-> t.seen,
             remaining |-> Total - Spent(t)]
    BY <2>1, <2>2
  <2> HIDE DEF w
  <2>4. w.ledger = t.ledger /\ w.remaining = Total - Spent(t)
    BY <2>3
  <2>5. Spent(t) = Spent(w)
    BY <2>4 DEF Spent, Proposals
  <2> QED
    BY <2>4, <2>5
<1> HIDE DEF w
<1>4. Proposals(w) = P \cup {p} /\ IsFiniteSet(P) /\ IsFiniteSet(P \cup {p})
  BY <1>2, FS_AddElement DEF Proposals, Sound
<1>5. \A i \in Ids : f[i] \in Int /\ g[i] \in Int /\ (i # p => g[i] = f[i])
  BY <1>1, <1>2, ChargesAreNumbers
<1>6. g[p] = Charge(e) /\ Charge(e) \in Int /\ Charged(s, p) \in Int /\ s.remaining \in Int
      /\ Total \in Int
  <2>1. Charge(e) \in Nat
    BY DEF Charge, Entry
  <2>2. Charged(s, p) \in Nat /\ Spent(s) \in Int
    BY ChargesAreNumbers DEF Charged, Sound
  <2> QED
    BY <1>2, <2>1, <2>2, ConstantsOK DEF Sound, ConstantsOK
<1>7. Spent(w) = SumFunctionOnSet(g, P \cup {p}) /\ Spent(s) = SumFunctionOnSet(f, P)
      /\ Spent(s) \in Int
  BY <1>4, ChargesAreNumbers DEF Spent
<1>8. P \subseteq Ids
  BY DEF Proposals
<1>9. Charged(s, p) = IF p \in P THEN f[p] ELSE 0
  BY DEF Charged
<1> HIDE DEF f, g, P
<1>10. Spent(w) = Spent(s) - Charged(s, p) + Charge(e)
  <2>1. CASE p \in P
    <3>1. P \cup {p} = P
      BY <2>1
    <3>2. \A i \in P : f[i] \in Int /\ g[i] \in Int
      BY <1>5, <1>8
    <3>3. \A i \in P \ {p} : g[i] = f[i]
      BY <1>5, <1>8
    <3>4. SumFunctionOnSet(g, P) = SumFunctionOnSet(f, P) - f[p] + g[p]
      BY <1>4, <2>1, <3>2, <3>3, SumChanges
    <3> QED
      BY <1>6, <1>7, <1>9, <2>1, <3>1, <3>4
  <2>2. CASE p \notin P
    <3>1. \A i \in P : g[i] = f[i] /\ g[i] \in Int
      BY <1>5, <1>8, <2>2
    <3>2. SumFunctionOnSet(g, P) = SumFunctionOnSet(f, P)
      BY <1>4, <3>1, SumsAgree
    <3>3. SumFunctionOnSet(g, P \cup {p}) = g[p] + SumFunctionOnSet(g, P)
      BY <1>4, <1>5, <2>2, <3>1, SumGrows
    <3> QED
      BY <1>6, <1>7, <1>9, <2>2, <3>2, <3>3
  <2> QED
    BY <2>1, <2>2
<1>11. s.remaining = Total - Spent(s)
  BY DEF Sound
<1>12. w.remaining >= 0
  BY <1>3, <1>6, <1>7, <1>10, <1>11
<1> QED
  BY <1>3, <1>4, <1>12 DEF Sound, w

(* Reconciling a record never charges more than it did.                    *)
LEMMA RecoveryCharges ==
  ASSUME NEW e \in Entry, NEW b \in BatchRecord, NEW res \in Resolutions
  PROVE  Charge(RecoveredEntry(e, b, res)) <= Charge(e)
<1> DEFINE left == StillReserved(e, b)
           f == RecoveredEntry(e, b, res)
<1>1. e.consumed \in Nat /\ e.reserved \in Nat /\ b.conf \in Nat /\ b.unc \in Nat
  BY DEF Entry, BatchRecord
<1>2. Moved(e, b) \in Nat /\ Moved(e, b) <= e.reserved
  BY <1>1 DEF Moved, LesserOf
<1>3. left \in Nat /\ left <= e.reserved - Moved(e, b)
  BY <1>1, <1>2 DEF StillReserved, LesserOf
<1>4. /\ f.consumed = e.consumed + Moved(e, b) + IF res = "consume" THEN left ELSE 0
      /\ f.reserved = IF res = "inspect" /\ left > 0 THEN left ELSE 0
  BY DEF RecoveredEntry
<1> HIDE DEF left, f
<1>5. f.consumed + f.reserved <= e.consumed + e.reserved
  BY <1>1, <1>2, <1>3, <1>4
<1> QED
  BY <1>5 DEF Charge, f
-----------------------------------------------------------------------------
(* Steps of BudgetInv: a step that saves nothing and gets nobody ahead.    *)
LEMMA BudgetRests ==
  ASSUME BudgetInv, UNCHANGED session,
         \A r \in Procs : pc'[r] \in Active => pc[r] \in Active /\ mem'[r] = mem[r]
  PROVE  BudgetInv'
<1>1. \A s : Sound(s)' <=> Sound(s)
  BY DEF Sound, Spent, Proposals, Charge
<1> QED
  BY <1>1 DEF BudgetInv, Sound, Spent, Proposals, Charge

(* A step after which only q may be active, with a sound session and copy. *)
LEMMA BudgetOf ==
  ASSUME NEW q \in Procs, \A r \in Procs \ {q} : pc'[r] \notin Active,
         NEW s, session' = s, Sound(s),
         NEW m, pc'[q] \in Active => mem'[q] = m /\ Sound(m)
  PROVE  BudgetInv'
<1>1. Sound(session)'
  BY DEF Sound, Spent, Proposals
<1>2. ASSUME pc'[q] \in Active PROVE Sound(mem[q])'
  BY <1>2 DEF Sound, Spent, Proposals
<1> QED
  BY <1>1, <1>2 DEF BudgetInv

(* The saves of a command: what is saved is sound.                         *)
LEMMA BudgetSaves ==
  ASSUME IInv, BudgetInv, NEW q \in Procs,
         SaveRejection(q) \/ SaveFinal(q) \/ SaveAccepted(q) \/ SaveRunning(q)
  PROVE  BudgetInv'
<1>1. pc[q] \in Active /\ Holder(q) /\ Sound(mem[q])
  BY DEF IInv, HolderInv, BudgetInv, SaveRejection, SaveFinal, SaveAccepted, SaveRunning, Active,
         SubmitPhase
<1>2. CASE SaveRejection(q) \/ SaveFinal(q)
  <2>1. \A r \in Procs : pc'[r] \notin Active
    BY <1>1, <1>2, UnlockIsQuiet DEF IInv, SaveRejection, SaveFinal
  <2>2. session' = mem[q]
    BY <1>2 DEF SaveRejection, SaveFinal
  <2> QED
    BY <1>1, <2>1, <2>2, BudgetOf
<1>3. CASE SaveAccepted(q) \/ SaveRunning(q)
  <2>1. \A r \in Procs \ {q} : pc'[r] \notin Active
    BY <1>1, <1>3, OthersRest DEF IInv, TypeOK, SaveAccepted, SaveRunning
  <2>2. CASE SaveAccepted(q)
    <3>1. session' = mem[q] /\ mem'[q] = mem[q]
      BY <2>2 DEF SaveAccepted
    <3> QED
      BY <1>1, <2>1, <3>1, BudgetOf
  <2>3. CASE SaveRunning(q)
    <3> DEFINE m == mem[q]
               n == [m EXCEPT !.ledger[cur[q]].st = "running"]
    <3>1. session' = n /\ mem'[q] = n
      BY <2>3 DEF SaveRunning, IInv, TypeOK
    <3>2. /\ m = [ledger |-> m.ledger, rejected |-> m.rejected, seen |-> m.seen,
                  remaining |-> m.remaining]
          /\ m.ledger \in [Ids -> Entry] /\ IsSession(m)
      BY DEF IInv, TypeOK, IsSession
    <3>3. /\ n.remaining = m.remaining
          /\ n.ledger = [m.ledger EXCEPT ![cur[q]] = [@ EXCEPT !.st = "running"]]
      BY <3>2
    <3>4. cur[q] \in Ids /\ m.ledger[cur[q]].st = "accepted"
      BY <1>1, <2>3 DEF Holder, SaveRunning
    <3> HIDE DEF n
    <3>5. Proposals(n) = Proposals(m) /\ \A i \in Ids : Charge(n.ledger[i]) = Charge(m.ledger[i])
      <4>1. m.ledger[cur[q]] \in Entry
        BY <3>2, <3>4
      <4>2. /\ n.ledger[cur[q]] = [m.ledger[cur[q]] EXCEPT !.st = "running"]
            /\ \A i \in Ids : i # cur[q] => n.ledger[i] = m.ledger[i]
        BY <3>2, <3>3, <3>4
      <4> HIDE DEF m
      <4>3. /\ n.ledger[cur[q]].st = "running"
            /\ n.ledger[cur[q]].consumed = m.ledger[cur[q]].consumed
            /\ n.ledger[cur[q]].reserved = m.ledger[cur[q]].reserved
        BY <4>1, <4>2 DEF Entry
      <4> QED
        BY <3>4, <4>2, <4>3 DEF Proposals, Charge
    <3>6. Sound(n)
      BY <1>1, <3>2, <3>3, <3>5, SameCharges
    <3> QED
      BY <2>1, <3>1, <3>6, BudgetOf
  <2> QED
    BY <1>3, <2>2, <2>3
<1> QED
  BY <1>2, <1>3

(* Taking the lock: a rejection charges nothing, an accepted proposal its  *)
(* whole cost, which is left.                                              *)
LEMMA BudgetCopies ==
  ASSUME IInv, ConstantsOK, BudgetInv, NEW q \in Procs, NEW sub \in Submissions,
         BeginRejection(q, sub) \/ BeginSubmission(q, sub)
  PROVE  BudgetInv'
<1>1. \A r \in Procs : pc[r] \notin Active
  BY NobodyActive DEF IInv, BeginRejection, BeginSubmission
<1>2. session' = session /\ \A r \in Procs \ {q} : pc'[r] \notin Active
  BY <1>1 DEF IInv, TypeOK, BeginRejection, BeginSubmission
<1>3. IsSession(session) /\ mem = [r \in Procs |-> mem[r]] /\ Sound(session)
  BY DEF IInv, TypeOK, BudgetInv
<1>4. CASE BeginRejection(q, sub)
  <2> DEFINE m == [session EXCEPT !.rejected = @ \cup {sub.id}]
  <2>1. mem'[q] = m
    BY <1>3, <1>4 DEF BeginRejection
  <2>2. m.ledger = session.ledger /\ m.remaining = session.remaining
    BY <1>3, RecordUpdates
  <2> HIDE DEF m
  <2>3. Sound(m)
    BY <1>3, <2>2, SameCharges DEF Proposals
  <2> QED
    BY <1>2, <1>3, <2>1, <2>3, BudgetOf
<1>5. CASE BeginSubmission(q, sub)
  <2> DEFINE e == Accepted(sub)
             w == WithEntry(session, sub.id, e)
             m == [w EXCEPT !.seen = @ \cup {sub.cands[i].fp : i \in DOMAIN sub.cands}]
  <2>1. mem'[q] = m
    BY <1>3, <1>5 DEF BeginSubmission
  <2>2. /\ sub.id \in Ids /\ e \in Entry /\ e.st = "accepted" /\ e.consumed = 0
        /\ e.reserved = Cost(sub) /\ Cost(sub) <= session.remaining
    <3>1. Cost(sub) \in Int /\ session.remaining \in Int
      BY <1>3, ChargesAreNumbers DEF ConstantsOK, Cost, Sound
    <3>2. ~OverBudget(session, sub) /\ ~Invalid(session, sub)
      BY <1>5 DEF BeginSubmission
    <3> QED
      BY <3>1, <3>2, AcceptedIsJustified DEF OverBudget, Accepted
  <2> HIDE DEF e
  <2>3. Charge(e) <= session.remaining + Charged(session, sub.id)
    <3>1. Charged(session, sub.id) \in Nat /\ session.remaining \in Int
      BY <1>3, <2>2, ChargesAreNumbers DEF Charged, Sound, ConstantsOK
    <3>2. Cost(sub) \in Nat
      BY DEF ConstantsOK, Cost
    <3> QED
      BY <2>2, <3>1, <3>2 DEF Charge
  <2>4. Sound(w) /\ IsSession(w)
    BY <1>3, <2>2, <2>3, Rebudgeted, WithEntryIs
  <2> HIDE DEF w
  <2>5. m.ledger = w.ledger /\ m.remaining = w.remaining
    BY <2>4, RecordUpdates
  <2> HIDE DEF m
  <2>6. Sound(m)
    BY <2>4, <2>5, SameCharges DEF Proposals
  <2> QED
    BY <1>2, <1>3, <2>1, <2>6, BudgetOf
<1> QED
  BY <1>4, <1>5

(* Settling and recovering: a record never charges more than the one it    *)
(* replaces.                                                               *)
LEMMA BudgetRecords ==
  ASSUME IInv, ConstantsOK, BudgetInv, NEW q \in Procs,
         \/ Settle(q) \/ SettleAfterError(q)
         \/ \E p \in Ids, res \in Resolutions : Recover(q, p, res)
  PROVE  BudgetInv'
<1>1. session' = session
  BY DEF Settle, SettleAfterError, Recover
<1>2. ASSUME NEW p \in Ids, NEW s, NEW f, IsSession(s), Sound(s), f \in Entry, f.st # "absent",
             s.ledger[p].st # "absent", Charge(f) <= Charge(s.ledger[p])
      PROVE  Sound(WithEntry(s, p, f))
  <2>1. Charged(s, p) = Charge(s.ledger[p])
    BY <1>2 DEF Charged, Proposals
  <2>2. s.remaining \in Int /\ s.remaining >= 0 /\ Charge(f) \in Nat
        /\ Charge(s.ledger[p]) \in Nat
    BY <1>2, ChargesAreNumbers DEF Sound, ConstantsOK, Charge, Entry
  <2>3. Charge(f) <= s.remaining + Charged(s, p)
    BY <1>2, <2>1, <2>2
  <2> QED
    BY <1>2, <2>3, Rebudgeted
<1>3. CASE Settle(q) \/ SettleAfterError(q)
  <2> DEFINE p == cur[q]
             e == mem[q].ledger[p]
             f == IF Settle(q) THEN SettledEntry(e, run[q]) ELSE FailedEntry(e, batch[p])
  <2>1. /\ pc[q] \in {"settle", "settle_error"} /\ pc[q] \in Active /\ Holder(q)
        /\ pc[q] # "save_rejection"
    BY <1>3 DEF IInv, HolderInv, Settle, SettleAfterError, Active, SubmitPhase
  <2>2. /\ p \in Ids /\ mem[q].ledger = session.ledger /\ e.st = "running"
        /\ e.consumed = 0 /\ e.reserved = e.cost /\ e \in Entry
        /\ launched[p] \in Nat /\ launched[p] <= e.cost
        /\ run[q] \in RunRecord /\ batch[p] \in BatchRecord
        /\ batch[p].conf + batch[p].unc <= launched[p]
    BY <2>1, BatchPremise
  <2>3. \A r \in Procs \ {q} : pc'[r] \notin Active
    BY <1>3, <2>1, OthersRest DEF IInv, TypeOK, Settle, SettleAfterError, Record
  <2>4. mem' = [mem EXCEPT ![q] = WithEntry(mem[q], p, f)] /\ rec' = [rec EXCEPT ![p] = f]
    BY <1>3 DEF IInv, TypeOK, Settle, SettleAfterError, Record
  <2>5. f \in Entry /\ f.st # "absent"
    <3>1. rec' \in [Ids -> Entry] /\ rec \in [Ids -> Entry]
      BY <1>3, SettleStep, SettleAfterErrorStep DEF IInv, TypeOK
    <3>2. rec'[p] = f
      BY <2>2, <2>4, <3>1
    <3>3. f.st # "absent"
      BY DEF SettledEntry, SettledState, FailedEntry
    <3> QED
      BY <2>2, <3>1, <3>2, <3>3
  <2>6. Charge(f) <= Charge(e)
    <3>1. e.cost \in Nat /\ batch[p].conf \in Nat /\ batch[p].unc \in Nat
      BY <2>2 DEF Entry, BatchRecord
    <3>2. CASE Settle(q)
      <4>1. batch[p].conf = run[q].conf /\ batch[p].unc = run[q].unc
        BY <2>1, <3>2 DEF Holder, Settle, Persisted
      <4>2. f.consumed = run[q].conf /\ f.reserved = run[q].unc
        BY <3>2 DEF SettledEntry
      <4> HIDE DEF f, e, p
      <4> QED
        BY <2>2, <3>1, <4>1, <4>2 DEF Charge
    <3>3. CASE ~Settle(q)
      <4>1. f.consumed = batch[p].conf /\ f.reserved = e.cost - batch[p].conf
        BY <3>3 DEF FailedEntry
      <4> HIDE DEF f, e, p
      <4> QED
        BY <2>2, <3>1, <4>1 DEF Charge
    <3> QED
      BY <3>2, <3>3
  <2>7. IsSession(mem[q]) /\ Sound(mem[q]) /\ Sound(session) /\ mem = [r \in Procs |-> mem[r]]
    BY <2>1 DEF IInv, TypeOK, BudgetInv
  <2> HIDE DEF f
  <2>8. Sound(WithEntry(mem[q], p, f))
    BY <1>2, <2>2, <2>5, <2>6, <2>7
  <2>9. mem'[q] = WithEntry(mem[q], p, f)
    BY <2>4, <2>7
  <2> QED
    BY <1>1, <2>3, <2>7, <2>8, <2>9, BudgetOf
<1>4. ASSUME NEW p \in Ids, NEW res \in Resolutions, Recover(q, p, res) PROVE BudgetInv'
  <2> DEFINE e == session.ledger[p]
             f == RecoveredEntry(e, batch[p], res)
  <2>1. \A r \in Procs : pc[r] \notin Active
    BY <1>4, NobodyActive DEF IInv, Recover
  <2>2. \A r \in Procs \ {q} : pc'[r] \notin Active
    BY <1>4, <2>1 DEF IInv, TypeOK, Recover
  <2>3. /\ rec' = [rec EXCEPT ![p] = f] /\ mem' = [mem EXCEPT ![q] = WithEntry(session, p, f)]
    BY <1>4 DEF IInv, TypeOK, Recover
  <2>4. e \in Entry /\ batch[p] \in BatchRecord /\ e.st # "absent"
    BY <1>4 DEF IInv, TypeOK, IsSession, Recover, Recoverable
  <2>5. f.st # "absent" /\ Charge(f) <= Charge(e)
    BY <2>4, RecoveryAdds, RecoveryCharges
  <2>6. f \in Entry
    <3>1. rec' \in [Ids -> Entry] /\ rec \in [Ids -> Entry]
      BY <1>4, RecoverStep DEF IInv, TypeOK
    <3> QED
      BY <2>3, <3>1
  <2>7. IsSession(session) /\ Sound(session) /\ mem = [r \in Procs |-> mem[r]]
    BY DEF IInv, TypeOK, BudgetInv
  <2> HIDE DEF f
  <2>8. Sound(WithEntry(session, p, f))
    BY <1>2, <2>4, <2>5, <2>6, <2>7
  <2>9. mem'[q] = WithEntry(session, p, f)
    BY <2>3, <2>7
  <2> QED
    BY <1>1, <2>2, <2>7, <2>8, <2>9, BudgetOf
<1> QED
  BY <1>3, <1>4

(* Every step keeps the budget balanced, on disk and in memory.            *)
LEMMA BudgetStep == ASSUME IInv, ConstantsOK, BudgetInv, [Next]_vars PROVE BudgetInv'
<1>1. CASE UNCHANGED vars
  BY <1>1, BudgetRests DEF vars
<1>2. ASSUME NEW q \in Procs, Step(q) PROVE BudgetInv'
  BY <1>2, BudgetSaves, BudgetRecords, QuietSteps, BudgetRests DEF Step
<1> QED
  BY <1>1, <1>2, BudgetCopies, BudgetRecords, QuietSteps, BudgetRests DEF Next

(* The budget in session.json is what its proposals leave of the total,    *)
(* and is never overdrawn, however many proposals there are and whatever   *)
(* crashes, races or recovers.                                             *)
THEOREM BudgetIsBalanced == Spec => []BudgetBalanced
<1>1. Init => BudgetInv
  <2> SUFFICES ASSUME Init PROVE Sound(Fresh) /\ session = Fresh /\ \A q \in Procs : pc[q] \notin Active
    BY DEF BudgetInv
  <2>1. Fresh.remaining = Total /\ Proposals(Fresh) = {}
    BY DEF Fresh, Proposals, Absent
  <2>2. Spent(Fresh) = 0 /\ IsFiniteSet(Proposals(Fresh))
    BY <2>1, FS_EmptySet, SumOfZeros DEF Spent
  <2> QED
    BY <2>1, <2>2, ConstantsOK DEF Init, Sound, ConstantsOK, Active, BatchPhase, SubmitPhase
<1>2. IInv /\ BudgetInv /\ [Next]_vars => BudgetInv'
  BY BudgetStep, ConstantsOK
<1>3. BudgetInv => BudgetBalanced
  BY DEF BudgetInv, BudgetBalanced, Sound
<1> QED
  BY <1>1, <1>2, <1>3, Invariant, PTL DEF Spec
-----------------------------------------------------------------------------
(* A bound on the steps a command has left while it holds the lock: three   *)
(* for each invocation it has not made, and those around its batch.         *)
CostOf(q) == mem[q].ledger[cur[q]].cost
InvocationsLeft(q) == run[q].planned - (run[q].conf + run[q].unc)
StepsLeft(q) ==
  IF pc[q] = "mkdir" THEN 3 * CostOf(q) + 7
  ELSE IF pc[q] = "save_accepted" THEN 3 * CostOf(q) + 6
  ELSE IF pc[q] = "save_running" THEN 3 * CostOf(q) + 5
  ELSE IF pc[q] = "open" THEN 3 * CostOf(q) + 4
  ELSE IF pc[q] = "persist" THEN 3 * InvocationsLeft(q) + 4
  ELSE IF pc[q] = "loop" THEN 3 * InvocationsLeft(q) + 3
  ELSE IF pc[q] = "child" THEN 3 * InvocationsLeft(q) + 2
  ELSE IF pc[q] \in {"settle", "settle_error"} THEN 2
  ELSE IF pc[q] \in {"save_final", "save_rejection"} THEN 1 ELSE 0

(* The bound is a number, and none but those at work have steps left.       *)
LEMMA CommandNumbers ==
  ASSUME IInv, NEW q \in Procs
  PROVE  /\ StepsLeft(q) \in Nat
         /\ pc[q] \in Active <=> StepsLeft(q) > 0
         /\ pc[q] \in {"mkdir", "save_accepted", "save_running", "open"} => CostOf(q) \in Nat
         /\ pc[q] \in {"loop", "child", "persist"} => InvocationsLeft(q) \in Nat
         /\ pc[q] = "child" => InvocationsLeft(q) >= 1
<1>1. pc[q] \in Active \cup {"idle", "linger", "orphan"} /\ run[q] \in RunRecord
  BY DEF IInv, TypeOK
<1>2. ASSUME pc[q] \in {"mkdir", "save_accepted", "save_running", "open"} PROVE CostOf(q) \in Nat
  <2>1. cur[q] \in Ids /\ IsSession(mem[q])
    BY <1>2 DEF IInv, TypeOK, HolderInv, Holder, Active, BatchPhase, SubmitPhase
  <2>2. mem[q].ledger[cur[q]] \in Entry
    BY <2>1 DEF IsSession
  <2> QED
    BY <2>2 DEF CostOf, Entry
<1>3. ASSUME pc[q] \in {"loop", "child", "persist"}
      PROVE  InvocationsLeft(q) \in Nat /\ (pc[q] = "child" => InvocationsLeft(q) >= 1)
  <2>1. cur[q] \in Ids /\ RunInv(q, cur[q], session.ledger[cur[q]])
    BY <1>3 DEF IInv, HolderInv, Holder, Active, BatchPhase
  <2>2. run[q].planned \in Nat /\ run[q].conf \in Nat /\ run[q].unc \in Nat
    BY <1>1 DEF RunRecord
  <2>3. launched[cur[q]] \in Nat
    BY <2>1 DEF IInv, TypeOK
  <2>4. \/ pc[q] \in {"loop", "persist"} /\ run[q].conf + run[q].unc <= run[q].planned
        \/ pc[q] = "child" /\ run[q].conf + run[q].unc + 1 <= run[q].planned
    BY <1>3, <2>1 DEF RunInv
  <2> QED
    BY <2>2, <2>4 DEF InvocationsLeft
<1> QED
  BY <1>1, <1>2, <1>3 DEF StepsLeft, Active, BatchPhase, SubmitPhase

(* So it is for all of them.                                                *)
Counted == \A q \in Procs : StepsLeft(q) \in Nat /\ (pc[q] \in Active <=> StepsLeft(q) > 0)
LEMMA CommandsAreCounted == IInv => Counted
BY CommandNumbers DEF Counted

(* A step of a command leaves it fewer, or none.                            *)
LEMMA CommandStepsLeft ==
  ASSUME IInv, IInv', ConstantsOK, NEW q \in Procs, Step(q) \/ Escape(q) \/ Kill(q)
  PROVE  pc[q] \in Active /\ StepsLeft(q)' < StepsLeft(q)
<1>1. /\ StepsLeft(q) \in Nat
      /\ pc[q] \in Active <=> StepsLeft(q) > 0
      /\ pc[q] \in {"mkdir", "save_accepted", "save_running", "open"} => CostOf(q) \in Nat
      /\ pc[q] \in {"loop", "child", "persist"} => InvocationsLeft(q) \in Nat
      /\ pc[q] = "child" => InvocationsLeft(q) >= 1
  BY CommandNumbers
<1>2. /\ pc' \in [Procs -> Active \cup {"idle", "linger", "orphan"}] /\ run[q] \in RunRecord
      /\ pc \in [Procs -> Active \cup {"idle", "linger", "orphan"}]
      /\ run \in [Procs -> RunRecord] /\ IsSession(mem[q])
  BY DEF IInv, TypeOK
<1>3. run[q].planned \in Nat /\ run[q].conf \in Nat /\ run[q].unc \in Nat
  BY <1>2 DEF RunRecord
<1>4. ASSUME pc[q] \in Active, pc'[q] \in {"idle", "linger", "orphan"}
      PROVE  pc[q] \in Active /\ StepsLeft(q)' < StepsLeft(q)
  BY <1>1, <1>4 DEF StepsLeft
<1>5. CASE SaveRejection(q) \/ DirectoryExists(q) \/ SaveFinal(q) \/ Escape(q) \/ Kill(q)
  <2>1. pc[q] \in Active /\ pc'[q] \in {"idle", "linger", "orphan"}
    BY <1>2, <1>5
    DEF SaveRejection, DirectoryExists, SaveFinal, Escape, Kill, Unlock, Active, BatchPhase, SubmitPhase
  <2> QED
    BY <1>4, <2>1
<1>6. CASE MakeDirectory(q) \/ SaveAccepted(q)
  <2>1. /\ mem' = mem /\ cur' = cur
        /\ \/ pc[q] = "mkdir" /\ pc'[q] = "save_accepted"
           \/ pc[q] = "save_accepted" /\ pc'[q] = "save_running"
    BY <1>2, <1>6 DEF MakeDirectory, SaveAccepted
  <2>2. CostOf(q)' = CostOf(q)
    BY <2>1 DEF CostOf
  <2> QED
    BY <1>1, <2>1, <2>2 DEF StepsLeft
<1>7. CASE SaveRunning(q)
  <2>1. pc[q] = "save_running" /\ pc'[q] = "open" /\ cur' = cur /\ cur[q] \in Ids
    BY <1>2, <1>7 DEF SaveRunning, IInv, HolderInv, Holder, Active, SubmitPhase
  <2>2. mem[q].ledger[cur[q]] \in Entry /\ mem[q].ledger \in [Ids -> Entry]
    BY <1>2, <2>1 DEF IsSession
  <2>3. mem'[q] = [mem[q] EXCEPT !.ledger[cur[q]].st = "running"]
    BY <1>7 DEF SaveRunning, IInv, TypeOK
  <2>4. mem'[q].ledger[cur[q]] = [mem[q].ledger[cur[q]] EXCEPT !.st = "running"]
    BY <1>2, <2>1, <2>2, <2>3 DEF IsSession
  <2>5. CostOf(q)' = CostOf(q)
    BY <2>1, <2>2, <2>4 DEF CostOf, Entry
  <2> QED
    BY <1>1, <2>1, <2>5 DEF StepsLeft
<1>8. CASE OpenBatch(q)
  <2>1. PICK n \in 0 .. CostOf(q) : run'[q].planned = n /\ run'[q].conf = 0 /\ run'[q].unc = 0
    BY <1>2, <1>8 DEF OpenBatch, CostOf
  <2>2. pc[q] = "open" /\ pc'[q] = "loop"
    BY <1>2, <1>8 DEF OpenBatch
  <2>3. InvocationsLeft(q)' = n
    BY <2>1 DEF InvocationsLeft
  <2> QED
    BY <1>1, <2>1, <2>2, <2>3 DEF StepsLeft
<1>9. CASE RefuseBatch(q) \/ BatchRaises(q) \/ FinishBatch(q)
  <2>1. pc[q] \in {"open", "loop", "persist"} /\ pc'[q] \in {"settle", "settle_error"}
    BY <1>2, <1>9 DEF RefuseBatch, BatchRaises, FinishBatch
  <2> QED
    BY <1>1, <2>1 DEF StepsLeft, Active, BatchPhase
<1>10. CASE Launch(q) \/ PersistEntry(q)
  <2>1. /\ run' = run
        /\ \/ pc[q] = "loop" /\ pc'[q] = "child"
           \/ pc[q] = "persist" /\ pc'[q] = "loop"
    BY <1>2, <1>10 DEF Launch, PersistEntry
  <2> QED
    BY <1>1, <2>1 DEF StepsLeft, InvocationsLeft, Active, BatchPhase
<1>11. CASE (\E o \in {"success", "failed", "interrupted"} : ChildRecorded(q, o))
            \/ \E i \in BOOLEAN : ChildRaised(q, i)
  <2>1. pc[q] = "child" /\ pc'[q] = "persist" /\ run'[q].planned = run[q].planned
    BY <1>2, <1>11 DEF ChildRecorded, ChildRaised
  <2>2. \/ run'[q].conf = run[q].conf + 1 /\ run'[q].unc = run[q].unc
        \/ run'[q].conf = run[q].conf /\ run'[q].unc = run[q].unc + 1
    BY <1>2, <1>11 DEF ChildRecorded, ChildRaised
  <2>3. InvocationsLeft(q)' = InvocationsLeft(q) - 1
    <3>1. InvocationsLeft(q)' = run'[q].planned - (run'[q].conf + run'[q].unc)
      BY DEF InvocationsLeft
    <3>2. InvocationsLeft(q) = run[q].planned - (run[q].conf + run[q].unc)
      BY DEF InvocationsLeft
    <3>3. run[q].planned - (run'[q].conf + run'[q].unc)
            = run[q].planned - (run[q].conf + run[q].unc) - 1
      <4> DEFINE c == run[q].conf
                 u == run[q].unc
                 d == run'[q].conf
                 v == run'[q].unc
      <4>1. c \in Nat /\ u \in Nat
        BY <1>3
      <4>2. (d = c + 1 /\ v = u) \/ (d = c /\ v = u + 1)
        BY <2>2
      <4> HIDE DEF c, u, d, v
      <4>3. d + v = c + u + 1 /\ c + u \in Nat
        BY <4>1, <4>2
      <4>4. run[q].planned - (d + v) = run[q].planned - (c + u) - 1
        BY <1>3, <4>3
      <4> QED
        BY <4>4 DEF c, u, d, v
    <3> QED
      BY <2>1, <3>1, <3>2, <3>3
  <2> QED
    BY <1>1, <2>1, <2>3 DEF StepsLeft, Active, BatchPhase
<1>12. CASE Settle(q) \/ SettleAfterError(q)
  <2>1. pc[q] \in {"settle", "settle_error"} /\ pc'[q] = "save_final"
    BY <1>2, <1>12 DEF Settle, SettleAfterError, Record
  <2> QED
    BY <2>1 DEF StepsLeft, Active, BatchPhase, SubmitPhase
<1> QED
  BY <1>5, <1>6, <1>7, <1>8, <1>9, <1>10, <1>11, <1>12 DEF Step

(* The steps of others, and the end of stray workers, leave a command where *)
(* it is.                                                                   *)
LEMMA OthersLeaveIt ==
  ASSUME IInv, IInv', ConstantsOK, NEW q \in Procs, pc[q] \in Active, [Next]_vars
  PROVE  (Step(q) \/ Escape(q) \/ Kill(q)) \/ StepsLeft(q)' = StepsLeft(q)
<1>1. /\ pc \in [Procs -> Active \cup {"idle", "linger", "orphan"}] /\ run \in [Procs -> RunRecord]
      /\ cur \in [Procs -> Ids \cup {NoId}] /\ mem = [r \in Procs |-> mem[r]]
  BY DEF IInv, TypeOK
<1>2. lock = q /\ \A r \in Procs \ {q} : pc[r] \notin Active \cup {"orphan"}
  BY OthersRest DEF IInv
<1>3. q # NoProc
  BY DEF ConstantsOK
<1>4. ASSUME pc'[q] = pc[q], cur'[q] = cur[q], mem'[q] = mem[q], run'[q] = run[q]
      PROVE  StepsLeft(q)' = StepsLeft(q)
  BY <1>4 DEF StepsLeft, CostOf, InvocationsLeft
<1>5. CASE UNCHANGED vars
  BY <1>4, <1>5 DEF vars
<1>6. ASSUME NEW r \in Procs, Tear(r) \/ WorkerExit(r) PROVE StepsLeft(q)' = StepsLeft(q)
  <2>1. pc'[q] = pc[q]
    BY <1>1, <1>6 DEF Tear, WorkerExit, Active, BatchPhase, SubmitPhase
  <2> QED
    BY <1>4, <1>6, <2>1 DEF Tear, WorkerExit
<1>7. \A r \in Procs : ~ \E sub \in Submissions : BeginRejection(r, sub) \/ BeginSubmission(r, sub)
  BY <1>2, <1>3 DEF BeginRejection, BeginSubmission, Free
<1>8. \A r \in Procs : ~ \E p \in Ids, s \in Resolutions : Recover(r, p, s)
  BY <1>2, <1>3 DEF Recover, Free
<1>9. \A r \in Procs : Step(r) \/ Escape(r) \/ Kill(r) => pc[r] \in Active
  BY CommandStepsLeft
<1>10. \A r \in Procs : Step(r) \/ Escape(r) \/ Kill(r) => r = q
  BY <1>2, <1>9
<1> QED
  BY <1>5, <1>6, <1>7, <1>8, <1>10 DEF Next

(* A command that holds the lock has only so many steps to take: each of    *)
(* them, with whatever faults, leaves it fewer, and no step of another      *)
(* process or of a worker gives it more.  What may still keep the lock is   *)
(* a wait: for a worker, or, with no time limit, for the rest of a torn     *)
(* payload.                                                                 *)
THEOREM CommandStepsAreBounded ==
  Spec => /\ []Counted
          /\ [][\A q \in Procs : pc[q] \in Active =>
                  /\ Step(q) \/ Escape(q) \/ Kill(q) => StepsLeft(q)' < StepsLeft(q)
                  /\ StepsLeft(q)' <= StepsLeft(q)]_vars
<1>1. IInv => Counted
  BY CommandsAreCounted
<1>2. IInv /\ IInv' /\ [Next]_vars =>
        [\A q \in Procs : pc[q] \in Active =>
           /\ Step(q) \/ Escape(q) \/ Kill(q) => StepsLeft(q)' < StepsLeft(q)
           /\ StepsLeft(q)' <= StepsLeft(q)]_vars
  <2> SUFFICES ASSUME IInv, IInv', [Next]_vars, NEW q \in Procs, pc[q] \in Active
               PROVE  /\ Step(q) \/ Escape(q) \/ Kill(q) => StepsLeft(q)' < StepsLeft(q)
                      /\ StepsLeft(q)' <= StepsLeft(q)
    OBVIOUS
  <2>1. Step(q) \/ Escape(q) \/ Kill(q) => StepsLeft(q)' < StepsLeft(q)
    BY CommandStepsLeft, ConstantsOK
  <2>2. (Step(q) \/ Escape(q) \/ Kill(q)) \/ StepsLeft(q)' = StepsLeft(q)
    BY OthersLeaveIt, ConstantsOK
  <2>3. StepsLeft(q) \in Nat
    BY CommandNumbers
  <2>4. StepsLeft(q)' \in Nat
    <3>1. (IInv => Counted)'
      BY CommandsAreCounted, PTL
    <3> QED
      BY <3>1 DEF Counted
  <2> QED
    BY <2>1, <2>2, <2>3, <2>4
<1> QED
  BY <1>1, <1>2, Invariant, PTL DEF Spec
=============================================================================
