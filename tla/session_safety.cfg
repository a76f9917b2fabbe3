CONSTANTS
  q1 = q1
  q2 = q2
  p1 = p1
  p2 = p2
  bad = bad
  f1 = f1
  f2 = f2
  NoProc = NoProc
  NoId = NoId
  Procs <- MCProcs
  Ids <- MCIds
  BadIds <- MCBadIds
  Submissions <- MCSubmissions
  Total = 3
  Faults <- AllFaults
SYMMETRY Symmetry
SPECIFICATION Spec
INVARIANTS
  TypeOK
  BudgetBalanced
  LaunchesCovered
  ChargesBacked
  FinalBatchIsProof
  SettledIsExact
  GpuIsLocked
  RecordPrecedesSession
PROPERTIES
  SettledIsFinal
  NothingLost
  ImplementsBatchLog
