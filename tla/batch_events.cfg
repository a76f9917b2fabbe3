CONSTANTS
  c1 = c1
  c2 = c2
  Candidates <- Pair
  Repetitions = 3
  Events <- AllEvents
SPECIFICATION FairSpec
INVARIANTS
  FilesAgree
  SuccessIsComplete
PROPERTIES
  RankedStayRanked
  ImplementsBatchLog
  FailuresDoNotStopIt
