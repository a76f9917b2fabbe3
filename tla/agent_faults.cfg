CONSTANTS
  Rooms <- MCRooms
  Reserve = 2
  Notes <- MCNotes
  MaxCalls = 2
  MaxRequest = 2
  MaxOutput = 1
  MaxTokens = 7
  Usages <- MCUsages
SPECIFICATION FairSpec
INVARIANTS
  EvidenceIsExact
  LiveMeansLive
  OneRequestPerBatch
PROPERTIES
  LimitEndsRun
  EndsWithDecision
CHECK_DEADLOCK FALSE
