CONSTANTS
  old = old
  new = new
  NoRecord = NoRecord
  NoProtocol = NoProtocol
  Protocols <- MCProtocols
  Trials = 3
  ProgressEvery = 2
  MaxInvocations = 3
SPECIFICATION FairSpec
INVARIANTS
  StopsLoseOneEpisode
  RecordsFollowManifest
  ProgressLags
  ReturnedIsComplete
PROPERTIES
  RecordsAreFinal
  InvocationEnds
CHECK_DEADLOCK FALSE
