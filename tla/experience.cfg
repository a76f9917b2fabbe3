CONSTANTS
  Cells = {1}
  Actions <- MCActions
  Simulations = 5
  MaxActions = 2
  NodeLimit = 4
  NoChild = NoChild
  NoSolution = NoSolution
  NoReturn = NoReturn
  Targets <- MCTargets
  MaxMoves = 2
  Seeds = {1}
  Plays = 3
  Capacity = 2
SPECIFICATION FairSpec
INVARIANTS
  TableIsExact
  VisitsAreConserved
  WalkIsExact
  BufferReplays
  ReturnsAreEarned
PROPERTIES
  EpisodeEnds
CHECK_DEADLOCK FALSE
