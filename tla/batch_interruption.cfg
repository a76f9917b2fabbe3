CONSTANTS
  c1 = c1
  c2 = c2
  Candidates <- Pair
  Repetitions = 2
  Events <- CtrlC
SPECIFICATION Spec
PROPERTIES
  InterruptionStopsScheduling
