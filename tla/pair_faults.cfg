CONSTANTS
  Sizes <- AnyPayload
  Capacity = 4
  Faults <- AllFaults
SPECIFICATION FairSpec
INVARIANTS
  FinishedIsNoTimeout
PROPERTIES
  ImplementsIsolatedRun
  ControllerReturns
CHECK_DEADLOCK FALSE
