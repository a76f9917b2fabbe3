CONSTANTS
  Sizes <- AnyPayload
  Capacity = 4
  Faults <- AllFaults
SPECIFICATION FairSpec
INVARIANTS
  ResultsDelivered
PROPERTIES
  ImplementsIsolatedRun
  ControllerReturns
CHECK_DEADLOCK FALSE
