CONSTANTS
  Sizes <- AnyPayload
  Capacity = 4
  Faults <- NoFaults
SPECIFICATION Spec
INVARIANTS
  FinishedIsNoTimeout
