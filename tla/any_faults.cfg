SPECIFICATION Spec
CONSTANTS
  N = 3
  Faults <- AnyFault
  MaxFaults = 4
  CanCrash = TRUE
INVARIANTS
  NothingWrittenWhenRejected
  NoTornDestination
  HonestReport
  LeftoversReported
PROPERTIES
  CompletedIsFinal
