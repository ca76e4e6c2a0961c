SPECIFICATION Spec
CONSTANTS
  N = 3
  Faults <- OSErrors
  MaxFaults = 6
  CanCrash = TRUE
INVARIANTS
  IInv
  NoOriginalLost
PROPERTIES
  ImplementsAtomicReplace
