SPECIFICATION Spec
CONSTANTS
  N = 2
  Faults <- ErrorsAfterTheCall
  MaxFaults = 3
  CanCrash = FALSE
INVARIANT RollbackOnAnyFailure
