SPECIFICATION Spec
CONSTANTS
  N = 2
  Faults <- NoFault
  MaxFaults = 0
  CanCrash = TRUE
INVARIANT CrashAtomic
