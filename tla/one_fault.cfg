SPECIFICATION FairSpec
CONSTANTS
  N = 3
  Faults <- AnyFault
  MaxFaults = 1
  CanCrash = TRUE
INVARIANTS
  TypeOK
  AllOrNothing
  CleanedUp
PROPERTIES
  PublishedAfterStaging
  Terminates
