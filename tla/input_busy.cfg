SPECIFICATION FairSpec
CONSTANTS
  Nodes <- BusyNodes
  Kind <- BusyKind
  LinkTo <- BusyLinkTo
  None = "none"
  Names <- MCNames
  SqlNames <- MCSqlNames
  MaxDepth = 1
  MaxDirectories = 2
  MaxEntries = 4
  MaxFiles = 2
  MaxFileBytes = 2
  MaxBytes = 3
  Sizes = {1, 2, 3}
  Trees <- BusyTrees
  MaxChanges = 2
INVARIANTS
  TypeOK
  ReadsWhatItFound
  BytesBounded
  CompleteInOrder
PROPERTIES
  Terminates
