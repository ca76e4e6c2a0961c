SPECIFICATION Spec
CONSTANTS
  Nodes <- QuietNodes
  Kind <- QuietKind
  LinkTo <- QuietLinkTo
  None = "none"
  Names <- QuietNames
  SqlNames <- QuietSqlNames
  MaxDepth = 1
  MaxDirectories = 2
  MaxEntries = 3
  MaxFiles = 2
  MaxFileBytes = 2
  MaxBytes = 3
  Sizes = {1, 2, 3}
  Trees <- QuietTrees
  MaxChanges = 0
INVARIANT QuietScanIsExact
