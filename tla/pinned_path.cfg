SPECIFICATION Spec
CONSTANTS
  Nodes <- MCNodes
  Kind <- MCKind
  LinkTo <- MCLinkTo
  None = "none"
  Root = "root"
  RootLinks <- MCRootLinks
  Sealed <- MCSealed
  Names <- MCNames
  Trees <- MCTrees
  Requests <- MCRequests
  MaxChanges = 2
  MaxFaults = 1
INVARIANTS
  TypeOK
  NeverDiverted
  QuietIsExact
