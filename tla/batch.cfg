SPECIFICATION Spec
CONSTANTS
  Tokens <- MCTokens
  Fold <- MCFold
  ControlTokens = {"ctl"}
  DotTokens = {"dot"}
  OddTokens = {"odd", "dot", "ctl"}
  Roles = {"create", "insert", "grant"}
  MaxTables = 3
  MaxColumns = 3
  MaxArtifacts = 8
  MaxIdentifier = 3
  MaxStem = 3
  Batches <- MCBatches
  Configs <- MCConfigs
INVARIANTS
  TypeOK
  AcceptedIsSafe
  NothingDropped
  CollisionIsReal
