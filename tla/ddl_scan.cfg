SPECIFICATION Spec
CONSTANTS
  Documents <- MCDocuments
  MaxTables = 2
  MaxColumns = 3
INVARIANTS
  TypeOK
  MasksAreExact
  StatementsAreWhole
  NothingLost
  LimitsHold
