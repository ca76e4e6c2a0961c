SPECIFICATION Spec
CONSTANTS
  Inputs <- MCInputs
  Numbers <- MCNumbers
  Fold <- MCFold
  Largest <- MCLargest
  Primitives <- MCPrimitives
  MaxPrecision = 2
  TypeNesting = 1
  CastNesting = 1
  MaxLength <- MCMaxLength
  MaxDefault = 6
INVARIANTS
  TypeOK
  TypesAreExact
  ClausesInOrder
  ReferencesResolve
  DefaultsAreExact
  GeneratedIsRead
