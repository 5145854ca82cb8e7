CONSTANTS
  Keys <- MCKeys
  Values = {v1, v2}
  None = None
SPECIFICATION Spec
INVARIANT TypeOK
PROPERTY OnlyTheLastMoves
PROPERTY ImplementsKeyedStores
