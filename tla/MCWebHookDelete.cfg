CONSTANTS
  Keys <- MCKeys
  Values = {v}
  Refused = {}
  None = None
  Collections <- MCCollections
  CollectionOf <- MCCollectionOf
  MaxSamples = 4
  MaxLost = 0
  MaxRestarts = 0
  TokenRequired = FALSE
  MaxTransaction = 8
SPECIFICATION Spec
INVARIANT AgreeMeansSynced
