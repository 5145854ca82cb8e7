CONSTANTS
  Keys <- MCKeys
  Values = {v, bad}
  Refused = {bad}
  None = None
  Collections <- MCCollections
  CollectionOf <- MCCollectionOf
  MaxSamples = 4
  MaxLost = 1
  MaxRestarts = 1
  TokenRequired = FALSE
  MaxTransaction = 7
SPECIFICATION Spec
INVARIANT TypeOK
INVARIANT ReaderCountsAhead
INVARIANT AgreeMeansSyncedUnlessDeleted
PROPERTY EventuallySynced
PROPERTY EventuallyCurrent
