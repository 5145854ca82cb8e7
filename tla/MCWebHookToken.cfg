CONSTANTS
  Keys <- MCKeys
  Values = {v}
  Refused = {}
  None = None
  Collections <- MCCollections
  CollectionOf <- MCCollectionOf
  MaxSamples = 2
  MaxLost = 0
  MaxRestarts = 0
  TokenRequired = TRUE
  MaxTransaction = 8
SPECIFICATION Spec
PROPERTY WebHookCanBeTested
