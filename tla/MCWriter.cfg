CONSTANTS
  Keys <- MCKeys
  Own <- MCOwn
  Values = {v1, v2, bad}
  Incomplete = {bad}
  None = None
  Free = Free
  Workers = {w1}
  Ops <- AllOps
  MaxBody = 2
  MaxTransaction = 2
  MaxFaults = 1
SPECIFICATION Spec
INVARIANT TypeOK
INVARIANT PublishedMatchesContainer
PROPERTY SuccessMeansPublished
PROPERTY SameTransactionSameContent
PROPERTY ImplementsApi
PROPERTY FailuresHaveCause
