CONSTANTS
  Keys <- MCKeys
  Values = {v}
  None = None
  Free = Free
  NoArg = NoArg
  Workers = {w1}
  Listeners = {main, dds}
  Args <- MCArgs
  PublishedKeys <- MCPublishedKeys
  Now = 1
  Authorizations <- MCAuthorizations
  SizeModulus = 6
  PageSize = 1
  MaxSamples = 2
  Early = {1, 2}
SPECIFICATION Spec
INVARIANT TypeOK
INVARIANT OnlyGenuineTokens
INVARIANT PageIsSlice
INVARIANT CalmDefaultIsWhole
INVARIANT ScanMissesOnlyMoved
PROPERTY EveryRequestAnswered
PROPERTY EventuallyCurrent
CHECK_DEADLOCK FALSE
