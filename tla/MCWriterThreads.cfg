CONSTANTS
  Keys = {1, 2}
  Own = {1, 2}
  Values = {v1}
  Incomplete = {}
  None = None
  Free = Free
  Workers = {w1, w2}
  Ops <- GuardedOps
  MaxBody = 2
  MaxTransaction = 2
  MaxFaults = 0
SPECIFICATION Spec
INVARIANT MutualExclusion
PROPERTY MutexProtectsUnit
PROPERTY ImplementsApi
PROPERTY MutexReleased
PROPERTY EveryRequestAnswered
