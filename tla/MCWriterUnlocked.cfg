CONSTANTS
  Keys = {1, 2}
  Own = {1, 2}
  Values = {v1}
  Incomplete = {}
  None = None
  Free = Free
  Workers = {w1}
  Ops = {"PUTALL"}
  MaxBody = 2
  MaxTransaction = 2
  MaxFaults = 0
SPECIFICATION Spec
PROPERTY MutexProtectsUnit
