CONSTANTS
  Keys = {1, 2}
  Own = {1, 2}
  Values = {v1}
  Incomplete = {}
  None = None
  Free = Free
  Workers = {w1}
  Ops = {"POSTALL", "GETALL"}
  MaxBody = 2
  MaxTransaction = 2
  MaxFaults = 1
SPECIFICATION Spec
PROPERTY SameTransactionAlwaysSameContent
