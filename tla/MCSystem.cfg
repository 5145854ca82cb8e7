CONSTANTS
  w = w
  j = j
  m = m
  A = A
  B = B
  NoSN = NoSN
  Subject <- MCSubject
  TopicType <- MCTopicType
  Publishers = {w, j, m}
  Program <- MCProgram
  Gid <- MCGid
  Foreign = {m}
  Type = "Organization"
  Gids = {A}
  Ids = {"1", ""}
  NoId = ""
  NoGid = NoGid
  Values <- MCValues
  None = None
  Files <- MCFiles
  Unreadable = Unreadable
  MaxChanges = 6
  MaxFaults = 1
  MaxRestarts = 1
SPECIFICATION Spec
INVARIANT TypeOK
INVARIANT OnlyCertified
INVARIANT IncompleteOnlyFromFiles
INVARIANT FileIsPublished
PROPERTY Converges
CHECK_DEADLOCK FALSE
