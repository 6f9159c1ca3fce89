SPECIFICATION FairSpec
CONSTANTS
  Servers = {A, B}
  Coord = coord
  Shards = {s1}
  Values = {v1}
  NoData = none
  MaxAttempts = 2
  MaxRetries = 0
  TimedPhases = {}
  LossyLinks <- NoLinks
  DupLinks <- NoLinks
  CrashNodes = {}
  MaxRecoveries = 0
PROPERTY ReassignmentEnds
CHECK_DEADLOCK FALSE
