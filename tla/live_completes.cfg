SPECIFICATION FairSpec
CONSTANTS
  Servers = {A, B}
  Coord = coord
  Shards = {s1, s2}
  Values = {v1}
  NoData = none
  MaxAttempts = 3
  MaxRetries = 0
  TimedPhases = {}
  LossyLinks <- NoLinks
  DupLinks <- NoLinks
  CrashNodes = {}
  MaxRecoveries = 0
PROPERTY InSyncAttemptCompletes
CHECK_DEADLOCK FALSE
