SPECIFICATION FairSpec
CONSTANTS
  Servers = {A, B}
  Coord = coord
  Shards = {s1}
  Values = {v1}
  NoData = none
  MaxAttempts = 2
  MaxRetries = 1
  TimedPhases = {"FREEZE", "TRANSFER"}
  LossyLinks <- AllLinks
  DupLinks <- NoLinks
  CrashNodes = {A, B}
  MaxRecoveries = 0
PROPERTY ReassignmentEnds
CHECK_DEADLOCK FALSE
