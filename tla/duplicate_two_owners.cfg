SPECIFICATION Spec
CONSTANTS
  Servers = {A, B}
  Coord = coord
  Shards = {s1}
  Values = {v1}
  NoData = none
  MaxAttempts = 2
  MaxRetries = 0
  TimedPhases = {}
  LossyLinks <- NoLinks
  DupLinks <- LinksToAServer
  CrashNodes = {}
  MaxRecoveries = 0
INVARIANT AtMostOneServing
CHECK_DEADLOCK FALSE
