SPECIFICATION Spec
CONSTANTS
  Servers = {A, B}
  Coord = coord
  Shards = {s1}
  Values = {v1}
  NoData = none
  MaxAttempts = 2
  MaxRetries = 0
  TimedPhases = {"FREEZE", "TRANSFER"}
  LossyLinks <- NoLinks
  DupLinks <- NoLinks
  CrashNodes = {A, B}
  MaxRecoveries = 1
INVARIANT AtMostOneServing
CHECK_DEADLOCK FALSE
