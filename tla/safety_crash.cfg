SPECIFICATION Spec
CONSTANTS
  Servers = {A, B, C}
  Coord = coord
  Shards = {s1}
  Values = {v1, v2}
  NoData = none
  MaxAttempts = 2
  MaxRetries = 1
  TimedPhases = {"FREEZE", "TRANSFER"}
  LossyLinks <- NoLinks
  DupLinks <- NoLinks
  CrashNodes = {A, B, C}
  MaxRecoveries = 0
SYMMETRY Symmetry
INVARIANT AtMostOneServing
INVARIANT OnlyOwnerServes
INVARIANT NobodyServesInTransfer
INVARIANT ReadsSeeLastWrite
INVARIANT LastWriteIsStored
CHECK_DEADLOCK FALSE
