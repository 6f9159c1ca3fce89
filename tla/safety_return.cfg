SPECIFICATION Spec
CONSTANTS
  Servers = {A, B}
  Coord = coord
  Shards = {s1}
  Values = {v1, v2}
  NoData = none
  MaxAttempts = 3
  MaxRetries = 0
  TimedPhases = {"FREEZE", "TRANSFER"}
  LossyLinks <- NoLinks
  DupLinks <- ServerLinks
  CrashNodes = {}
  MaxRecoveries = 0
SYMMETRY Symmetry
INVARIANT TransferInv
INVARIANT StorageInv
PROPERTY ImplementsOwnership
CHECK_DEADLOCK FALSE
