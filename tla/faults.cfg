SPECIFICATION Spec
CONSTANTS
  Servers = {A, B}
  Coord = coord
  Shards = {s1}
  Values = {v1}
  NoData = none
  MaxAttempts = 2
  MaxRetries = 0
  TimedPhases = {"FREEZE", "TRANSFER"}
  LossyLinks <- AllLinks
  DupLinks <- DataLinks
  CrashNodes = {A, B}
  MaxRecoveries = 1
SYMMETRY Symmetry
INVARIANT TypeOK
INVARIANT MessagesFollowDecision
INVARIANT NoOrphanAttempt
INVARIANT EpochCountsDecisions
INVARIANT NothingAheadOfMetadata
INVARIANT CoordInv
INVARIANT EpochInv
PROPERTY DecidedOnce
PROPERTY HeldByCommit
CHECK_DEADLOCK FALSE
