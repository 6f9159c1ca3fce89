SPECIFICATION TimersFairSpec
CONSTANTS
  Servers = {A, B}
  Coord = coord
  Shards = {s1}
  Values = {v1}
  NoData = none
  MaxAttempts = 1
  MaxRetries = 2
  TimedPhases = {"FREEZE", "TRANSFER"}
  LossyLinks <- AllLinks
  DupLinks <- NoLinks
  CrashNodes = {A}
  MaxRecoveries = 1
INVARIANT TimersTypeOK
INVARIANT OneTimerPerPhase
INVARIANT RetriesAgree
INVARIANT TokensFollowPhases
INVARIANT TimerInv
PROPERTY ReassignmentEnds
PROPERTY ImplementsPhaseTimers
CHECK_DEADLOCK FALSE
