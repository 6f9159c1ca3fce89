SPECIFICATION FairSpec
CONSTANTS
  Clients = {c1}
  Servers = {A, B}
  Shards = {s1}
  Epochs = {1, 2}
  Values = {v1}
  NoValue = none
  NoRoute = noroute
  DefaultServer = A
  MaxRetries = 2
  MaxRequests = 3
  RequestIds = {k1, k2}
  CacheSize = 1
  LossyLinks <- NoLinks
  DupLinks <- NoLinks
INVARIANT TypeOK
INVARIANT OneInFlight
INVARIANT VerdictIsTrue
INVARIANT CachedAnswerIsTrue
INVARIANT CacheInOrder
INVARIANT RequestInv
PROPERTY RequestEnds
CHECK_DEADLOCK FALSE
