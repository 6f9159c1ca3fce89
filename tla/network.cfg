SPECIFICATION FairSpec
CONSTANTS
  Nodes = {A, B}
  Delays = {0, 2}
  NoConfig <- Defaults
  LinkConfigs <- Configurations
  MaxSteps = 2
  MaxEvents = 3
INVARIANT TypeOK
INVARIANT EveryBufferedIsChecked
INVARIANT NothingIsLate
INVARIANT ReturnedRunIsComplete
INVARIANT DeliveryInv
PROPERTY ImplementsNet
PROPERTY EveryCopyArrives
CHECK_DEADLOCK FALSE
