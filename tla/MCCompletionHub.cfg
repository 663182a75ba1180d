SPECIFICATION FairSpec
CONSTANTS
  Ops = {o1, o2}
  Hubs = {h1, h2}
  NoHub = NoHub
  Faults = {"write", "receive", "call_soon", "arm", "close", "attach"}
INVARIANTS
  NoLostWakeup
  OneWakeup
  NeverEmptyHanded
  OneOpenHub
  RetiresEmpty
PROPERTIES
  Delivered
  CancelEndsWork
  DryHubRetires
  ImplementsAsyncOps
CHECK_DEADLOCK FALSE
