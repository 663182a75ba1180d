SPECIFICATION FairSpec
CONSTANTS
  Calls = {c1, c2, c3}
  MaxRestarts = 1
INVARIANTS
  FailLoud
  LoopIsOwned
  ForkRefused
PROPERTIES
  StopReturns
  RaiseSurfaces
  ImplementsSupervisedRun
CHECK_DEADLOCK FALSE
