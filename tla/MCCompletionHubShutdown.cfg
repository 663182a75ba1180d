SPECIFICATION Spec
CONSTANTS
  Ops = {o1, o2}
  Hubs = {h1, h2}
  NoHub = NoHub
  Faults = {}
PROPERTY
  ShutdownSparesLateOps
CHECK_DEADLOCK FALSE
