SPECIFICATION FairSpec
CONSTANTS
  Ops = {o1, o2}
  Hubs = {h1, h2}
  NoHub = NoHub
  Faults = {"refuse"}
PROPERTY
  Delivered
CHECK_DEADLOCK FALSE
