SPECIFICATION FairSpec
CONSTANTS
  Ops = {o1, o2, o3}
  Teardowns = {t1, t2}
INVARIANTS
  NothingOutlives
  TeardownReaps
  LimitsAlone
PROPERTIES
  TeardownReturns
  TeardownFreesCallers
CHECK_DEADLOCK FALSE
