SPECIFICATION Spec
CONSTANTS
  Ops = {o1, o2}
  Teardowns = {t1}
INVARIANTS
  InterruptedReaps
CHECK_DEADLOCK FALSE
