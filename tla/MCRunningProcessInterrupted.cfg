SPECIFICATION Spec
CONSTANTS
  Callers = {c1, c2}
  Hazards = {"interrupt"}
INVARIANTS
  NoOrphan
CHECK_DEADLOCK FALSE
