SPECIFICATION Spec
CONSTANTS
  Callers = {c1, c2}
  Hazards = {"collect"}
INVARIANTS
  NoOrphan
CHECK_DEADLOCK FALSE
