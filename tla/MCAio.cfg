SPECIFICATION Spec
CONSTANTS
  Helpers = {"wait_until", "wait_for_line", "probe", "stream"}
  Size = 4
INVARIANTS
  NothingOutlives
  VerdictStands
  CapHeld
CHECK_DEADLOCK FALSE
