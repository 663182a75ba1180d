SPECIFICATION FairSpec
CONSTANTS
  Callers = {c1, c2}
  Hazards = {"interrupt", "collect"}
INVARIANTS
  OneOwner
  NeverFalselyConsumed
  ClosedMeansGone
  DropSparesReport
  LiveHandle
PROPERTIES
  ImplementsClaimedRun
  StreamEnds
  ExitReturns
CHECK_DEADLOCK FALSE
