SPECIFICATION Spec
CONSTANTS
  Calls = {c1, c2}
  Builders = {b1, b2}
  Size = 3
  NoError = NoError
  Empty = Empty
SYMMETRY Symmetry
INVARIANTS
  EachItsOwn
  RulesKept
  CallSeesRules
CHECK_DEADLOCK FALSE
