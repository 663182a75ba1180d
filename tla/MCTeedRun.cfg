SPECIFICATION TeedSpec
CONSTANTS
  Callers = {t1}
  Workers = {w1}
  Keys = {k1, k2}
  MaxDepth = 2
  Verb = Verb
  NoError = NoError
  Sinks = {out, err}
  Chunks = 2
  Size = 2
INVARIANTS
  FailClosed
  RaisesItsOwn
  TeedInOrder
  QuietAfterReturn
PROPERTIES
  TeesEnd
CHECK_DEADLOCK FALSE
