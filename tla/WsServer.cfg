SPECIFICATION WsSpec
CONSTANTS
  None = None
  Sockets = {w1, w2}
  Workers = {worker}
  Names = {foo, bar}
  Refused = {}
  p1 = p1
  e1 = e1
  Patterns = {p1}
  BadPatterns = {}
  Untranslatable = {}
  Events = {e1}
  Matches <- MCMatches
  Objects = {o1, o2}
  Yields = FALSE
  MaxPublished = 2
INVARIANTS
  ConnectedSetIsRight
  QuietAfterClose
  WorkerSurvives
CHECK_DEADLOCK FALSE
SYMMETRY Symmetry
