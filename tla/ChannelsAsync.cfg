SPECIFICATION Spec
CONSTANTS
  None = None
  Sockets = {w1, w2}
  Workers = {k1}
  Names = {foo, bar}
  Refused = {}
  p1 = p1
  p2 = p2
  bad = bad
  e1 = e1
  e2 = e2
  Patterns <- GoodPatterns
  BadPatterns = {}
  Untranslatable = {}
  Events <- MCEvents
  Matches <- MCMatches
  Objects = {o1, o2, o3}
  Yields = TRUE
INVARIANT
  NoZombieChannel
CHECK_DEADLOCK FALSE
SYMMETRY Symmetry
VIEW Live
