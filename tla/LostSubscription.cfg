SPECIFICATION Spec
CONSTANTS
  None = None
  Sockets = {w1, w2}
  Workers = {k1}
  Names = {foo, bar}
  Refused = {}
  p1 = p1
  p2 = p2
  bad = bad
  e1 = e1
  e2 = e2
  Patterns = {p1}
  BadPatterns = {}
  Untranslatable = {}
  Events = {e2}
  Matches <- OneMatch
  Objects = {o1, o2, o3}
  Yields = TRUE
PROPERTY
  SubscriptionsStay
CHECK_DEADLOCK FALSE
