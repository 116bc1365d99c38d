SPECIFICATION Spec
CONSTANTS
  None = None
  Sockets = {w1, w2}
  Workers = {k1, k2}
  Names = {foo, bar, Upper}
  Refused = {Upper}
  p1 = p1
  p2 = p2
  bad = bad
  e1 = e1
  e2 = e2
  Patterns <- MCPatterns
  BadPatterns = {bad}
  Untranslatable = {bad}
  Events <- MCEvents
  Matches <- MCMatches
  Objects = {o1}
  Yields = FALSE
INVARIANTS
  TypeOK
  ChannelsOK
  RegistryMatchesBackend
  NoKeyError
PROPERTIES
  SubscriptionsStay
  FailedLeavesNoTrace
  Implements
CHECK_DEADLOCK FALSE
SYMMETRY Symmetry
VIEW Live
