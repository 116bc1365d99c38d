SPECIFICATION WsFairSpec
CONSTANTS
  None = None
  Sockets = {w1, w2}
  Workers = {worker}
  Names = {foo}
  Refused = {}
  p1 = p1
  e1 = e1
  Patterns = {p1}
  BadPatterns = {}
  Untranslatable = {}
  Events = {e1}
  Matches <- MCMatches
  Objects = {o1}
  Yields = FALSE
  MaxPublished = 2
PROPERTIES
  FailedIsForgotten
  MessagesAreTaken
  ShutdownEnds
CHECK_DEADLOCK FALSE
