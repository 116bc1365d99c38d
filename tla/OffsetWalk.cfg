SPECIFICATION Spec
CONSTANTS
  None = None
  Columns = {"date"}
  Rows <- MCRows
  Cell <- UniqueDates
  Orders <- ByDate
  Limits = {1, 2, 3}
  MaxOffset = 6
  Appends = TRUE
INVARIANTS
  TypeOK
  LinksLeadToEnds
  LinksAreTight
  WalkIsComplete
CHECK_DEADLOCK FALSE
