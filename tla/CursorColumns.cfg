SPECIFICATION Spec
CONSTANTS
  None = None
  Columns = {"date", "group"}
  Rows <- MCRows
  Cell <- UniqueDates
  OrderBy <- ByGroupAndDate
  Limits = {1, 2}
INVARIANT
  WalkIsComplete
CHECK_DEADLOCK FALSE
