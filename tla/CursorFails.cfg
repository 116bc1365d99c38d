SPECIFICATION Spec
CONSTANTS
  None = None
  Columns = {"date", "group"}
  Rows <- MCRows
  Cell <- UniqueDates
  OrderBy <- ByDate
  Limits = {1, 2}
INVARIANT
  LinksNeverFail
CHECK_DEADLOCK FALSE
