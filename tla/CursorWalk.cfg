SPECIFICATION Spec
CONSTANTS
  None = None
  Columns = {"date", "group"}
  Rows <- MCRows
  Cell <- UniqueDates
  OrderBy <- ByDate
  Limits = {1, 2}
INVARIANTS
  WalkIsComplete
  WalkBackIsComplete
PROPERTIES
  PagesInOrder
  CursorMovesOn
  WayBackIsWayThere
CHECK_DEADLOCK FALSE
