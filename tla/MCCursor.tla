------------------------------ MODULE MCCursor ------------------------------
(* CursorPagination on small tables.                                        *)
EXTENDS CursorPagination, TLC

\* `cursorPagination("-date")`, and one with two columns.
ByDate == <<[column |-> "date", desc |-> TRUE]>>
ByGroupAndDate == <<[column |-> "group", desc |-> FALSE], [column |-> "date", desc |-> TRUE]>>

MCRows == 1 .. 5

\* No two rows have the same date.
UniqueDates == [r \in Rows |-> "date" :> r @@ "group" :> r % 2]
=============================================================================
