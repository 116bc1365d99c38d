------------------------------ MODULE MCOffset ------------------------------
(* OffsetPagination on small tables.                                        *)
EXTENDS OffsetPagination, TLC

\* `offsetPagination("-date", "date")`
ByDate == {<<[column |-> "date", desc |-> TRUE]>>, <<[column |-> "date", desc |-> FALSE]>>}

MCRows == 1 .. 4

UniqueDates == [r \in Rows |-> "date" :> r]
=============================================================================
