------------------------------- MODULE Paging -------------------------------
(***************************************************************************)
(* The part of CrudDB that both paginations use: a table, the order of its *)
(* rows by a list of signed columns, and a SELECT with an ORDER BY and a   *)
(* LIMIT.  The database is external: where the order leaves rows equal it  *)
(* may list them in any order, and in another one the next time.           *)
(***************************************************************************)
EXTENDS Integers, FiniteSets, Sequences

CONSTANTS Rows,     \* the rows the table may ever hold
          Columns,  \* the columns it can be ordered by
          Cell      \* Cell[r][c]: what row r has in column c

ASSUME PagingAssumption ==
  /\ IsFiniteSet(Rows)
  /\ Cell \in [Rows -> [Columns -> Int]]

\* "-date" is [column |-> "date", desc |-> TRUE].
SignedColumn == [column : Columns, desc : BOOLEAN]

Reversed(col) == [col EXCEPT !.desc = ~@]

\* fields_flip_sign
FlipSign(order) == [i \in DOMAIN order |-> Reversed(order[i])]

\* Row r comes before row s in the given column.
Precedes(col, r, s) ==
  IF col.desc THEN Cell[r][col.column] > Cell[s][col.column]
              ELSE Cell[r][col.column] < Cell[s][col.column]

\* order_by_query: by the first column, then by the second one, and so on.
Before(order, r, s) ==
  \E i \in DOMAIN order :
    /\ Precedes(order[i], r, s)
    /\ \A j \in 1 .. i - 1 : Cell[r][order[j].column] = Cell[s][order[j].column]

\* The lowest of two numbers.
AtMost(a, b) == IF a <= b THEN a ELSE b

\* The first rows of `hits` in the given order, `most` of them if there are as
\* many: every list the database may return.
Select(hits, order, most) ==
  {d \in [1 .. AtMost(Cardinality(hits), most) -> hits] :
     \A i \in DOMAIN d :
       /\ \A j \in 1 .. i - 1 : d[i] # d[j] /\ ~Before(order, d[i], d[j])
       /\ \A r \in hits : Before(order, r, d[i]) => \E j \in 1 .. i - 1 : d[j] = r}

RowsOf(d) == {d[i] : i \in DOMAIN d}

=============================================================================
