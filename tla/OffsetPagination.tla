-------------------------- MODULE OffsetPagination --------------------------
(***************************************************************************)
(* Offset pagination: openapi/pagination/offset.py and the queries that    *)
(* DbPaginationVisitor makes of it.  A client opens a page at any offset   *)
(* and follows the `next` links to the last page, and from there the       *)
(* `prev` links to the first one, as traverse_pagination does in the tests.*)
(*                                                                         *)
(* A request is two statements, a count and a SELECT, in one transaction:  *)
(* each of them sees the rows that are there when it runs, and rows may be *)
(* written in between.  An offset counts rows, so that a row deleted or    *)
(* inserted before it moves all pages; what is checked is what the code    *)
(* can keep, with rows that are only ever added after the others.          *)
(***************************************************************************)
EXTENDS Paging

CONSTANTS Orders,     \* the values of order_by
          Limits,     \* the limits a client may ask for
          MaxOffset,  \* bound on the offset a client starts at
          Appends,    \* do other clients add rows?
          None        \* no link

ASSUME OffsetAssumption ==
  /\ Orders \subseteq Seq(SignedColumn)
  /\ Limits \subseteq Nat \ {0}
  /\ MaxOffset \in Nat
  /\ Appends \in BOOLEAN
  /\ None \notin [offset : Nat, limit : Nat \ {0}]

VARIABLES
  table,    \* the rows that are there
  order,    \* the order_by of the client's URL
  page,     \* the limit and offset of the last request
  total,    \* what its count returned
  data,     \* what its SELECT returned
  pc,       \* "start", "counted" between the two statements, "read"
  heading,  \* which links the client follows
  shown,    \* the rows it was shown since it started or turned back
  kept,     \* the rows that have been there since it started
  start     \* the offset it started at

request == <<order, page, total>>
walk    == <<heading, shown, kept, start>>
vars    == <<table, request, data, pc, walk>>

Page == [offset : Nat, limit : Nat \ {0}]

TypeOK ==
  /\ table \subseteq Rows
  /\ order \in Orders
  /\ page \in Page
  /\ total \in Nat
  /\ data \in Seq(Rows)
  /\ pc \in {"start", "counted", "read"}
  /\ heading \in {"next", "prev"}
  /\ shown \subseteq Rows
  /\ kept \subseteq table
  /\ start \in Nat

-----------------------------------------------------------------------------
(* Links                                                                    *)

PageAt(offset, limit) == [offset |-> offset, limit |-> limit]

NotNegative(n) == IF n < 0 THEN 0 ELSE n

\* Mutant: a last page that is full is counted as if there was one more.
CountPartOfAll(count, limit, offset) == NotNegative((count - offset) \div limit)

\* _count_part: how many whole pages there are between the offset and the page
\* that ends at `count`, a full one included.
CountPart(count, limit, offset) ==
  LET n == (count - offset) \div limit
  IN  NotNegative(IF n * limit + offset = count THEN n - 1 ELSE n)

\* first_link
FirstLink(limit, offset) ==
  LET rest == offset - CountPart(offset, limit, 0) * limit
  IN  IF rest > 0 THEN PageAt(0, AtMost(limit, rest)) ELSE None

\* Mutants: the first rows are shown again; the offset goes below zero.
PrevLinkWhole(limit, offset) ==
  IF offset > 0 THEN PageAt(NotNegative(offset - limit), limit) ELSE None

PrevLinkBelow(limit, offset) ==
  IF offset > 0 THEN PageAt(offset - limit, limit) ELSE None

\* prev_link
PrevLink(limit, offset) ==
  LET some == AtMost(limit, offset)
  IN  IF offset > 0 THEN PageAt(offset - some, some) ELSE None

\* Mutant: one row is no reason for another page.
NextLinkOfTwo(count, limit, offset) ==
  IF count > offset + limit + 1 THEN PageAt(offset + limit, limit) ELSE None

\* next_link
NextLink(count, limit, offset) ==
  IF count > offset + limit THEN PageAt(offset + limit, limit) ELSE None

\* last_link
LastLink(count, limit, offset) ==
  LET n == CountPart(count, limit, offset)
  IN  IF n > 0 THEN PageAt(offset + n * limit, limit) ELSE None

\* links: `prev` comes with `first`, and `last` with `next`.
First == FirstLink(page.limit, page.offset)
Prev  == IF First # None THEN PrevLink(page.limit, page.offset) ELSE None
Nxt   == NextLink(total, page.limit, page.offset)
Last  == IF Nxt # None THEN LastLink(total, page.limit, page.offset) ELSE None

-----------------------------------------------------------------------------
Init ==
  /\ table \in SUBSET Rows
  /\ order \in Orders
  /\ page \in [offset : 0 .. MaxOffset, limit : Limits]
  /\ total = 0
  /\ data = <<>>
  /\ pc = "start"
  /\ heading = "next"
  /\ shown = {}
  /\ kept = {}
  /\ start = page.offset

\* execute: the count of all the rows.
Count(p) ==
  /\ page' = p
  /\ total' = Cardinality(table)
  /\ pc' = "counted"
  /\ UNCHANGED <<table, order, data>>

\* The first page, wherever the client wants to start.
Open ==
  /\ pc = "start"
  /\ Count(page)
  /\ kept' = table
  /\ UNCHANGED <<heading, shown, start>>

\* apply_offset_pagination: the SELECT, and the page it makes.
Window(d) == SubSeq(d, page.offset + 1, AtMost(Len(d), page.offset + page.limit))

Fetch ==
  /\ pc = "counted"
  /\ \E d \in Select(table, order, Cardinality(table)) : data' = Window(d)
  /\ shown' = shown \cup RowsOf(data')
  /\ pc' = "read"
  /\ UNCHANGED <<table, request, heading, kept, start>>

GoNext ==
  /\ pc = "read"
  /\ heading = "next"
  /\ Nxt # None
  /\ Count(Nxt)
  /\ UNCHANGED <<heading, shown, kept, start>>

\* On the last page the client turns back.
GoPrev ==
  /\ pc = "read"
  /\ heading = "next" => Nxt = None
  /\ Prev # None
  /\ Count(Prev)
  /\ heading' = "prev"
  /\ shown' = IF heading = "next" THEN RowsOf(data) ELSE shown
  /\ UNCHANGED <<kept, start>>

\* Another client adds a row after all those that are there.
AppendRow(r) ==
  /\ Appends
  /\ r \notin table
  /\ \A s \in table : Before(order, s, r)
  /\ table' = table \cup {r}
  /\ UNCHANGED <<request, data, pc, walk>>

Next ==
  \/ Open \/ Fetch \/ GoNext \/ GoPrev
  \/ \E r \in Rows : AppendRow(r)

Spec == Init /\ [][Next]_vars

-----------------------------------------------------------------------------
\* The pages of a chain of links, from p on: at most `steps` of them.
Chain(link(_), p, steps) ==
  LET at[i \in 0 .. steps] ==
        IF i = 0 THEN p ELSE IF at[i - 1] = None THEN None ELSE link(at[i - 1])
  IN  {at[i] : i \in 0 .. steps} \ {None}

PrevOf(p) == PrevLink(p.limit, p.offset)
NextOf(p) == NextLink(total, p.limit, p.offset)

\* `first` and `last` are where the `prev` and the `next` links lead to in the
\* end, and are there whenever the other one is (Links.links).
LinksLeadToEnds ==
  pc # "start" =>
    /\ First # None <=> page.offset > 0
    /\ First # None => First \in Chain(PrevOf, page, page.offset) /\ PrevOf(First) = None
    /\ Nxt # None => Last \in Chain(NextOf, page, total) /\ NextOf(Last) = None

\* The page a link leads to touches this one: it misses no row between the two,
\* shows none twice, and a next page is not empty.  `first` starts at the first
\* row and `last` ends with the last one (Links).
LinksAreTight ==
  pc # "start" =>
    /\ Prev # None => Prev.offset + Prev.limit = page.offset
    /\ Nxt # None => Nxt.offset = page.offset + page.limit /\ Nxt.offset < total
    /\ First # None => First.offset = 0 /\ First.limit \in 1 .. AtMost(page.limit, page.offset)
    /\ Last # None => Last.offset < total /\ total <= Last.offset + Last.limit

\* A walk to the last page shows every row that was there when it started but
\* the ones before its offset, though the count and the page are two statements;
\* the walk back shows those too.
AtLastPage  == pc = "read" /\ heading = "next" /\ Nxt = None
AtFirstPage == pc = "read" /\ heading = "prev" /\ Prev = None

WalkIsComplete ==
  /\ AtLastPage =>
       \A r \in kept \ shown : Cardinality({s \in kept : Before(order, s, r)}) < start
  /\ AtFirstPage => kept \subseteq shown

=============================================================================
