-------------------------- MODULE CursorPagination --------------------------
(***************************************************************************)
(* Cursor pagination: openapi/pagination/cursor.py and the query that      *)
(* DbPaginationVisitor makes of it, used the way a client uses it (and the *)
(* tests do, traverse_pagination): it follows the `next` links to the last *)
(* page and then the `prev` links back to the first one, while other       *)
(* clients insert and delete rows.                                         *)
(*                                                                         *)
(* The server keeps nothing between two requests: a page is asked for with *)
(* a cursor, which holds the order columns of one row and the direction of *)
(* the page.  A request is one SELECT, so it is one step; the links and    *)
(* the page are computed from its rows.  The cursor's encoding is a round  *)
(* trip, and the client sends no cursor it was not given.                  *)
(***************************************************************************)
EXTENDS Paging

CONSTANTS OrderBy,   \* order_by_fields
          Limits,    \* the limits a client may ask for
          None       \* no link

ASSUME CursorAssumption ==
  /\ OrderBy \in Seq(SignedColumn) /\ OrderBy # <<>>
  /\ Limits \subseteq Nat \ {0}
  /\ None \notin Seq(Int)

VARIABLES
  table,      \* the rows that are there
  limit,      \* the parameters of the client's URL
  direction,
  writes,     \* what other clients do meanwhile: "insert", "delete" or both
  request,    \* the cursor of the last request, and its direction
  data,       \* the rows the query of the last request returned
  heading,    \* which links the client follows
  shown,      \* the rows it was shown since it started or turned back
  kept,       \* the rows that have been there since it started
  trail       \* the pages it left on its way, with their `next` links

url  == <<limit, direction, writes>>
vars == <<table, url, request, data, heading, shown, kept, trail>>

\* The cursor of a request without one.
NoCursor == <<>>

-----------------------------------------------------------------------------
\* cursor_info: the order the client asked for.
Order == IF direction = "desc" THEN FlipSign(OrderBy) ELSE OrderBy

\* start_values: the order columns of a row.
StartValues(r) == [i \in DOMAIN OrderBy |-> Cell[r][OrderBy[i].column]]

\* Mutant: the row of the cursor is left out.
PassesStrictly(r, cursor, previous) ==
  \A i \in DOMAIN cursor :
    LET value == Cell[r][Order[i].column]
    IN  IF Order[i].desc = previous THEN value > cursor[i] ELSE value < cursor[i]

\* filter, for every column of the cursor: ge or le, whatever the others say.
Passes(r, cursor, previous) ==
  \A i \in DOMAIN cursor :
    LET value == Cell[r][Order[i].column]
    IN  IF Order[i].desc = previous THEN value >= cursor[i] ELSE value <= cursor[i]

\* Mutant: a page back has one extra row, as a page forward.
OneExtra(previous) == 1

\* A page forward has one extra row, the next one; a page back has two, the row
\* of the cursor and the next one.
Extra(previous) == IF previous THEN 2 ELSE 1

\* apply_cursor_pagination
Answers(cursor, previous) ==
  Select({r \in table : Passes(r, cursor, previous)},
         IF previous THEN FlipSign(Order) ELSE Order,
         limit + Extra(previous))

\* links, with data[0] read from no rows at all: IndexError.
LinksFail == request.cursor # NoCursor /\ data = <<>>

\* Mutant: the next page starts where this one does.
NextAgain ==
  IF ~request.previous /\ Len(data) > limit THEN StartValues(data[1]) ELSE None

\* links["next"]
NextLink ==
  IF request.previous THEN StartValues(data[1])
  ELSE IF Len(data) > limit THEN StartValues(data[limit + 1]) ELSE None

\* links["prev"]
PrevLink ==
  IF request.previous
  THEN IF Len(data) > limit + 1 THEN StartValues(data[limit + 1]) ELSE None
  ELSE IF request.cursor # NoCursor THEN StartValues(data[1]) ELSE None

\* data[: self.limit] of a list that may be shorter.
Cut(d) == SubSeq(d, 1, AtMost(Len(d), limit))

Backwards(d) == [i \in DOMAIN d |-> d[Len(d) + 1 - i]]

\* Mutants: the extra row is shown; a page back is cut at its other end.
GetDataWhole == IF request.previous THEN Backwards(SubSeq(data, 2, Len(data))) ELSE data

GetDataCutAtEnd == IF request.previous THEN Cut(Backwards(SubSeq(data, 2, Len(data)))) ELSE Cut(data)

\* get_data: a page back drops the row of the cursor, and is turned around.
GetData == IF request.previous THEN Backwards(Cut(SubSeq(data, 2, Len(data)))) ELSE Cut(data)

-----------------------------------------------------------------------------
Init ==
  /\ table \in SUBSET Rows
  /\ limit \in Limits
  /\ direction \in {"asc", "desc"}
  /\ writes \in SUBSET {"insert", "delete"}
  /\ request = [cursor |-> NoCursor, previous |-> FALSE]
  /\ data = <<>>
  /\ heading = "start"
  /\ shown = {}
  /\ kept = {}
  /\ trail = <<>>

\* get_list: the client asks for a page.
Get(cursor, previous) ==
  /\ data' \in Answers(cursor, previous)
  /\ request' = [cursor |-> cursor, previous |-> previous]
  /\ UNCHANGED <<table, url>>

\* The first page, with no cursor.
Open ==
  /\ heading = "start"
  /\ Get(NoCursor, FALSE)
  /\ heading' = "next"
  /\ shown' = RowsOf(GetData')
  /\ kept' = table
  /\ UNCHANGED trail

GoNext ==
  /\ heading = "next"
  /\ ~LinksFail
  /\ NextLink # None
  /\ Get(NextLink, FALSE)
  /\ shown' = shown \cup RowsOf(GetData')
  /\ trail' = Append(trail, [page |-> GetData, next |-> NextLink])
  /\ UNCHANGED <<heading, kept>>

\* On the last page the client turns back, and has its trail to compare with.
GoPrev ==
  /\ heading # "start"
  /\ ~LinksFail
  /\ heading = "next" => NextLink = None
  /\ PrevLink # None
  /\ Get(PrevLink, TRUE)
  /\ heading' = "prev"
  /\ shown' = (IF heading = "next" THEN RowsOf(GetData) ELSE shown) \cup RowsOf(GetData')
  /\ trail' = IF trail = <<>> THEN trail ELSE SubSeq(trail, 1, Len(trail) - 1)
  /\ UNCHANGED kept

\* Another client inserts a row, or deletes one.
Insert(r) ==
  /\ "insert" \in writes
  /\ r \notin table
  /\ table' = table \cup {r}
  /\ UNCHANGED <<url, request, data, heading, shown, kept, trail>>

Delete(r) ==
  /\ "delete" \in writes
  /\ r \in table
  /\ table' = table \ {r}
  /\ kept' = kept \ {r}
  /\ UNCHANGED <<url, request, data, heading, shown, trail>>

Next ==
  \/ Open \/ GoNext \/ GoPrev
  \/ \E r \in Rows : Insert(r) \/ Delete(r)

Spec == Init /\ [][Next]_vars

-----------------------------------------------------------------------------
\* The client is at the end of a walk, and was not sent an error.
AtLastPage  == heading = "next" /\ ~LinksFail /\ NextLink = None
AtFirstPage == heading = "prev" /\ ~LinksFail /\ PrevLink = None

\* A walk by the next links shows every row that was in the table from its first
\* page to its last one, whatever rows came and went meanwhile (the filter of
\* apply_cursor_pagination and links).
WalkIsComplete == AtLastPage => kept \subseteq shown

\* So does the walk back by the prev links, as long as no row is deleted (links and
\* get_data, `previous`): a page back drops its first row for that of the cursor.
WalkBackIsComplete == "delete" \notin writes /\ AtFirstPage => kept \subseteq shown

\* Every page comes after all the pages the walk has shown, and before them on
\* the way back: the rows are in order and no row is shown twice.
PagesInOrder ==
  [][/\ GoNext => \A r \in shown, s \in RowsOf(GetData') : Before(Order, r, s)
     /\ GoPrev => \A r \in shown' \ RowsOf(GetData'), s \in RowsOf(GetData') :
                    Before(Order, s, r)]_vars

\* A link never leads back to where the walk has been: the cursors move on, so
\* that a walk ends, whatever is written meanwhile.
CursorMovesOn ==
  [][/\ GoNext => request'.cursor # request.cursor
     /\ GoPrev /\ heading = "prev" => request'.cursor # request.cursor]_vars

\* The links of every page can be computed (data[0] in links).
LinksNeverFail == heading # "start" => ~LinksFail

\* With nobody writing, the pages of the way back are the pages of the way there,
\* with the same next links, down to the first one (tests/pagination/utils.py,
\* traverse_pagination).
WayBackIsWayThere ==
  [][GoPrev /\ writes = {} =>
       /\ trail # <<>>
       /\ GetData' = trail[Len(trail)].page
       /\ NextLink' = trail[Len(trail)].next
       /\ PrevLink' = None => trail' = <<>>]_vars

=============================================================================
