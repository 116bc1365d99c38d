--------------------- MODULE CursorPagination_proofs ---------------------
(***************************************************************************)
(* Theorems about CursorPagination, for every table, page limit and column *)
(* order_by, and for any inserts and deletes between two requests.         *)
(***************************************************************************)
EXTENDS CursorPagination, FiniteSetTheorems, FunctionTheorems, SequenceTheorems,
        WellFoundedInduction, TLAPS

\* order_by is one column, and no two rows have the same value in it.
OneUniqueColumn ==
  /\ Len(OrderBy) = 1
  /\ \A r, s \in Rows : r # s => Cell[r][OrderBy[1].column] # Cell[s][OrderBy[1].column]

\* Where a row is in the order the client asked for.
Place(r) == IF Order[1].desc THEN -Cell[r][Order[1].column] ELSE Cell[r][Order[1].column]

\* The values a cursor can have.
CursorValues == {NoCursor} \cup {StartValues(r) : r \in Rows}

TypeOK ==
  /\ table \subseteq Rows
  /\ limit \in Nat \ {0}
  /\ direction \in {"asc", "desc"}
  /\ request.cursor \in CursorValues
  /\ request.previous \in BOOLEAN
  /\ data \in Seq(Rows)
  /\ heading \in {"start", "next", "prev"}
  /\ shown \subseteq Rows
  /\ kept \subseteq table

\* What a page forward has: rows in order, none of them before that of the cursor,
\* and all that were there from it on up to the extra one.
PageForward ==
  /\ ~request.previous
  /\ Len(data) <= limit + 1
  /\ \A i, j \in DOMAIN data : i < j => Place(data[i]) < Place(data[j])
  /\ \A r \in Rows : request.cursor = StartValues(r) =>
       /\ \A i \in DOMAIN data : Place(r) <= Place(data[i])
       /\ \A k \in kept : Place(r) <= Place(k) => k \in RowsOf(data) \/ Len(data) > limit
  /\ request.cursor = NoCursor => \A k \in kept : k \in RowsOf(data) \/ Len(data) > limit

\* What a page back has.
PageBack ==
  /\ request.previous
  /\ Len(data) <= limit + 2
  /\ \A i, j \in DOMAIN data : i < j => Place(data[j]) < Place(data[i])
  /\ \A r \in Rows : request.cursor = StartValues(r) =>
       \A i \in DOMAIN data : Place(data[i]) <= Place(r)

\* On the way to the last page: what the client has been shown is before the next
\* page, and what it has not been shown is not.
WayThere ==
  /\ PageForward
  /\ \A r \in kept \ shown : Len(data) > limit /\ Place(data[limit + 1]) <= Place(r)
  /\ Len(data) > limit => \A r \in shown : Place(r) < Place(data[limit + 1])

\* On the way back: the same, from the first row of the page that it was shown
\* last; what it has not been shown is before it unless rows are deleted.
WayBack ==
  /\ PageBack
  /\ Len(data) > limit + 1 => \A r \in shown : Place(data[limit + 1]) <= Place(r)
  /\ "delete" \notin writes =>
       \A r \in kept \ shown : Len(data) > limit + 1 /\ Place(r) < Place(data[limit + 1])

WalkInv ==
  /\ heading = "next" => WayThere
  /\ heading = "prev" => WayBack
  /\ "delete" \notin writes => RowsOf(data) \subseteq table

-----------------------------------------------------------------------------
(***************************************************************************)
(* One unique column.                                                      *)
(***************************************************************************)

\* A column the other way round.
LEMMA ReversedIs ==
  ASSUME NEW col \in SignedColumn
  PROVE  /\ Reversed(col) \in SignedColumn /\ Reversed(col).column = col.column
         /\ col.desc = TRUE => Reversed(col).desc = FALSE
         /\ col.desc = FALSE => Reversed(col).desc = TRUE
<1>1. Reversed(col) \in SignedColumn
  BY DEF Reversed, SignedColumn
<1>2. Reversed(col).column = col.column
  BY DEF Reversed, SignedColumn
<1>3. ASSUME col.desc = TRUE
      PROVE  Reversed(col).desc = FALSE
  BY <1>3 DEF Reversed, SignedColumn
<1>4. ASSUME col.desc = FALSE
      PROVE  Reversed(col).desc = TRUE
  BY <1>4 DEF Reversed, SignedColumn
<1>5. QED
  BY <1>1, <1>2, <1>3, <1>4

\* An order_by of one column is one the other way round too.
LEMMA Flipped ==
  ASSUME NEW o, DOMAIN o = 1 .. 1, o[1] \in SignedColumn
  PROVE  DOMAIN FlipSign(o) = 1 .. 1 /\ FlipSign(o)[1] = Reversed(o[1])
  BY DEF FlipSign

\* The order that the client asked for has the one column too.
LEMMA OrderHasOne ==
  ASSUME OneUniqueColumn
  PROVE  /\ DOMAIN OrderBy = 1 .. 1 /\ DOMAIN Order = 1 .. 1
         /\ OrderBy[1].column \in Columns
         /\ Order[1] \in SignedColumn /\ Order[1].column = OrderBy[1].column
         /\ Order[1].desc = TRUE \/ Order[1].desc = FALSE
<1>1. DOMAIN OrderBy = 1 .. 1 /\ OrderBy[1] \in SignedColumn
  BY CursorAssumption DEF OneUniqueColumn
<1>2. DOMAIN Order = 1 .. 1 /\ Order[1] \in SignedColumn /\ Order[1].column = OrderBy[1].column
  BY <1>1, Flipped, ReversedIs DEF Order
<1>3. QED
  BY <1>1, <1>2 DEF SignedColumn

\* Places are different, and the order, its reverse and the filter go by them.
LEMMA Places ==
  ASSUME OneUniqueColumn
  PROVE  /\ \A r \in Rows : Place(r) \in Int
         /\ \A r, s \in Rows : Place(r) = Place(s) => r = s
         /\ \A r, s \in Rows : Before(Order, r, s) <=> Place(r) < Place(s)
         /\ \A r, s \in Rows : Before(FlipSign(Order), r, s) <=> Place(s) < Place(r)
<1> DEFINE cell(r) == Cell[r][OrderBy[1].column]
<1>1. \A r \in Rows : cell(r) \in Int
  BY OrderHasOne, PagingAssumption
<1>2. /\ DOMAIN Order = 1 .. 1 /\ Order[1].column = OrderBy[1].column
      /\ DOMAIN FlipSign(Order) = 1 .. 1 /\ FlipSign(Order)[1].column = OrderBy[1].column
      /\ Order[1].desc = TRUE => FlipSign(Order)[1].desc = FALSE
      /\ Order[1].desc = FALSE => FlipSign(Order)[1].desc = TRUE
  BY OrderHasOne, Flipped, ReversedIs
<1>3. \A r \in Rows : Place(r) = IF Order[1].desc THEN -cell(r) ELSE cell(r)
  BY <1>2 DEF Place
<1>4. \A r, s \in Rows : r # s => cell(r) # cell(s)
  BY DEF OneUniqueColumn
<1>5. ASSUME NEW o, DOMAIN o = 1 .. 1, NEW r \in Rows, NEW s \in Rows
      PROVE  Before(o, r, s) <=> Precedes(o[1], r, s)
  BY <1>5 DEF Before
<1>6. ASSUME NEW r \in Rows, NEW s \in Rows
      PROVE  /\ Precedes(Order[1], r, s) <=> Place(r) < Place(s)
             /\ Precedes(FlipSign(Order)[1], r, s) <=> Place(s) < Place(r)
  <2>1. cell(r) \in Int /\ cell(s) \in Int
    BY <1>1
  <2>2. CASE Order[1].desc = TRUE
    <3>1. Place(r) = 0 - cell(r) /\ Place(s) = 0 - cell(s)
      BY <1>3, <2>1, <2>2
    <3>2. /\ Precedes(Order[1], r, s) <=> cell(r) > cell(s)
          /\ Precedes(FlipSign(Order)[1], r, s) <=> cell(r) < cell(s)
      BY <1>2, <2>2 DEF Precedes
    <3>3. QED
      BY <2>1, <3>1, <3>2
  <2>3. CASE Order[1].desc = FALSE
    BY <1>2, <1>3, <2>1, <2>3 DEF Precedes
  <2>4. QED
    BY <2>2, <2>3, OrderHasOne
<1>7. ASSUME NEW r \in Rows, NEW s \in Rows
      PROVE  Place(r) \in Int /\ (Place(r) = Place(s) => r = s)
  BY <1>1, <1>3, <1>4
<1>8. QED
  BY <1>2, <1>5, <1>6, <1>7

\* A cursor is the value of one row, and is neither no cursor nor no link.
LEMMA Cursors ==
  ASSUME OneUniqueColumn
  PROVE  /\ \A r \in Rows : StartValues(r) # NoCursor /\ StartValues(r) # None
         /\ \A r, s \in Rows : StartValues(r) = StartValues(s) => r = s
         /\ \A r, s \in Rows : Passes(r, StartValues(s), FALSE) <=> Place(s) <= Place(r)
         /\ \A r, s \in Rows : Passes(r, StartValues(s), TRUE) <=> Place(r) <= Place(s)
         /\ \A r \in Rows : Passes(r, NoCursor, FALSE)
<1> DEFINE cell(r) == Cell[r][OrderBy[1].column]
<1>1. \A r \in Rows : cell(r) \in Int
  BY OrderHasOne, PagingAssumption
<1>2. \A r \in Rows : /\ StartValues(r) \in Seq(Int) /\ DOMAIN StartValues(r) = 1 .. 1
                      /\ StartValues(r)[1] = cell(r)
  BY <1>1, OrderHasOne DEF StartValues
<1>3. \A r \in Rows : Place(r) = IF Order[1].desc THEN -cell(r) ELSE cell(r)
  BY OrderHasOne DEF Place
<1>4. \A r \in Rows : StartValues(r) # NoCursor /\ StartValues(r) # None
  BY <1>2, CursorAssumption DEF NoCursor
<1>5. \A r, s \in Rows : StartValues(r) = StartValues(s) => r = s
  BY <1>2 DEF OneUniqueColumn
<1>6. ASSUME NEW r \in Rows, NEW s \in Rows, NEW previous \in BOOLEAN
      PROVE  Passes(r, StartValues(s), previous) <=>
               IF Order[1].desc = previous THEN cell(r) >= cell(s) ELSE cell(r) <= cell(s)
  BY <1>2, OrderHasOne DEF Passes
<1>7. ASSUME NEW r \in Rows, NEW s \in Rows
       PROVE  /\ Passes(r, StartValues(s), FALSE) <=> Place(s) <= Place(r)
              /\ Passes(r, StartValues(s), TRUE) <=> Place(r) <= Place(s)
  <2>1. cell(r) \in Int /\ cell(s) \in Int
    BY <1>1
  <2>2. CASE Order[1].desc = TRUE
    <3>1. Place(r) = 0 - cell(r) /\ Place(s) = 0 - cell(s)
      BY <1>3, <2>1, <2>2
    <3>2. /\ Passes(r, StartValues(s), FALSE) <=> cell(r) <= cell(s)
          /\ Passes(r, StartValues(s), TRUE) <=> cell(r) >= cell(s)
      BY <1>6, <2>2
    <3>3. /\ cell(r) <= cell(s) <=> Place(s) <= Place(r)
          /\ cell(r) >= cell(s) <=> Place(r) <= Place(s)
      BY <2>1, <3>1
    <3>4. QED
      BY <3>2, <3>3, Zenon
  <2>3. CASE Order[1].desc = FALSE
    BY <1>3, <1>6, <2>1, <2>3
  <2>4. QED
    BY <2>2, <2>3, OrderHasOne
<1>8. \A r \in Rows : Passes(r, NoCursor, FALSE)
  BY DEF Passes, NoCursor
<1>9. QED
  BY <1>4, <1>5, <1>7, <1>8

\* What a SELECT lists: rows in order, as many as there are up to the limit, and
\* no row is left out that is before one of them.
LEMMA SelectLists ==
  ASSUME NEW T \in SUBSET Rows, NEW o, NEW most \in Nat, NEW d \in Select(T, o, most)
  PROVE  /\ d \in Seq(T) /\ Len(d) <= most
         /\ \A i, j \in DOMAIN d : i < j => d[i] # d[j] /\ ~Before(o, d[j], d[i])
         /\ \A r \in T \ RowsOf(d) : Len(d) = most /\ \A i \in DOMAIN d : ~Before(o, r, d[i])
<1> DEFINE m == AtMost(Cardinality(T), most)
<1>1. IsFiniteSet(T) /\ Cardinality(T) \in Nat
  BY PagingAssumption, FS_Subset, FS_CardinalityType
<1>2. m \in Nat /\ m <= most /\ (m = most \/ m = Cardinality(T))
  BY <1>1 DEF AtMost
<1>3. d \in [1 .. m -> T] /\ d \in Seq(T) /\ Len(d) = m /\ DOMAIN d = 1 .. m
  BY <1>2 DEF Select
<1>4. \A i \in 1 .. m :
        /\ \A j \in 1 .. i - 1 : d[i] # d[j] /\ ~Before(o, d[i], d[j])
        /\ \A r \in T : Before(o, r, d[i]) => \E j \in 1 .. i - 1 : d[j] = r
  BY <1>3 DEF Select
<1>5. \A i, j \in 1 .. m : i < j => d[i] # d[j] /\ ~Before(o, d[j], d[i])
  BY <1>2, <1>4
<1>6. ASSUME NEW r \in T \ RowsOf(d)
      PROVE  m = most /\ \A i \in 1 .. m : ~Before(o, r, d[i])
  <2>1. \A i \in 1 .. m : d[i] # r
    BY <1>3 DEF RowsOf
  <2>2. m # Cardinality(T)
    <3>1. d \in Injection(1 .. m, T)
      BY <1>2, <1>3, <1>5 DEF Injection, IsInjective
    <3>2. Cardinality(1 .. m) = m
      BY <1>2, FS_Interval
    <3>3. d \notin Surjection(1 .. m, T)
      BY <2>1 DEF Surjection
    <3>4. QED
      BY <1>1, <3>1, <3>2, <3>3, FS_Injection
  <2>3. \A i \in 1 .. m : \A j \in 1 .. i - 1 : j \in 1 .. m
    BY <1>2
  <2>4. QED
    BY <1>2, <1>4, <2>1, <2>2, <2>3
<1>7. QED
  BY <1>2, <1>3, <1>5, <1>6

\* The rows of a list that is cut.
LEMMA CutRows ==
  ASSUME NEW d \in Seq(Rows), NEW n \in Nat
  PROVE  RowsOf(SubSeq(d, 1, AtMost(Len(d), n))) = {d[i] : i \in 1 .. AtMost(Len(d), n)}
<1> DEFINE m == AtMost(Len(d), n)
<1>1. m \in Nat /\ m <= Len(d)
  BY DEF AtMost
<1>2. SubSeq(d, 1, m) = [i \in 1 .. m |-> d[i]]
  BY <1>1
<1>3. QED
  BY <1>2 DEF RowsOf

\* The rows of a list that loses its first one, is cut, and is turned around.
LEMMA BackRows ==
  ASSUME NEW d \in Seq(Rows), NEW n \in Nat
  PROVE  LET e == SubSeq(d, 2, Len(d))
         IN  RowsOf(Backwards(SubSeq(e, 1, AtMost(Len(e), n)))) = {d[i] : i \in 2 .. AtMost(Len(d), n + 1)}
<1> DEFINE e == SubSeq(d, 2, Len(d))
           m == AtMost(Len(e), n)
           c == SubSeq(e, 1, m)
<1>1. e \in Seq(Rows) /\ Len(e) \in Nat /\ Len(e) = (IF Len(d) = 0 THEN 0 ELSE Len(d) - 1)
  OBVIOUS
<1>2. \A i \in 1 .. Len(e) : e[i] = d[i + 1]
  OBVIOUS
<1>3. m \in Nat /\ m <= Len(e)
  BY <1>1 DEF AtMost
<1>4. c = [i \in 1 .. m |-> e[i]] /\ Len(c) = m /\ DOMAIN c = 1 .. m
  <2> HIDE DEF e, m
  <2>1. QED
    BY <1>1, <1>3
<1>5. RowsOf(Backwards(c)) = {c[i] : i \in 1 .. m}
  <2> HIDE DEF c, m
  <2>1. \A i \in 1 .. m : m + 1 - i \in 1 .. m /\ m + 1 - (m + 1 - i) = i
    BY <1>3
  <2>2. RowsOf(Backwards(c)) = {c[m + 1 - i] : i \in 1 .. m}
    BY <1>4 DEF RowsOf, Backwards
  <2>3. QED
    BY <2>1, <2>2
<1>6. {c[i] : i \in 1 .. m} = {d[i] : i \in 2 .. m + 1}
  <2>1. \A i \in 1 .. m : c[i] = d[i + 1] /\ i + 1 \in 2 .. m + 1
    BY <1>1, <1>2, <1>3, <1>4
  <2>2. \A i \in 2 .. m + 1 : i - 1 \in 1 .. m /\ (i - 1) + 1 = i
    BY <1>3
  <2> HIDE DEF c, m
  <2>3. QED
    BY <2>1, <2>2
<1>7. 2 .. m + 1 = 2 .. AtMost(Len(d), n + 1)
  BY <1>1 DEF AtMost
<1>8. QED
  BY <1>5, <1>6, <1>7

-----------------------------------------------------------------------------
(***************************************************************************)
(* One request.                                                            *)
(***************************************************************************)

\* What the query of a page forward returns.
LEMMA AnswersForward ==
  ASSUME OneUniqueColumn, TypeOK, NEW cursor, NEW d \in Answers(cursor, FALSE)
  PROVE  /\ d \in Seq(table) /\ Len(d) <= limit + 1
         /\ \A i, j \in DOMAIN d : i < j => Place(d[i]) < Place(d[j])
         /\ \A x \in Rows : cursor = StartValues(x) => \A i \in DOMAIN d : Place(x) <= Place(d[i])
         /\ \A r \in table \ RowsOf(d) :
              Passes(r, cursor, FALSE) => Len(d) = limit + 1 /\ Place(d[limit + 1]) <= Place(r)
<1> DEFINE T == {r \in table : Passes(r, cursor, FALSE)}
<1>0. limit + 1 \in Nat /\ limit \in Nat \ {0} /\ table \subseteq Rows
  BY DEF TypeOK
<1>1. T \in SUBSET Rows
  BY <1>0
<1>a. d \in Select(T, Order, limit + 1)
  BY Zenon DEF Answers, Extra
<1>b. \A r : r \in T <=> r \in table /\ Passes(r, cursor, FALSE)
  OBVIOUS
<1> HIDE DEF T
<1>2. /\ d \in Seq(T) /\ Len(d) <= limit + 1
      /\ \A i, j \in DOMAIN d : i < j => d[i] # d[j] /\ ~Before(Order, d[j], d[i])
      /\ \A r \in T \ RowsOf(d) : Len(d) = limit + 1 /\ \A i \in DOMAIN d : ~Before(Order, r, d[i])
  BY <1>0, <1>1, <1>a, SelectLists
<1>3. \A i \in DOMAIN d : d[i] \in T /\ d[i] \in Rows /\ Place(d[i]) \in Int
  BY <1>1, <1>2, Places
<1>4. \A i, j \in DOMAIN d : i < j => Place(d[i]) < Place(d[j])
  BY <1>2, <1>3, Places
<1>5. \A x \in Rows : cursor = StartValues(x) => \A i \in DOMAIN d : Place(x) <= Place(d[i])
  BY <1>b, <1>3, Cursors
<1>6. ASSUME NEW r \in table \ RowsOf(d), Passes(r, cursor, FALSE)
      PROVE  Len(d) = limit + 1 /\ Place(d[limit + 1]) <= Place(r)
  <2>1. r \in T /\ r \in Rows /\ Place(r) \in Int
    BY <1>0, <1>b, <1>6, Places
  <2>2. Len(d) = limit + 1 /\ \A i \in DOMAIN d : ~Before(Order, r, d[i])
    BY <1>2, <1>6, <2>1
  <2>3. limit + 1 \in DOMAIN d
    BY <1>0, <1>2, <2>2
  <2>4. QED
    BY <1>3, <2>1, <2>2, <2>3, Places
<1>7. d \in Seq(table)
  <2>1. T \subseteq table
    BY <1>b
  <2>2. QED
    BY <1>2, <2>1
<1>8. QED
  BY <1>2, <1>4, <1>5, <1>6, <1>7

\* What the query of a page back returns.
LEMMA AnswersBack ==
  ASSUME OneUniqueColumn, TypeOK, NEW x \in Rows, NEW d \in Answers(StartValues(x), TRUE)
  PROVE  /\ d \in Seq(table) /\ Len(d) <= limit + 2
         /\ \A i, j \in DOMAIN d : i < j => Place(d[j]) < Place(d[i])
         /\ \A i \in DOMAIN d : Place(d[i]) <= Place(x)
         /\ \A r \in table \ RowsOf(d) :
              Place(r) <= Place(x) => Len(d) = limit + 2 /\ Place(r) < Place(d[limit + 2])
<1> DEFINE T == {r \in table : Passes(r, StartValues(x), TRUE)}
<1>0. limit + 2 \in Nat /\ limit \in Nat \ {0} /\ table \subseteq Rows
  BY DEF TypeOK
<1>1. T \in SUBSET Rows
  BY <1>0
<1>a. d \in Select(T, FlipSign(Order), limit + 2)
  BY Zenon DEF Answers, Extra
<1>b. \A r : r \in T <=> r \in table /\ Passes(r, StartValues(x), TRUE)
  OBVIOUS
<1> HIDE DEF T
<1>2. /\ d \in Seq(T) /\ Len(d) <= limit + 2
      /\ \A i, j \in DOMAIN d : i < j => d[i] # d[j] /\ ~Before(FlipSign(Order), d[j], d[i])
      /\ \A r \in T \ RowsOf(d) :
           Len(d) = limit + 2 /\ \A i \in DOMAIN d : ~Before(FlipSign(Order), r, d[i])
  BY <1>0, <1>1, <1>a, SelectLists
<1>3. \A i \in DOMAIN d : d[i] \in T /\ d[i] \in Rows /\ Place(d[i]) \in Int
  BY <1>1, <1>2, Places
<1>4. \A i, j \in DOMAIN d : i < j => Place(d[j]) < Place(d[i])
  BY <1>2, <1>3, Places
<1>5. \A i \in DOMAIN d : Place(d[i]) <= Place(x)
  BY <1>b, <1>3, Cursors
<1>6. ASSUME NEW r \in table \ RowsOf(d), Place(r) <= Place(x)
      PROVE  Len(d) = limit + 2 /\ Place(r) < Place(d[limit + 2])
  <2>1. r \in Rows /\ Place(r) \in Int
    BY <1>6, Places DEF TypeOK
  <2>2. r \in T
    BY <1>b, <1>6, <2>1, Cursors
  <2>3. Len(d) = limit + 2 /\ \A i \in DOMAIN d : ~Before(FlipSign(Order), r, d[i])
    BY <1>2, <1>6, <2>2
  <2>4. limit + 2 \in DOMAIN d
    BY <1>0, <1>2, <2>3
  <2>5. r # d[limit + 2]
    BY <1>6, <2>4 DEF RowsOf
  <2>6. QED
    BY <1>3, <2>1, <2>3, <2>4, <2>5, Places
<1>7. d \in Seq(table)
  <2>1. T \subseteq table
    BY <1>b
  <2>2. QED
    BY <1>2, <2>1
<1>8. QED
  BY <1>2, <1>4, <1>5, <1>6, <1>7

\* A request leaves the order as it is.
LEMMA PlacesStay ==
  ASSUME UNCHANGED url
  PROVE  /\ Order' = Order
         /\ \A r : Place(r)' = Place(r)
  BY DEF url, Order, Place

\* The client gets the first page, or the next one: after all it has been shown,
\* and with nothing left out.
LEMMA ForwardStep ==
  ASSUME OneUniqueColumn, TypeOK, NEW cursor \in CursorValues, Get(cursor, FALSE),
         NEW before \in SUBSET Rows, shown' = before \cup RowsOf(GetData'), kept' \subseteq table,
         \A r \in before : \E x \in Rows : cursor = StartValues(x) /\ Place(r) < Place(x),
         \A r \in kept' \ before : Passes(r, cursor, FALSE)
  PROVE  /\ WayThere'
         /\ RowsOf(data') \subseteq table' /\ data' \in Seq(Rows) /\ shown' \subseteq Rows
         /\ \A r \in before, s \in RowsOf(GetData') : Before(Order, r, s)
<1> DEFINE d == data'
           n == AtMost(Len(d), limit)
<1>1. /\ d \in Answers(cursor, FALSE) /\ request'.cursor = cursor /\ ~request'.previous
      /\ table' = table /\ limit' = limit /\ UNCHANGED url
  BY DEF Get, url
<1>2. limit \in Nat \ {0} /\ table \subseteq Rows
  BY DEF TypeOK
<1>3. /\ d \in Seq(table) /\ Len(d) <= limit + 1
      /\ \A i, j \in DOMAIN d : i < j => Place(d[i]) < Place(d[j])
      /\ \A x \in Rows : cursor = StartValues(x) => \A i \in DOMAIN d : Place(x) <= Place(d[i])
      /\ \A r \in table \ RowsOf(d) :
           Passes(r, cursor, FALSE) => Len(d) = limit + 1 /\ Place(d[limit + 1]) <= Place(r)
  BY <1>1, AnswersForward
<1>4. d \in Seq(Rows) /\ Len(d) \in Nat
  BY <1>2, <1>3
<1>5. \A r : Place(r)' = Place(r)
  BY <1>1, PlacesStay
<1>6. \A r \in Rows : Place(r) \in Int
  BY Places
<1>7. n \in Nat /\ n <= Len(d) /\ n <= limit /\ (n = Len(d) \/ n = limit)
  BY <1>2, <1>4 DEF AtMost
<1>8. RowsOf(GetData') = {d[i] : i \in 1 .. n}
  <2>1. GetData' = SubSeq(d, 1, n)
    BY <1>1 DEF GetData, Cut
  <2>2. QED
    BY <1>2, <1>4, <2>1, CutRows
<1>9. RowsOf(d) = {d[i] : i \in 1 .. Len(d)} /\ \A i \in 1 .. Len(d) : d[i] \in table /\ d[i] \in Rows
  <2>1. \A i \in 1 .. Len(d) : d[i] \in table
    BY <1>3, <1>4
  <2>2. QED
    BY <1>2, <1>4, <2>1 DEF RowsOf
<1> HIDE DEF d, n
<1>c. ASSUME NEW r \in table \ RowsOf(d), Passes(r, cursor, FALSE)
      PROVE  Len(d) > limit /\ Place(d[limit + 1]) <= Place(r)
  <2>1. Len(d) = limit + 1 /\ Place(d[limit + 1]) <= Place(r)
    BY <1>3, <1>c, Zenon
  <2>2. QED
    BY <1>2, <2>1
<1>10. ASSUME NEW r \in before, NEW i \in 1 .. Len(d)
       PROVE  Place(r) < Place(d[i])
  <2>1. PICK x \in Rows : cursor = StartValues(x) /\ Place(r) < Place(x)
    OBVIOUS
  <2>2. Place(x) <= Place(d[i])
    BY <1>3, <1>4, <2>1
  <2>3. QED
    BY <1>6, <1>9, <2>1, <2>2
<1>11. ASSUME NEW r \in kept' \ shown'
       PROVE  Len(d) > limit /\ Place(d[limit + 1]) <= Place(r)
  <2>1. r \in table /\ r \in Rows /\ Passes(r, cursor, FALSE) /\ r \notin {d[i] : i \in 1 .. n}
    BY <1>2, <1>8
  <2>2. CASE r \in RowsOf(d)
    <3>1. PICK i \in 1 .. Len(d) : r = d[i]
      BY <1>9, <2>2
    <3>2. i \notin 1 .. n
      BY <2>1, <3>1
    <3>3. i = limit + 1
      BY <1>2, <1>3, <1>4, <1>7, <3>1, <3>2
    <3>4. QED
      BY <1>2, <1>4, <1>6, <2>1, <3>1, <3>3
  <2>3. CASE r \notin RowsOf(d)
    BY <1>c, <2>1, <2>3
  <2>4. QED
    BY <2>2, <2>3
<1>12. ASSUME Len(d) > limit, NEW r \in shown'
       PROVE  Place(r) < Place(d[limit + 1])
  <2>1. limit + 1 \in 1 .. Len(d)
    BY <1>2, <1>4, <1>12
  <2>2. CASE r \in before
    BY <1>10, <2>1, <2>2
  <2>3. CASE r \in {d[i] : i \in 1 .. n}
    <3>1. PICK i \in 1 .. n : r = d[i]
      BY <2>3
    <3>2. i \in 1 .. Len(d) /\ i < limit + 1
      BY <1>2, <1>4, <1>7, <3>1
    <3>3. QED
      BY <1>3, <1>4, <2>1, <3>1, <3>2
  <2>4. QED
    BY <1>8, <2>2, <2>3
<1>13. PageForward'
  <2>1. \A x \in Rows : cursor = StartValues(x) =>
          \A k \in kept' : Place(x) <= Place(k) => k \in RowsOf(d) \/ Len(d) > limit
    <3> SUFFICES ASSUME NEW x \in Rows, cursor = StartValues(x), NEW k \in kept', Place(x) <= Place(k)
                 PROVE  k \in RowsOf(d) \/ Len(d) > limit
      OBVIOUS
    <3>1. k \in table /\ k \in Rows /\ Passes(k, cursor, FALSE)
      BY <1>2, Cursors
    <3>2. QED
      BY <1>c, <3>1
  <2>2. cursor = NoCursor => \A k \in kept' : k \in RowsOf(d) \/ Len(d) > limit
    <3> SUFFICES ASSUME cursor = NoCursor, NEW k \in kept'
                 PROVE  k \in RowsOf(d) \/ Len(d) > limit
      OBVIOUS
    <3>1. k \in table /\ k \in Rows /\ Passes(k, cursor, FALSE)
      BY <1>2, Cursors
    <3>2. QED
      BY <1>c, <3>1
  <2>3. QED
    BY <1>1, <1>3, <1>5, <2>1, <2>2 DEF PageForward, d
<1>14. WayThere'
  BY <1>1, <1>5, <1>11, <1>12, <1>13 DEF WayThere, d
<1>15. \A r \in before, s \in RowsOf(GetData') : Before(Order, r, s)
  <2>1. \A i \in 1 .. n : i \in 1 .. Len(d)
    BY <1>4, <1>7
  <2>2. QED
    BY <1>8, <1>9, <1>10, <2>1, Places
<1>16. QED
  BY <1>1, <1>4, <1>8, <1>9, <1>7, <1>14, <1>15 DEF d

\* The client gets the page before x: before all it has been shown, and with
\* nothing left out when no row is deleted.
LEMMA BackStep ==
  ASSUME OneUniqueColumn, TypeOK, NEW x \in Rows, Get(StartValues(x), TRUE), UNCHANGED kept,
         NEW before \in SUBSET Rows, shown' = before \cup RowsOf(GetData'),
         \A r \in before : Place(x) <= Place(r),
         "delete" \notin writes => x \in table /\ \A r \in kept \ before : Place(r) < Place(x)
  PROVE  /\ WayBack'
         /\ RowsOf(data') \subseteq table' /\ data' \in Seq(Rows) /\ shown' \subseteq Rows
         /\ \A r \in before, s \in RowsOf(GetData') : Before(Order, s, r)
<1> DEFINE d == data'
           n == AtMost(Len(d), limit + 1)
<1>1. /\ d \in Answers(StartValues(x), TRUE)
      /\ request'.cursor = StartValues(x) /\ request'.previous
      /\ table' = table /\ limit' = limit /\ writes' = writes /\ UNCHANGED url
  BY DEF Get, url
<1>2. limit \in Nat \ {0} /\ table \subseteq Rows /\ kept \subseteq table
  BY DEF TypeOK
<1>3. /\ d \in Seq(table) /\ Len(d) <= limit + 2
      /\ \A i, j \in DOMAIN d : i < j => Place(d[j]) < Place(d[i])
      /\ \A i \in DOMAIN d : Place(d[i]) <= Place(x)
      /\ \A r \in table \ RowsOf(d) :
           Place(r) <= Place(x) => Len(d) = limit + 2 /\ Place(r) < Place(d[limit + 2])
  BY <1>1, AnswersBack
<1>4. d \in Seq(Rows) /\ Len(d) \in Nat
  BY <1>2, <1>3
<1>5. \A r : Place(r)' = Place(r)
  BY <1>1, PlacesStay
<1>6. \A r \in Rows : Place(r) \in Int
  BY Places
<1>7. n \in Nat /\ n <= Len(d) /\ n <= limit + 1 /\ (n = Len(d) \/ n = limit + 1)
  BY <1>2, <1>4 DEF AtMost
<1>8. RowsOf(GetData') = {d[i] : i \in 2 .. n}
  <2>1. GetData' = LET e == SubSeq(d, 2, Len(d)) IN Backwards(SubSeq(e, 1, AtMost(Len(e), limit)))
    BY <1>1 DEF GetData, Cut
  <2>2. QED
    BY <1>2, <1>4, <2>1, BackRows
<1>9. RowsOf(d) = {d[i] : i \in 1 .. Len(d)} /\ \A i \in 1 .. Len(d) : d[i] \in table /\ d[i] \in Rows
  <2>1. \A i \in 1 .. Len(d) : d[i] \in table
    BY <1>3, <1>4
  <2>2. QED
    BY <1>2, <1>4, <2>1 DEF RowsOf
<1> HIDE DEF d, n
<1>10. ASSUME NEW i \in 1 .. Len(d), NEW j \in 1 .. Len(d), i < j
       PROVE  Place(d[j]) < Place(d[i])
  BY <1>3, <1>4, <1>10
<1>11. ASSUME NEW r \in before, NEW i \in 1 .. Len(d)
       PROVE  /\ Place(d[i]) <= Place(r)
              /\ i > 1 => Place(d[i]) < Place(r)
  <2>1. /\ Place(d[i]) <= Place(x) /\ Place(x) <= Place(r)
        /\ Place(r) \in Int /\ Place(x) \in Int /\ Place(d[i]) \in Int
    BY <1>3, <1>4, <1>6, <1>9
  <2>2. ASSUME i > 1
        PROVE  Place(d[i]) < Place(r)
    <3>1. 1 \in 1 .. Len(d) /\ 1 < i
      BY <1>4, <2>2
    <3>2. Place(d[i]) < Place(d[1]) /\ Place(d[1]) <= Place(x) /\ Place(d[1]) \in Int
      BY <1>3, <1>4, <1>6, <1>9, <1>10, <3>1
    <3>3. QED
      BY <2>1, <3>2
  <2>3. QED
    BY <2>1, <2>2
<1>12. ASSUME Len(d) > limit + 1, NEW r \in shown'
       PROVE  Place(d[limit + 1]) <= Place(r)
  <2>1. limit + 1 \in 1 .. Len(d)
    BY <1>2, <1>4, <1>12
  <2>2. CASE r \in before
    BY <1>11, <2>1, <2>2
  <2>3. CASE r \in {d[i] : i \in 2 .. n}
    <3>1. PICK i \in 2 .. n : r = d[i]
      BY <2>3
    <3>2. i \in 1 .. Len(d) /\ i <= limit + 1
      BY <1>2, <1>4, <1>7, <3>1
    <3>3. CASE i = limit + 1
      BY <1>6, <1>9, <2>1, <3>1, <3>3
    <3>4. CASE i < limit + 1
      BY <1>6, <1>9, <1>10, <2>1, <3>1, <3>2, <3>4
    <3>5. QED
      BY <1>2, <3>2, <3>3, <3>4
  <2>4. QED
    BY <1>8, <2>2, <2>3
<1>13. ASSUME "delete" \notin writes, NEW r \in kept' \ shown'
       PROVE  Len(d) > limit + 1 /\ Place(r) < Place(d[limit + 1])
  <2>1. /\ r \in table /\ r \in Rows /\ x \in table /\ Place(r) < Place(x)
        /\ Place(r) \in Int /\ Place(x) \in Int
        /\ r \notin {d[i] : i \in 2 .. n}
    BY <1>2, <1>6, <1>8, <1>13
  <2>2. ASSUME NEW s \in table \ RowsOf(d), Place(s) <= Place(x)
        PROVE  /\ Len(d) = limit + 2 /\ Place(s) < Place(d[limit + 2])
               /\ limit + 2 \in 1 .. Len(d) /\ limit + 1 \in 1 .. Len(d)
               /\ Place(d[limit + 2]) < Place(d[limit + 1])
    <3>1. Len(d) = limit + 2 /\ Place(s) < Place(d[limit + 2])
      BY <1>3, <2>2, Zenon
    <3>2. limit + 2 \in 1 .. Len(d) /\ limit + 1 \in 1 .. Len(d) /\ limit + 1 < limit + 2
      BY <1>2, <3>1
    <3>3. QED
      BY <1>10, <3>1, <3>2
  <2>3. x \in RowsOf(d)
    <3> SUFFICES ASSUME x \notin RowsOf(d)
                 PROVE  FALSE
      OBVIOUS
    <3>1. Place(x) < Place(d[limit + 2]) /\ limit + 2 \in 1 .. Len(d)
      BY <2>1, <2>2
    <3>2. Place(d[limit + 2]) <= Place(x) /\ Place(d[limit + 2]) \in Int
      BY <1>3, <1>4, <1>6, <1>9, <3>1
    <3>3. QED
      BY <2>1, <3>1, <3>2
  <2>4. 1 \in 1 .. Len(d) /\ d[1] = x
    <3>1. PICK j \in 1 .. Len(d) : d[j] = x
      BY <1>9, <2>3
    <3>2. 1 \in 1 .. Len(d)
      BY <1>4, <3>1
    <3>3. CASE j > 1
      <4>1. Place(x) < Place(d[1]) /\ Place(d[1]) <= Place(x) /\ Place(d[1]) \in Int
        BY <1>3, <1>4, <1>6, <1>9, <1>10, <3>1, <3>2, <3>3
      <4>2. QED
        BY <2>1, <4>1
    <3>4. QED
      BY <3>1, <3>2, <3>3
  <2>5. CASE r \notin RowsOf(d)
    <3>1. /\ Len(d) = limit + 2 /\ Place(r) < Place(d[limit + 2])
          /\ limit + 2 \in 1 .. Len(d) /\ limit + 1 \in 1 .. Len(d)
          /\ Place(d[limit + 2]) < Place(d[limit + 1])
      BY <2>1, <2>2, <2>5
    <3>2. QED
      BY <1>2, <1>6, <1>9, <2>1, <3>1
  <2>6. CASE r \in RowsOf(d)
    <3>1. PICK i \in 1 .. Len(d) : r = d[i]
      BY <1>9, <2>6
    <3>2. i # 1 /\ i \notin 2 .. n
      BY <2>1, <2>4, <3>1
    <3>3. Len(d) > limit + 1 /\ i > limit + 1
      BY <1>2, <1>4, <1>7, <3>1, <3>2
    <3>4. limit + 1 \in 1 .. Len(d)
      BY <1>2, <1>4, <3>3
    <3>5. QED
      BY <1>10, <3>1, <3>3, <3>4
  <2>7. QED
    BY <2>5, <2>6
<1>14. PageBack'
  <2>1. \A r \in Rows : StartValues(x) = StartValues(r) => \A i \in DOMAIN d : Place(d[i]) <= Place(r)
    BY <1>3, Cursors
  <2>2. QED
    BY <1>1, <1>3, <1>5, <2>1 DEF PageBack, d
<1>15. WayBack'
  BY <1>1, <1>5, <1>12, <1>13, <1>14 DEF WayBack, d
<1>16. \A r \in before, s \in RowsOf(GetData') : Before(Order, s, r)
  <2>1. \A i \in 2 .. n : i \in 1 .. Len(d) /\ i > 1
    BY <1>4, <1>7
  <2>2. QED
    BY <1>8, <1>9, <1>11, <2>1, Places
<1>17. \A i \in 2 .. n : i \in 1 .. Len(d)
  BY <1>4, <1>7
<1>18. RowsOf(GetData') \subseteq Rows
  BY <1>8, <1>9, <1>17
<1>19. QED
  BY <1>1, <1>4, <1>9, <1>15, <1>16, <1>18 DEF d

-----------------------------------------------------------------------------
(***************************************************************************)
(* A walk.                                                                 *)
(***************************************************************************)

\* A value that a cursor can have.
LEMMA CursorOfRow ==
  ASSUME NEW r \in Rows
  PROVE  StartValues(r) \in CursorValues
  BY DEF CursorValues

\* Following `next` asks for the page from the extra row on.
LEMMA NextIs ==
  ASSUME OneUniqueColumn, TypeOK, WalkInv, GoNext
  PROVE  /\ WayThere /\ limit + 1 \in 1 .. Len(data) /\ data[limit + 1] \in Rows
         /\ Get(StartValues(data[limit + 1]), FALSE)
         /\ request'.cursor = StartValues(data[limit + 1])
<1>1. WayThere /\ ~request.previous
  BY DEF GoNext, WalkInv, WayThere, PageForward
<1>2. Len(data) > limit /\ NextLink = StartValues(data[limit + 1])
  BY <1>1 DEF GoNext, NextLink
<1>3. limit + 1 \in 1 .. Len(data) /\ data[limit + 1] \in Rows
  BY <1>2 DEF TypeOK
<1>4. QED
  BY <1>1, <1>2, <1>3 DEF GoNext, Get

\* Turning back asks for the page before the last one, and going on for the page
\* before the one that was shown last.
LEMMA PrevIs ==
  ASSUME OneUniqueColumn, TypeOK, WalkInv, GoPrev
  PROVE  \E x \in Rows :
           /\ Get(StartValues(x), TRUE) /\ request'.cursor = StartValues(x)
           /\ heading = "next" => /\ WayThere /\ request.cursor # NoCursor
                                  /\ 1 \in 1 .. Len(data) /\ x = data[1] /\ Len(data) <= limit
           /\ heading # "next" => /\ WayBack /\ heading = "prev"
                                  /\ 1 \in 1 .. Len(data) /\ limit + 1 \in 1 .. Len(data)
                                  /\ x = data[limit + 1] /\ Len(data) > limit + 1
<1>1. limit \in Nat \ {0} /\ data \in Seq(Rows) /\ Len(data) \in Nat
  BY DEF TypeOK
<1>2. PrevLink # None /\ Get(PrevLink, TRUE) /\ request'.cursor = PrevLink
  BY DEF GoPrev, Get
<1>3. CASE heading = "next"
  <2>1. WayThere /\ ~request.previous
    BY <1>3 DEF WalkInv, WayThere, PageForward
  <2>2. request.cursor # NoCursor /\ PrevLink = StartValues(data[1])
    BY <1>2, <2>1 DEF PrevLink
  <2>3. data # <<>>
    BY <2>2 DEF GoPrev, LinksFail
  <2>4. 1 \in 1 .. Len(data) /\ data[1] \in Rows
    BY <1>1, <2>3
  <2>5. Len(data) <= limit
    <3> SUFFICES ASSUME Len(data) > limit
                 PROVE  FALSE
      BY <1>1
    <3>1. NextLink = StartValues(data[limit + 1]) /\ data[limit + 1] \in Rows
      BY <1>1, <2>1 DEF NextLink
    <3>2. NextLink = None
      BY <1>3 DEF GoPrev
    <3>3. QED
      BY <3>1, <3>2, Cursors
  <2>6. QED
    BY <1>2, <1>3, <2>1, <2>2, <2>4, <2>5
<1>4. CASE heading # "next"
  <2>1. heading = "prev" /\ WayBack /\ request.previous
    BY <1>4 DEF GoPrev, TypeOK, WalkInv, WayBack, PageBack
  <2>2. Len(data) > limit + 1 /\ PrevLink = StartValues(data[limit + 1])
    BY <1>2, <2>1 DEF PrevLink
  <2>3. 1 \in 1 .. Len(data) /\ limit + 1 \in 1 .. Len(data) /\ data[limit + 1] \in Rows
    BY <1>1, <2>2
  <2>4. QED
    BY <1>2, <1>4, <2>1, <2>2, <2>3
<1>5. QED
  BY <1>3, <1>4

\* What following `next` does to the walk.
LEMMA GoNextStep ==
  ASSUME OneUniqueColumn, TypeOK, WalkInv, GoNext
  PROVE  /\ TypeOK' /\ WalkInv'
         /\ \A r \in shown, s \in RowsOf(GetData') : Before(Order, r, s)
<1> DEFINE y == data[limit + 1]
<1>1. /\ WayThere /\ limit + 1 \in 1 .. Len(data) /\ y \in Rows
      /\ Get(StartValues(y), FALSE) /\ request'.cursor = StartValues(y)
  BY NextIs
<1>2. /\ limit \in Nat \ {0} /\ shown \in SUBSET Rows /\ kept \subseteq table /\ table \subseteq Rows
      /\ Len(data) \in Nat
  BY DEF TypeOK
<1>3. /\ heading' = "next" /\ shown' = shown \cup RowsOf(GetData')
      /\ UNCHANGED <<kept, table, limit, direction, writes>> /\ request'.previous = FALSE
  BY <1>1 DEF GoNext, Get, url
<1>4. Len(data) > limit
  BY <1>1, <1>2
<1>5. StartValues(y) \in CursorValues
  BY <1>1, CursorOfRow
<1> HIDE DEF y
<1>6. \A r \in shown : \E x \in Rows : StartValues(y) = StartValues(x) /\ Place(r) < Place(x)
  BY <1>1, <1>4 DEF WayThere, y
<1>7. \A r \in kept' \ shown : Passes(r, StartValues(y), FALSE)
  <2>1. \A r \in kept \ shown : Place(y) <= Place(r)
    BY <1>1 DEF WayThere, y
  <2>2. QED
    BY <1>1, <1>2, <1>3, <2>1, Cursors
<1>8. /\ WayThere'
      /\ RowsOf(data') \subseteq table' /\ data' \in Seq(Rows) /\ shown' \subseteq Rows
      /\ \A r \in shown, s \in RowsOf(GetData') : Before(Order, r, s)
  BY <1>1, <1>2, <1>3, <1>5, <1>6, <1>7, ForwardStep
<1>9. TypeOK'
  BY <1>1, <1>2, <1>3, <1>5, <1>8 DEF TypeOK
<1>10. QED
  BY <1>3, <1>8, <1>9 DEF WalkInv

\* What the first page does to it.
LEMMA OpenStep ==
  ASSUME OneUniqueColumn, TypeOK, Open
  PROVE  TypeOK' /\ WalkInv'
<1>1. /\ Get(NoCursor, FALSE) /\ NoCursor \in CursorValues /\ {} \in SUBSET Rows
      /\ heading' = "next" /\ shown' = {} \cup RowsOf(GetData') /\ kept' = table
      /\ UNCHANGED <<table, limit, direction, writes>>
      /\ request'.cursor = NoCursor /\ request'.previous = FALSE
  BY DEF Open, Get, url, CursorValues
<1>2. table \subseteq Rows
  BY DEF TypeOK
<1>3. \A r \in kept' \ {} : Passes(r, NoCursor, FALSE)
  BY <1>1, <1>2, Cursors
<1>4. WayThere' /\ RowsOf(data') \subseteq table' /\ data' \in Seq(Rows) /\ shown' \subseteq Rows
  BY <1>1, <1>2, <1>3, ForwardStep
<1>5. TypeOK'
  BY <1>1, <1>2, <1>4 DEF TypeOK
<1>6. QED
  BY <1>1, <1>4, <1>5 DEF WalkInv

\* What following `prev` does to it.
LEMMA GoPrevStep ==
  ASSUME OneUniqueColumn, TypeOK, WalkInv, GoPrev
  PROVE  /\ TypeOK' /\ WalkInv'
         /\ \A r \in shown' \ RowsOf(GetData'), s \in RowsOf(GetData') : Before(Order, s, r)
<1>1. PICK x \in Rows :
           /\ Get(StartValues(x), TRUE) /\ request'.cursor = StartValues(x)
           /\ heading = "next" => /\ WayThere /\ request.cursor # NoCursor
                                  /\ 1 \in 1 .. Len(data) /\ x = data[1] /\ Len(data) <= limit
           /\ heading # "next" => /\ WayBack /\ heading = "prev"
                                  /\ 1 \in 1 .. Len(data) /\ limit + 1 \in 1 .. Len(data)
                                  /\ x = data[limit + 1] /\ Len(data) > limit + 1
  BY PrevIs
<1>2. /\ limit \in Nat \ {0} /\ shown \in SUBSET Rows /\ kept \subseteq table /\ table \subseteq Rows
      /\ Len(data) \in Nat /\ data \in Seq(Rows) /\ request.cursor \in CursorValues
  BY DEF TypeOK
<1> DEFINE before == IF heading = "next" THEN RowsOf(GetData) ELSE shown
<1>3. /\ heading' = "prev" /\ shown' = before \cup RowsOf(GetData')
      /\ UNCHANGED <<kept, table, limit, direction, writes>> /\ request'.previous = TRUE
  BY <1>1 DEF GoPrev, Get, url
<1>4. \A r \in Rows : Place(r) \in Int
  BY Places
<1>5. heading = "next" => RowsOf(GetData) = RowsOf(data)
  <2> SUFFICES ASSUME heading = "next"
               PROVE  RowsOf(GetData) = RowsOf(data)
    OBVIOUS
  <2>1. AtMost(Len(data), limit) = Len(data)
    BY <1>1, <1>2 DEF AtMost
  <2>2. GetData = SubSeq(data, 1, AtMost(Len(data), limit))
    BY <1>1 DEF WayThere, PageForward, GetData, Cut
  <2>3. RowsOf(GetData) = {data[i] : i \in 1 .. Len(data)}
    BY <1>2, <2>1, <2>2, CutRows
  <2>4. QED
    BY <1>2, <2>3 DEF RowsOf
<1>6. RowsOf(data) = {data[i] : i \in 1 .. Len(data)} /\ \A i \in 1 .. Len(data) : data[i] \in Rows
  BY <1>2 DEF RowsOf
<1>7. before \in SUBSET Rows
  BY <1>2, <1>5, <1>6
<1>8. \A r \in before : Place(x) <= Place(r)
  <2>1. CASE heading = "next"
    <3>1. \A i \in 1 .. Len(data) : i = 1 \/ Place(data[1]) < Place(data[i])
      BY <1>1, <1>2, <2>1 DEF WayThere, PageForward
    <3>2. \A i \in 1 .. Len(data) : Place(x) <= Place(data[i])
      BY <1>1, <1>4, <1>6, <2>1, <3>1
    <3>3. QED
      BY <1>5, <1>6, <2>1, <3>2
  <2>2. CASE heading # "next"
    BY <1>1, <2>2 DEF WayBack
  <2>3. QED
    BY <2>1, <2>2
<1>9. ASSUME "delete" \notin writes
      PROVE  x \in table /\ \A r \in kept \ before : Place(r) < Place(x)
  <2>1. x \in table
    <3>1. RowsOf(data) \subseteq table
      BY <1>9 DEF WalkInv
    <3>2. QED
      BY <1>1, <1>6, <3>1
  <2>2. CASE heading = "next"
    <3> SUFFICES ASSUME NEW r \in kept, r \notin RowsOf(data)
                 PROVE  Place(r) < Place(x)
      BY <1>5, <2>1, <2>2
    <3>1. PICK y \in Rows : request.cursor = StartValues(y)
      BY <1>1, <1>2, <2>2 DEF CursorValues
    <3>2. PageForward /\ x = data[1] /\ ~(Len(data) > limit)
      BY <1>1, <1>2, <2>2 DEF WayThere
    <3>3. ~(Place(y) <= Place(r)) /\ Place(y) <= Place(x)
      BY <1>1, <1>2, <2>2, <3>1, <3>2 DEF PageForward
    <3>4. QED
      BY <1>2, <1>4, <3>1, <3>3
  <2>3. CASE heading # "next"
    BY <1>1, <1>9, <2>1, <2>3 DEF WayBack
  <2>4. QED
    BY <2>2, <2>3
<1> HIDE DEF before
<1>10. /\ WayBack'
       /\ RowsOf(data') \subseteq table' /\ data' \in Seq(Rows) /\ shown' \subseteq Rows
       /\ \A r \in before, s \in RowsOf(GetData') : Before(Order, s, r)
  BY <1>1, <1>3, <1>7, <1>8, <1>9, BackStep
<1>11. TypeOK'
  BY <1>1, <1>2, <1>3, <1>10, CursorOfRow DEF TypeOK
<1>12. QED
  BY <1>3, <1>10, <1>11 DEF WalkInv

\* What other clients write in between leaves the walk as it is.
LEMMA WriteStep ==
  ASSUME OneUniqueColumn, TypeOK, WalkInv,
         \/ \E r \in Rows : Insert(r) \/ Delete(r)
         \/ UNCHANGED vars
  PROVE  TypeOK' /\ WalkInv'
<1>1. /\ UNCHANGED <<limit, direction, writes, request, data, heading, shown>>
      /\ UNCHANGED url
      /\ kept' \subseteq kept /\ kept' \subseteq table' /\ table' \subseteq Rows
      /\ "delete" \notin writes => table \subseteq table'
  BY DEF Insert, Delete, url, vars, TypeOK
<1>2. \A r : Place(r)' = Place(r)
  BY <1>1, PlacesStay
<1>3. TypeOK'
  BY <1>1 DEF TypeOK
<1>4. WayThere => WayThere'
  BY <1>1, <1>2 DEF WayThere, PageForward
<1>5. WayBack => WayBack'
  BY <1>1, <1>2 DEF WayBack, PageBack
<1>6. QED
  BY <1>1, <1>3, <1>4, <1>5 DEF WalkInv

\* The invariant of a walk, for order_by a unique column: where the pages are that
\* the client has and has not been shown.
THEOREM WalkInvariant ==
  ASSUME OneUniqueColumn
  PROVE  Spec => [](TypeOK /\ WalkInv)
<1>1. Init => TypeOK /\ WalkInv
  <2> SUFFICES ASSUME Init
               PROVE  TypeOK /\ WalkInv
    OBVIOUS
  <2>1. TypeOK
    BY CursorAssumption DEF Init, TypeOK, CursorValues
  <2>2. WalkInv
    BY DEF Init, WalkInv, RowsOf
  <2>3. QED
    BY <2>1, <2>2
<1>2. TypeOK /\ WalkInv /\ [Next]_vars => TypeOK' /\ WalkInv'
  BY OpenStep, GoNextStep, GoPrevStep, WriteStep DEF Next
<1>3. QED
  BY <1>1, <1>2, PTL DEF Spec

\* By the `next` links a client is shown every row that was there from its first
\* page to its last one, for every table, and whatever is inserted and deleted on
\* the way.
THEOREM WalksAreComplete ==
  ASSUME OneUniqueColumn
  PROVE  Spec => []WalkIsComplete
<1>1. TypeOK /\ WalkInv => WalkIsComplete
  <2> SUFFICES ASSUME TypeOK, WalkInv, AtLastPage
               PROVE  kept \subseteq shown
    BY DEF WalkIsComplete
  <2>1. WayThere /\ ~request.previous
    BY DEF AtLastPage, WalkInv, WayThere, PageForward
  <2>2. ~(Len(data) > limit)
    <3> SUFFICES ASSUME Len(data) > limit
                 PROVE  FALSE
      OBVIOUS
    <3>1. NextLink = StartValues(data[limit + 1]) /\ data[limit + 1] \in Rows
      BY <2>1 DEF NextLink, TypeOK
    <3>2. QED
      BY <3>1, Cursors DEF AtLastPage
  <2>3. QED
    BY <2>1, <2>2 DEF WayThere
<1>2. QED
  BY <1>1, WalkInvariant, PTL

\* And on its way back by the `prev` links it is shown them again, when no row is
\* deleted.
THEOREM WalksBackAreComplete ==
  ASSUME OneUniqueColumn
  PROVE  Spec => []WalkBackIsComplete
<1>1. TypeOK /\ WalkInv => WalkBackIsComplete
  <2> SUFFICES ASSUME TypeOK, WalkInv, "delete" \notin writes, AtFirstPage
               PROVE  kept \subseteq shown
    BY DEF WalkBackIsComplete
  <2>1. WayBack /\ request.previous
    BY DEF AtFirstPage, WalkInv, WayBack, PageBack
  <2>2. ~(Len(data) > limit + 1)
    <3> SUFFICES ASSUME Len(data) > limit + 1
                 PROVE  FALSE
      OBVIOUS
    <3>1. PrevLink = StartValues(data[limit + 1]) /\ data[limit + 1] \in Rows
      BY <2>1 DEF PrevLink, TypeOK
    <3>2. QED
      BY <3>1, Cursors DEF AtFirstPage
  <2>3. QED
    BY <2>1, <2>2 DEF WayBack
<1>2. QED
  BY <1>1, WalkInvariant, PTL

\* A page comes after all that the walk has shown, and before it on the way back:
\* no row is shown twice, or out of order.
THEOREM PagesAreInOrder ==
  ASSUME OneUniqueColumn
  PROVE  Spec => PagesInOrder
<1>1. TypeOK /\ WalkInv /\ GoNext => \A r \in shown, s \in RowsOf(GetData') : Before(Order, r, s)
  BY GoNextStep
<1>2. TypeOK /\ WalkInv /\ GoPrev =>
        \A r \in shown' \ RowsOf(GetData'), s \in RowsOf(GetData') : Before(Order, s, r)
  BY GoPrevStep
<1>3. QED
  BY <1>1, <1>2, WalkInvariant, PTL DEF PagesInOrder, Spec

\* The cursors move on, so that no walk goes round in circles.
THEOREM CursorsMoveOn ==
  ASSUME OneUniqueColumn
  PROVE  Spec => CursorMovesOn
<1>1. TypeOK /\ WalkInv /\ GoNext => request'.cursor # request.cursor
  <2> SUFFICES ASSUME TypeOK, WalkInv, GoNext
               PROVE  request'.cursor # request.cursor
    OBVIOUS
  <2> DEFINE y == data[limit + 1]
  <2>1. WayThere /\ limit + 1 \in 1 .. Len(data) /\ y \in Rows /\ request'.cursor = StartValues(y)
    BY NextIs
  <2>2. /\ limit \in Nat \ {0} /\ 1 \in 1 .. Len(data) /\ 1 < limit + 1 /\ data[1] \in Rows
        /\ data \in Seq(Rows)
    BY <2>1 DEF TypeOK
  <2>3. Place(data[1]) < Place(y)
    BY <2>1, <2>2 DEF WayThere, PageForward
  <2>4. \A x \in Rows : request.cursor = StartValues(x) => Place(x) <= Place(data[1])
    BY <2>1, <2>2 DEF WayThere, PageForward
  <2> HIDE DEF y
  <2>5. Place(y) \in Int /\ Place(data[1]) \in Int
    BY <2>1, <2>2, Places
  <2>6. request.cursor # StartValues(y)
    BY <2>1, <2>3, <2>4, <2>5
  <2>7. QED
    BY <2>1, <2>6
<1>2. TypeOK /\ WalkInv /\ GoPrev /\ heading = "prev" => request'.cursor # request.cursor
  <2> SUFFICES ASSUME TypeOK, WalkInv, GoPrev, heading = "prev"
               PROVE  request'.cursor # request.cursor
    OBVIOUS
  <2> DEFINE y == data[limit + 1]
  <2>1. /\ WayBack /\ 1 \in 1 .. Len(data) /\ limit + 1 \in 1 .. Len(data) /\ y \in Rows
        /\ request'.cursor = StartValues(y)
    BY PrevIs
  <2>2. /\ limit \in Nat \ {0} /\ 1 < limit + 1 /\ data[1] \in Rows /\ data \in Seq(Rows)
    BY <2>1 DEF TypeOK
  <2>3. Place(y) < Place(data[1])
    BY <2>1, <2>2 DEF WayBack, PageBack
  <2>4. \A x \in Rows : request.cursor = StartValues(x) => Place(data[1]) <= Place(x)
    BY <2>1, <2>2 DEF WayBack, PageBack
  <2> HIDE DEF y
  <2>5. Place(y) \in Int /\ Place(data[1]) \in Int
    BY <2>1, <2>2, Places
  <2>6. request.cursor # StartValues(y)
    BY <2>1, <2>3, <2>4, <2>5
  <2>7. QED
    BY <2>1, <2>6
<1>3. QED
  BY <1>1, <1>2, WalkInvariant, PTL DEF CursorMovesOn, Spec

-----------------------------------------------------------------------------
(***************************************************************************)
(* The way back, when nobody writes.                                       *)
(***************************************************************************)

\* The first row of the page that the client has, and of the pages of its trail
\* with that page as the last one.
Head_ == data[IF heading = "next" THEN 1 ELSE limit + 1]
First(k) == IF k <= Len(trail) THEN trail[k].page[1] ELSE Head_

\* A page is the rows just before h, and is full.
PageBefore(p, h) ==
  /\ p \in Seq(table) /\ Len(p) = limit
  /\ \A i, j \in 1 .. limit : i < j => Place(p[i]) < Place(p[j])
  /\ Place(p[limit]) < Place(h)
  /\ \A r \in table : Place(p[1]) <= Place(r) /\ Place(r) < Place(h) => r \in RowsOf(p)

\* What a trail is made of.
Stops == [page : Seq(Rows), next : CursorValues]

\* With nobody writing, the pages of the trail lie one after the other, from the
\* first row of the table to the page that the client has.
OnTrail ==
  /\ trail \in Seq(Stops)
  /\ \A k \in 1 .. Len(trail) :
       /\ PageBefore(trail[k].page, First(k + 1))
       /\ trail[k].next = StartValues(First(k + 1))
  /\ \A r \in table : Place(First(1)) <= Place(r)
  /\ heading = "next" =>
       /\ request.cursor = NoCursor <=> trail = <<>>
       /\ trail # <<>> => data # <<>>
       /\ \A r \in table : Place(Head_) <= Place(r) =>
            r \in RowsOf(data) \/ (Len(data) > limit /\ Place(data[limit + 1]) <= Place(r))
  /\ heading = "prev" => Len(data) > limit

\* The trail of every state.
TrailInv == writes = {} => IF heading = "start" THEN trail = <<>> ELSE OnTrail

\* A set of numbers has a lowest one.
LEMMA Lowest ==
  ASSUME NEW S \in SUBSET Nat, S # {}
  PROVE  \E i \in S : \A j \in S : ~(j < i)
<1> DEFINE lower == {ss \in Nat \X Nat : ss[1] < ss[2]}
<1>1. IsWellFoundedOn(lower, Nat)
  BY NatLessThanWellFounded DEF OpToRel
<1>2. \E i \in S : \A j \in S : ~(<<j, i>> \in lower)
  <2> HIDE DEF lower
  <2>1. QED
    BY <1>1, WFMin, Zenon
<1>3. QED
  BY <1>2

-----------------------------------------------------------------------------
\* The page that starts with the row of its cursor.
LEMMA StartsWithCursor ==
  ASSUME OneUniqueColumn, TypeOK, NEW x \in table, NEW d \in Answers(StartValues(x), FALSE)
  PROVE  1 \in 1 .. Len(d) /\ d[1] = x
<1>1. limit \in Nat \ {0} /\ table \subseteq Rows /\ x \in Rows
  BY DEF TypeOK
<1>2. /\ d \in Seq(table) /\ Len(d) <= limit + 1
      /\ \A i, j \in DOMAIN d : i < j => Place(d[i]) < Place(d[j])
      /\ \A i \in DOMAIN d : Place(x) <= Place(d[i])
      /\ x \notin RowsOf(d) /\ Passes(x, StartValues(x), FALSE) =>
           Len(d) = limit + 1 /\ Place(d[limit + 1]) <= Place(x)
  BY <1>1, AnswersForward
<1>3. DOMAIN d = 1 .. Len(d) /\ Len(d) \in Nat /\ \A i \in 1 .. Len(d) : d[i] \in Rows
  BY <1>1, <1>2
<1>4. \A r \in Rows : Place(r) \in Int
  BY Places
<1>5. Passes(x, StartValues(x), FALSE)
  <2>1. Passes(x, StartValues(x), FALSE) <=> Place(x) <= Place(x)
    BY <1>1, Cursors
  <2>2. Place(x) <= Place(x)
    BY <1>1, <1>4
  <2>3. QED
    BY <2>1, <2>2, Zenon
<1>6. x \in RowsOf(d)
  <2> SUFFICES ASSUME x \notin RowsOf(d)
               PROVE  FALSE
    OBVIOUS
  <2>1. Len(d) = limit + 1 /\ Place(d[limit + 1]) <= Place(x)
    BY <1>2, <1>5
  <2>2. 1 \in 1 .. Len(d) /\ limit + 1 \in 1 .. Len(d) /\ 1 < limit + 1
    BY <1>1, <2>1
  <2>3. Place(d[1]) < Place(d[limit + 1]) /\ Place(x) <= Place(d[1])
    BY <1>2, <1>3, <2>2
  <2>4. QED
    BY <1>1, <1>3, <1>4, <2>1, <2>2, <2>3
<1>7. PICK j \in 1 .. Len(d) : x = d[j]
  BY <1>3, <1>6 DEF RowsOf
<1>8. 1 \in 1 .. Len(d) /\ (j = 1 \/ 1 < j)
  BY <1>3
<1>9. ~(1 < j)
  <2> SUFFICES ASSUME 1 < j
               PROVE  FALSE
    OBVIOUS
  <2>1. Place(d[1]) < Place(d[j]) /\ Place(x) <= Place(d[1])
    BY <1>2, <1>3, <1>8
  <2>2. QED
    BY <1>1, <1>3, <1>4, <1>7, <1>8, <2>1
<1>10. QED
  BY <1>7, <1>8, <1>9

\* The page before a row h, when it is full: what the query of a page back from h
\* returns, after h itself.
LEMMA ReturnsPage ==
  ASSUME OneUniqueColumn, TypeOK, NEW h \in table, NEW p, PageBefore(p, h),
         NEW d \in Answers(StartValues(h), TRUE)
  PROVE  /\ d \in Seq(table) /\ Len(d) \in limit + 1 .. limit + 2 /\ d[1] = h
         /\ \A i \in 1 .. limit : d[i + 1] = p[limit + 1 - i]
<1>1. limit \in Nat \ {0} /\ table \subseteq Rows /\ h \in Rows
  BY DEF TypeOK
<1>2. /\ d \in Seq(table) /\ Len(d) <= limit + 2
      /\ \A i, j \in DOMAIN d : i < j => Place(d[j]) < Place(d[i])
      /\ \A i \in DOMAIN d : Place(d[i]) <= Place(h)
      /\ \A r \in table \ RowsOf(d) :
           Place(r) <= Place(h) => Len(d) = limit + 2 /\ Place(r) < Place(d[limit + 2])
  BY <1>1, AnswersBack
<1>3. DOMAIN d = 1 .. Len(d) /\ Len(d) \in Nat /\ \A i \in 1 .. Len(d) : d[i] \in table /\ d[i] \in Rows
  BY <1>1, <1>2
<1>4. \A r \in Rows : Place(r) \in Int
  BY Places
<1>5. \A i, j \in 1 .. Len(d) : i < j => Place(d[j]) < Place(d[i])
  BY <1>2, <1>3
<1>6. \A r \in table : r \in RowsOf(d) => \E j \in 1 .. Len(d) : r = d[j]
  BY <1>3 DEF RowsOf
<1>7. /\ \A i \in 1 .. limit : p[i] \in table /\ p[i] \in Rows
      /\ \A i, j \in 1 .. limit : i < j => Place(p[i]) < Place(p[j])
      /\ Place(p[limit]) < Place(h)
  BY <1>1 DEF PageBefore
<1>8. ASSUME NEW r \in table, Place(p[1]) <= Place(r), Place(r) < Place(h)
      PROVE  \E k \in 1 .. limit : r = p[k]
  BY <1>1, <1>8 DEF PageBefore, RowsOf
<1>9. 1 \in 1 .. Len(d) /\ d[1] = h
  <2>1. h \in RowsOf(d)
    <3> SUFFICES ASSUME h \notin RowsOf(d)
                 PROVE  FALSE
      OBVIOUS
    <3>1. Len(d) = limit + 2 /\ Place(h) < Place(d[limit + 2])
      BY <1>1, <1>2, <1>4
    <3>2. limit + 2 \in 1 .. Len(d)
      BY <1>1, <3>1
    <3>3. QED
      BY <1>1, <1>2, <1>3, <1>4, <3>1, <3>2
  <2>2. PICK j \in 1 .. Len(d) : h = d[j]
    BY <1>6, <2>1
  <2>3. 1 \in 1 .. Len(d) /\ (j = 1 \/ 1 < j)
    BY <1>3
  <2>4. ~(1 < j)
    <3> SUFFICES ASSUME 1 < j
                 PROVE  FALSE
      OBVIOUS
    <3>1. Place(d[j]) < Place(d[1]) /\ Place(d[1]) <= Place(h)
      BY <1>2, <1>3, <1>5, <2>3
    <3>2. QED
      BY <1>1, <1>3, <1>4, <2>2, <2>3, <3>1
  <2>5. QED
    BY <2>2, <2>3, <2>4
<1>10. \A i \in 1 .. limit : limit + 1 - i \in 1 .. limit /\ i + 1 \in 1 .. limit + 1
  BY <1>1
<1> DEFINE Same(i) == i + 1 \in 1 .. Len(d) /\ d[i + 1] = p[limit + 1 - i]
\* Up to the first place where they differ there is none.
<1>11. ASSUME NEW i \in 1 .. limit, \A j \in 1 .. limit : j < i => Same(j)
       PROVE  Same(i)
  <2> DEFINE q == p[limit + 1 - i]
  <2>1. q \in table /\ q \in Rows /\ Place(p[1]) <= Place(q) /\ Place(q) < Place(h)
    <3>1. limit + 1 - i = 1 \/ 1 < limit + 1 - i
      BY <1>10
    <3>2. limit + 1 - i = limit \/ limit + 1 - i < limit
      BY <1>1
    <3>3. 1 \in 1 .. limit /\ limit \in 1 .. limit
      BY <1>1
    <3> DEFINE m == limit + 1 - i
    <3>4. m \in 1 .. limit /\ (m = 1 \/ 1 < m) /\ (m = limit \/ m < limit)
      BY <1>10, <3>1, <3>2
    <3> HIDE DEF m
    <3>5. p[m] \in table /\ p[m] \in Rows /\ Place(p[1]) <= Place(p[m]) /\ Place(p[m]) < Place(h)
      BY <1>1, <1>4, <1>7, <3>3, <3>4
    <3>6. QED
      BY <3>5 DEF m
  \* What comes before the i-th row of the page and after it in the list.
  <2>2. /\ i \in 1 .. Len(d)
        /\ \A r \in table : Place(r) < Place(d[i]) => Place(r) <= Place(q) \/ Place(r) < Place(p[1])
    <3>1. CASE i = 1
      <4>1. SUFFICES ASSUME NEW r \in table, Place(r) < Place(d[1]), Place(p[1]) <= Place(r)
                     PROVE  Place(r) <= Place(q)
        BY <1>1, <1>4, <1>7, <1>9, <3>1
      <4>2. PICK k \in 1 .. limit : r = p[k]
        BY <1>8, <1>9, <4>1
      <4>3. q = p[limit]
        BY <1>1, <3>1
      <4>4. limit \in 1 .. limit /\ (k = limit \/ k < limit)
        BY <1>1
      <4>5. QED
        BY <1>4, <1>7, <4>2, <4>3, <4>4
    <3>2. CASE i # 1
      <4>1. i - 1 \in 1 .. limit /\ i - 1 < i /\ (i - 1) + 1 = i /\ limit + 1 - (i - 1) = limit + 2 - i
        BY <1>1, <3>2
      <4>2. Same(i - 1)
        BY <1>11, <4>1
      <4>3. i \in 1 .. Len(d) /\ d[i] = p[limit + 2 - i]
        BY <4>1, <4>2
      <4>4. SUFFICES ASSUME NEW r \in table, Place(r) < Place(d[i]), Place(p[1]) <= Place(r)
                     PROVE  Place(r) <= Place(q)
        BY <1>1, <1>3, <1>4, <1>7, <4>3
      <4>5. i \in 1 .. Len(d) /\ (i = 1 \/ 1 < i)
        BY <4>3
      <4>6. Place(d[i]) <= Place(h) /\ r \in Rows /\ d[i] \in Rows
        BY <1>1, <1>2, <1>3, <4>5
      <4>7. Place(r) < Place(h)
        BY <1>1, <1>4, <4>4, <4>6
      <4>8. PICK k \in 1 .. limit : r = p[k]
        BY <1>8, <4>4, <4>7
      <4>9. limit + 2 - i \in 1 .. limit /\ limit + 1 - i \in 1 .. limit
            /\ (k = limit + 2 - i \/ limit + 2 - i < k \/ k = limit + 1 - i \/ k < limit + 1 - i)
        BY <1>1, <1>10, <3>2
      <4> DEFINE a == limit + 2 - i
                 b == limit + 1 - i
      <4>10. a \in 1 .. limit /\ b \in 1 .. limit /\ (k = a \/ a < k \/ k = b \/ k < b)
        BY <4>9
      <4>11. Place(p[k]) < Place(p[a])
        BY <4>3, <4>4, <4>8
      <4> HIDE DEF a, b
      <4>12. k = b \/ k < b
        BY <1>4, <1>7, <4>10, <4>11
      <4>13. Place(p[k]) <= Place(p[b])
        BY <1>4, <1>7, <4>10, <4>12
      <4>14. QED
        BY <4>8, <4>13 DEF b
    <3>3. QED
      BY <3>1, <3>2, <1>9
  <2> HIDE DEF q
  \* The next row of the list is there, and is not before the i-th row of the page.
  <2>3. i + 1 \in 1 .. Len(d) /\ Place(q) <= Place(d[i + 1])
    <3>1. CASE q \in RowsOf(d)
      <4>1. PICK j \in 1 .. Len(d) : q = d[j]
        BY <1>6, <2>1, <3>1
      <4>2. i < j
        <5>1. ASSUME j = 1
              PROVE  FALSE
          BY <1>4, <1>9, <2>1, <4>1, <5>1
        <5>2. ASSUME j # 1, j <= i
              PROVE  FALSE
          <6>1. j - 1 \in 1 .. limit /\ j - 1 < i /\ (j - 1) + 1 = j
            BY <1>1, <5>2
          <6>2. d[j] = p[limit + 1 - (j - 1)]
            BY <1>11, <6>1
          <6>3. limit + 1 - i \in 1 .. limit /\ limit + 1 - (j - 1) \in 1 .. limit
                /\ limit + 1 - i < limit + 1 - (j - 1)
            BY <1>1, <1>10, <6>1
          <6> DEFINE a == limit + 1 - i
                     b == limit + 1 - (j - 1)
          <6>4. a \in 1 .. limit /\ b \in 1 .. limit /\ a < b /\ p[a] = p[b]
            BY <4>1, <6>2, <6>3 DEF q
          <6> HIDE DEF a, b
          <6>5. QED
            BY <1>4, <1>7, <6>4
        <5>3. QED
          BY <1>3, <5>1, <5>2
      <4>3. i + 1 \in 1 .. Len(d) /\ (i + 1 = j \/ i + 1 < j)
        BY <1>1, <1>3, <4>2
      <4>4. QED
        BY <1>3, <1>4, <1>5, <2>1, <4>1, <4>3
    <3>2. CASE q \notin RowsOf(d)
      <4>1. Len(d) = limit + 2 /\ Place(q) < Place(d[limit + 2])
        BY <1>1, <1>2, <1>4, <2>1, <3>2
      <4>2. i + 1 \in 1 .. Len(d) /\ limit + 2 \in 1 .. Len(d) /\ i + 1 < limit + 2
        BY <1>1, <4>1
      <4>3. Place(d[limit + 2]) < Place(d[i + 1])
        BY <1>5, <4>2
      <4>4. QED
        BY <1>3, <1>4, <2>1, <4>1, <4>2, <4>3
    <3>3. QED
      BY <3>1, <3>2
  <2>4. Place(d[i + 1]) <= Place(q)
    <3>1. i < i + 1 /\ d[i + 1] \in table /\ d[i + 1] \in Rows /\ p[1] \in Rows
      BY <1>1, <1>3, <1>7, <2>3
    <3>2. Place(d[i + 1]) < Place(d[i])
      BY <1>5, <2>2, <2>3, <3>1
    <3>3. Place(d[i + 1]) <= Place(q) \/ Place(d[i + 1]) < Place(p[1])
      BY <2>2, <3>1, <3>2
    <3>4. QED
      BY <1>4, <2>1, <2>3, <3>1, <3>3
  <2>5. d[i + 1] = q
    BY <1>3, <1>4, <2>1, <2>3, <2>4, Places
  <2>6. QED
    BY <2>3, <2>5 DEF q
<1>12. \A i \in 1 .. limit : Same(i)
  <2> DEFINE Bad == {i \in 1 .. limit : ~Same(i)}
  <2> HIDE DEF Same
  <2>1. Bad \subseteq Nat
    BY <1>1
  <2>2. Bad # {} => \E i \in Bad : \A j \in Bad : ~(j < i)
    <3> HIDE DEF Bad
    <3>1. QED
      BY <2>1, Lowest
  <2>3. Bad = {}
    BY <1>11, <2>2
  <2>4. QED
    BY <2>3
<1>13. \A i \in 1 .. limit : i + 1 \in 1 .. Len(d) /\ d[i + 1] = p[limit + 1 - i]
  BY <1>12
<1> HIDE DEF Same
<1>14. limit \in 1 .. limit
  BY <1>1
<1>15. Len(d) \in limit + 1 .. limit + 2
  BY <1>1, <1>2, <1>3, <1>13, <1>14
<1>16. QED
  BY <1>2, <1>9, <1>13, <1>15

-----------------------------------------------------------------------------
\* The page before a row is so as long as nobody writes.
LEMMA PagesStay ==
  ASSUME UNCHANGED <<table, url>>
  PROVE  \A p, h : PageBefore(p, h)' <=> PageBefore(p, h)
<1>1. table' = table /\ limit' = limit /\ \A r : Place(r)' = Place(r)
  BY PlacesStay DEF url
<1>2. QED
  BY <1>1 DEF PageBefore

\* The first page is the first one of the table.
LEMMA OpenTrail ==
  ASSUME OneUniqueColumn, TypeOK, trail = <<>>, Open
  PROVE  OnTrail'
<1> DEFINE d == data'
<1>1. /\ d \in Answers(NoCursor, FALSE) /\ request'.cursor = NoCursor /\ heading' = "next"
      /\ UNCHANGED <<table, limit, trail, url>>
  BY DEF Open, Get, url
<1>2. limit \in Nat \ {0} /\ table \subseteq Rows
  BY DEF TypeOK
<1>3. /\ d \in Seq(table)
      /\ \A i, j \in DOMAIN d : i < j => Place(d[i]) < Place(d[j])
      /\ \A r \in table \ RowsOf(d) :
           Passes(r, NoCursor, FALSE) => Len(d) = limit + 1 /\ Place(d[limit + 1]) <= Place(r)
  BY <1>1, AnswersForward
<1>4. \A r : Place(r)' = Place(r)
  BY <1>1, PlacesStay
<1>5. DOMAIN d = 1 .. Len(d) /\ Len(d) \in Nat /\ \A i \in 1 .. Len(d) : d[i] \in Rows
  BY <1>2, <1>3
<1>6. \A r \in Rows : Place(r) \in Int
  BY Places
<1>7. Head_' = d[1] /\ First(1)' = d[1]
  BY <1>1 DEF Head_, First
<1> HIDE DEF d
<1>8. ASSUME NEW r \in table
      PROVE  r \in RowsOf(d) \/ (Len(d) > limit /\ Place(d[limit + 1]) <= Place(r))
  <2>1. Passes(r, NoCursor, FALSE)
    BY <1>2, Cursors
  <2>2. r \notin RowsOf(d) => Len(d) = limit + 1 /\ Place(d[limit + 1]) <= Place(r)
    BY <1>3, <2>1
  <2>3. QED
    BY <1>2, <2>2
<1>9. ASSUME NEW i \in 1 .. Len(d)
      PROVE  Place(d[1]) <= Place(d[i])
  <2>1. 1 \in 1 .. Len(d) /\ (i = 1 \/ 1 < i)
    BY <1>5
  <2>2. QED
    BY <1>3, <1>5, <1>6, <2>1
<1>10. ASSUME NEW r \in table
       PROVE  Place(d[1]) <= Place(r)
  <2>1. CASE r \in RowsOf(d)
    BY <1>5, <1>9, <2>1 DEF RowsOf
  <2>2. CASE r \notin RowsOf(d)
    <3>1. Len(d) > limit /\ Place(d[limit + 1]) <= Place(r)
      BY <1>8, <2>2
    <3>2. limit + 1 \in 1 .. Len(d) /\ 1 \in 1 .. Len(d)
      BY <1>2, <1>5, <3>1
    <3>3. Place(d[1]) <= Place(d[limit + 1])
      BY <1>9, <3>2
    <3>4. QED
      BY <1>2, <1>5, <1>6, <3>1, <3>2, <3>3
  <2>3. QED
    BY <2>1, <2>2
<1>11. trail' = <<>> /\ trail' \in Seq(Stops)
  BY <1>1
<1>12. QED
  BY <1>1, <1>4, <1>7, <1>8, <1>10, <1>11 DEF OnTrail, d

\* A trail with one more page.
LEMMA Appended ==
  ASSUME NEW S, NEW t \in Seq(S), NEW l \in S
  PROVE  /\ Append(t, l) \in Seq(S) /\ Len(Append(t, l)) = Len(t) + 1
         /\ Append(t, l) # <<>> /\ Append(t, l)[Len(t) + 1] = l
         /\ \A k \in 1 .. Len(t) : Append(t, l)[k] = t[k]
  OBVIOUS

\* The page that the client leaves is the last one of the trail, and is full.
LEMMA NextTrail ==
  ASSUME OneUniqueColumn, TypeOK, WalkInv, writes = {}, OnTrail, GoNext
  PROVE  OnTrail'
<1> DEFINE d == data
           e == data'
           y == d[limit + 1]
           page == SubSeq(d, 1, limit)
           left == [page |-> page, next |-> StartValues(y)]
<1>1. /\ WayThere /\ limit + 1 \in 1 .. Len(d) /\ y \in Rows
      /\ Get(StartValues(y), FALSE) /\ request'.cursor = StartValues(y)
  BY NextIs
<1>2. /\ limit \in Nat \ {0} /\ table \subseteq Rows /\ d \in Seq(Rows) /\ Len(d) \in Nat
  BY DEF TypeOK
<1>3. heading = "next" /\ heading' = "next" /\ UNCHANGED <<table, limit, url>>
      /\ e \in Answers(StartValues(y), FALSE)
  BY <1>1 DEF GoNext, Get, url
<1>4. RowsOf(d) \subseteq table /\ \A i \in 1 .. Len(d) : d[i] \in table /\ d[i] \in Rows
  BY <1>2 DEF WalkInv, RowsOf
<1>5. y \in table /\ StartValues(y) \in CursorValues /\ StartValues(y) # NoCursor
  BY <1>1, <1>4, CursorOfRow, Cursors
<1>6. GetData = page /\ NextLink = StartValues(y)
  <2>1. ~request.previous /\ Len(d) > limit
    BY <1>1, <1>2 DEF WayThere, PageForward
  <2>2. AtMost(Len(d), limit) = limit
    BY <1>2, <2>1 DEF AtMost
  <2>3. QED
    BY <2>1, <2>2 DEF GetData, Cut, NextLink
<1>7. trail' = Append(trail, left)
  BY <1>6 DEF GoNext
<1>8. page \in Seq(table) /\ Len(page) = limit /\ \A i \in 1 .. limit : page[i] = d[i]
  BY <1>1, <1>2, <1>4
<1>9. \A r : Place(r)' = Place(r)
  BY <1>3, PlacesStay
<1>10. \A r \in Rows : Place(r) \in Int
  BY Places
<1>11. \A i, j \in 1 .. Len(d) : i < j => Place(d[i]) < Place(d[j])
  BY <1>1, <1>2 DEF WayThere, PageForward
<1>12. 1 \in 1 .. Len(e) /\ e[1] = y
  BY <1>3, <1>5, StartsWithCursor
<1>13. ASSUME NEW r \in table, Place(y) <= Place(r)
       PROVE  r \in RowsOf(e) \/ (Len(e) > limit /\ Place(e[limit + 1]) <= Place(r))
  <2>1. Passes(r, StartValues(y), FALSE)
    BY <1>1, <1>2, <1>13, Cursors
  <2>2. r \notin RowsOf(e) => Len(e) = limit + 1 /\ Place(e[limit + 1]) <= Place(r)
    BY <1>3, <2>1, AnswersForward
  <2>3. QED
    BY <1>2, <2>2
<1>14. Head_ = d[1] /\ Head_' = y
  BY <1>3, <1>12 DEF Head_
<1>15. 1 \in 1 .. Len(d) /\ limit \in 1 .. Len(d) /\ limit < limit + 1
  BY <1>1, <1>2
<1> HIDE DEF page
<1>16. PageBefore(page, y)
  <2>1. \A i, j \in 1 .. limit : i < j => Place(page[i]) < Place(page[j])
    <3>1. \A i \in 1 .. limit : i \in 1 .. Len(d)
      BY <1>1, <1>2
    <3>2. QED
      BY <1>8, <1>11, <3>1
  <2>2. page[limit] = d[limit] /\ page[1] = d[1]
    BY <1>2, <1>8
  <2>3. Place(page[limit]) < Place(y)
    BY <1>1, <1>11, <1>15, <2>2
  <2>4. ASSUME NEW r \in table, Place(page[1]) <= Place(r), Place(r) < Place(y)
        PROVE  r \in RowsOf(page)
    <3>1. r \in RowsOf(d) \/ Place(d[limit + 1]) <= Place(r)
      BY <1>3, <1>14, <2>2, <2>4 DEF OnTrail
    <3>2. r \in RowsOf(d)
      BY <1>1, <1>2, <1>10, <2>4, <3>1
    <3>3. PICK i \in 1 .. Len(d) : r = d[i]
      BY <1>2, <3>2 DEF RowsOf
    <3>4. i = limit + 1 \/ limit + 1 < i \/ i \in 1 .. limit
      BY <1>2
    <3>5. i \in 1 .. limit
      <4> SUFFICES ASSUME i = limit + 1 \/ limit + 1 < i
                   PROVE  FALSE
        BY <3>4
      <4>1. Place(y) <= Place(r)
        <5>1. limit + 1 \in 1 .. Len(d) /\ (i = limit + 1 \/ limit + 1 < i)
          BY <1>1
        <5>2. Place(d[limit + 1]) <= Place(d[i])
          BY <1>4, <1>10, <1>11, <5>1
        <5>3. QED
          BY <3>3, <5>2
      <4>2. QED
        BY <1>1, <1>2, <1>10, <2>4, <4>1
    <3>6. DOMAIN page = 1 .. limit
      BY <1>8
    <3>7. QED
      BY <1>8, <3>3, <3>5, <3>6 DEF RowsOf
  <2>5. QED
    BY <1>8, <2>1, <2>3, <2>4 DEF PageBefore
<1> HIDE DEF left, y
<1>17. left \in Stops
       /\ left.page = page /\ left.next = StartValues(y)
  BY <1>2, <1>5, <1>8 DEF left, Stops
<1>18. trail \in Seq(Stops)
  BY DEF OnTrail
<1>K. PICK K \in Nat : K = Len(trail)
  BY <1>18
<1>19. /\ trail' \in Seq(Stops) /\ Len(trail') = K + 1
       /\ trail' # <<>> /\ trail'[K + 1] = left /\ \A k \in 1 .. K : trail'[k] = trail[k]
  <2>1. Append(trail, left) # <<>>
    BY <1>17, <1>18, Appended
  <2>2. QED
    BY <1>7, <1>17, <1>18, <1>K, <2>1, Appended
<1>20. \A k \in 1 .. K + 1 : First(k)' = First(k)
  <2> SUFFICES ASSUME NEW k \in 1 .. K + 1
               PROVE  First(k)' = First(k)
    OBVIOUS
  <2>1. First(k)' = trail'[k].page[1]
    BY <1>K, <1>18, <1>19 DEF First
  <2>2. CASE k = K + 1
    <3>1. First(k) = d[1]
      BY <1>K, <1>14, <1>18, <2>2 DEF First
    <3>2. trail'[k].page[1] = d[1]
      BY <1>2, <1>8, <1>17, <1>19, <2>2
    <3>3. QED
      BY <2>1, <3>1, <3>2
  <2>3. CASE k # K + 1
    <3>1. k \in 1 .. K
      BY <1>K, <1>18, <2>3
    <3>2. QED
      BY <1>K, <1>18, <1>19, <2>1, <3>1 DEF First
  <2>4. QED
    BY <2>2, <2>3
<1>21. First(K + 2)' = y
  BY <1>14, <1>18, <1>19, <1>K DEF First
<1>22. ASSUME NEW k \in 1 .. K + 1
       PROVE  PageBefore(trail'[k].page, First(k + 1)') /\ trail'[k].next = StartValues(First(k + 1)')
  <2>1. CASE k = K + 1
    <3>1. k + 1 = K + 2
      BY <1>K, <1>18, <2>1
    <3>2. QED
      BY <1>16, <1>17, <1>19, <1>21, <2>1, <3>1
  <2>2. CASE k # K + 1
    <3>1. k \in 1 .. K /\ k + 1 \in 1 .. K + 1
      BY <1>K, <1>18, <2>2
    <3>2. PageBefore(trail[k].page, First(k + 1)) /\ trail[k].next = StartValues(First(k + 1))
      BY <1>K, <3>1 DEF OnTrail
    <3>3. QED
      BY <1>19, <1>20, <3>1, <3>2
  <2>3. QED
    BY <2>1, <2>2
<1>23. \A p, h : PageBefore(p, h)' <=> PageBefore(p, h)
  BY <1>3, PagesStay
<1>24. \A k \in 1 .. Len(trail') :
         PageBefore(trail[k].page, First(k + 1))' /\ trail'[k].next = StartValues(First(k + 1))'
  <2>1. \A r : StartValues(r)' = StartValues(r)
    BY DEF StartValues
  <2>2. \A p, h : PageBefore(p, h) => p \in Seq(table) /\ Len(p) = limit
             /\ (\A i, j \in 1 .. limit : i < j => Place(p[i]) < Place(p[j]))
             /\ Place(p[limit]) < Place(h)
             /\ \A r \in table : Place(p[1]) <= Place(r) /\ Place(r) < Place(h) => r \in RowsOf(p)
    BY DEF PageBefore
  <2>3. QED
    BY <1>3, <1>9, <1>19, <1>22, <2>1, <2>2 DEF PageBefore
<1>25. \A r \in table : Place(First(1))' <= Place(r)'
  <2>1. \A r \in table : Place(First(1)) <= Place(r)
    BY DEF OnTrail
  <2>2. First(1)' = First(1)
    BY <1>K, <1>18, <1>20
  <2>3. Place(First(1))' = Place(First(1))
    BY <1>3, <2>2 DEF Place, Order, url
  <2>4. QED
    BY <1>9, <2>1, <2>3
<1>26. QED
  BY <1>3, <1>5, <1>9, <1>12, <1>13, <1>14, <1>1, <1>K, <1>19, <1>24, <1>25 DEF OnTrail
\* A trail that loses its last page.
LEMMA Shorter ==
  ASSUME NEW S, NEW t \in Seq(S), t # <<>>
  PROVE  LET s == SubSeq(t, 1, Len(t) - 1)
         IN  /\ s \in Seq(S) /\ Len(s) = Len(t) - 1 /\ Len(t) \in Nat \ {0}
             /\ \A k \in 1 .. Len(t) - 1 : s[k] = t[k]
<1> DEFINE n == Len(t) - 1
<1>1. Len(t) \in Nat \ {0} /\ n \in Nat /\ n <= Len(t) /\ \A i \in 1 .. Len(t) : t[i] \in S
  OBVIOUS
<1>2. SubSeq(t, 1, n) = [i \in 1 .. n |-> t[i]]
  OBVIOUS
<1> HIDE DEF n
<1>3. \A i \in 1 .. n : t[i] \in S
  BY <1>1
<1>4. [i \in 1 .. n |-> t[i]] \in Seq(S) /\ Len([i \in 1 .. n |-> t[i]]) = n
  BY <1>1, <1>3
<1>5. QED
  BY <1>1, <1>2, <1>4 DEF n

\* Going back takes the last page from the trail: the client gets that page, and
\* with it the links that it had.
LEMMA PrevTrail ==
  ASSUME OneUniqueColumn, TypeOK, WalkInv, writes = {}, OnTrail, GoPrev
  PROVE  /\ OnTrail'
         /\ trail # <<>>
         /\ GetData' = trail[Len(trail)].page
         /\ NextLink' = trail[Len(trail)].next
         /\ PrevLink' = None => trail' = <<>>
<1>1. PICK x \in Rows :
           /\ Get(StartValues(x), TRUE) /\ request'.cursor = StartValues(x)
           /\ heading = "next" => /\ WayThere /\ request.cursor # NoCursor
                                  /\ 1 \in 1 .. Len(data) /\ x = data[1] /\ Len(data) <= limit
           /\ heading # "next" => /\ WayBack /\ heading = "prev"
                                  /\ 1 \in 1 .. Len(data) /\ limit + 1 \in 1 .. Len(data)
                                  /\ x = data[limit + 1] /\ Len(data) > limit + 1
  BY PrevIs
<1>2. /\ limit \in Nat \ {0} /\ table \subseteq Rows /\ data \in Seq(Rows) /\ Len(data) \in Nat
  BY DEF TypeOK
<1>3. /\ heading' = "prev" /\ UNCHANGED <<table, limit, url>> /\ request'.previous = TRUE
      /\ data' \in Answers(StartValues(x), TRUE)
      /\ trail' = IF trail = <<>> THEN trail ELSE SubSeq(trail, 1, Len(trail) - 1)
  <2>1. heading' = "prev" /\ trail' = IF trail = <<>> THEN trail ELSE SubSeq(trail, 1, Len(trail) - 1)
    BY DEF GoPrev
  <2>2. QED
    BY <1>1, <2>1 DEF Get, url
<1>4. x \in table /\ x = Head_
  <2>1. \A i \in 1 .. Len(data) : data[i] \in table
    BY <1>2 DEF WalkInv, RowsOf
  <2>2. QED
    BY <1>1, <2>1 DEF Head_
<1>5. \A r \in Rows : Place(r) \in Int
  BY Places
<1>6. \A r : Place(r)' = Place(r)
  BY <1>3, PlacesStay
<1>7. trail # <<>>
  <2>1. CASE heading = "next"
    BY <1>1, <2>1 DEF OnTrail
  <2>2. CASE heading # "next"
    <3> SUFFICES ASSUME trail = <<>>
                 PROVE  FALSE
      OBVIOUS
    <3>1. limit + 1 \in 1 .. Len(data) /\ limit + 2 \in 1 .. Len(data) /\ limit + 1 < limit + 2
      BY <1>1, <1>2, <2>2
    <3>2. Place(data[limit + 2]) < Place(data[limit + 1])
      BY <1>1, <1>2, <2>2, <3>1 DEF WayBack, PageBack
    <3>3. data[limit + 2] \in table
      BY <1>2, <3>1 DEF WalkInv, RowsOf
    <3>4. First(1) = x
      BY <1>4 DEF First
    <3>5. Place(x) <= Place(data[limit + 2])
      BY <3>3, <3>4 DEF OnTrail
    <3>6. QED
      BY <1>1, <1>2, <1>5, <2>2, <3>2, <3>3, <3>5
  <2>3. QED
    BY <2>1, <2>2
<1>8. trail \in Seq(Stops)
  BY DEF OnTrail
<1>K. PICK K \in Nat : K = Len(trail)
  BY <1>8
<1>p. PICK p : p = trail[K].page
  OBVIOUS
<1>9. /\ trail' \in Seq(Stops) /\ Len(trail') = K - 1 /\ K \in Nat \ {0}
      /\ \A k \in 1 .. K - 1 : trail'[k] = trail[k]
  BY <1>3, <1>7, <1>8, <1>K, Shorter
<1>10. K \in 1 .. K /\ First(K + 1) = x /\ First(K) = p[1]
  BY <1>4, <1>9, <1>K, <1>p DEF First
<1>11. PageBefore(p, x) /\ trail[K].next = StartValues(x)
  BY <1>10, <1>K, <1>p DEF OnTrail
<1>d. PICK d : d = data'
  OBVIOUS
<1>12. /\ d \in Seq(table) /\ Len(d) \in limit + 1 .. limit + 2 /\ d[1] = x
       /\ \A i \in 1 .. limit : d[i + 1] = p[limit + 1 - i]
  <2>1. d \in Answers(StartValues(x), TRUE)
    BY <1>3, <1>d
  <2>2. \A h \in table : \A q : PageBefore(q, h) => \A c \in Answers(StartValues(h), TRUE) :
          /\ c \in Seq(table) /\ Len(c) \in limit + 1 .. limit + 2 /\ c[1] = h
          /\ \A i \in 1 .. limit : c[i + 1] = q[limit + 1 - i]
    BY ReturnsPage
  <2>3. \A q : PageBefore(q, x) => \A c \in Answers(StartValues(x), TRUE) :
          /\ c \in Seq(table) /\ Len(c) \in limit + 1 .. limit + 2 /\ c[1] = x
          /\ \A i \in 1 .. limit : c[i + 1] = q[limit + 1 - i]
    BY <1>4, <2>2
  <2>4. \A c \in Answers(StartValues(x), TRUE) :
          /\ c \in Seq(table) /\ Len(c) \in limit + 1 .. limit + 2 /\ c[1] = x
          /\ \A i \in 1 .. limit : c[i + 1] = p[limit + 1 - i]
    BY <1>11, <2>3, Zenon
  <2>5. QED
    BY <2>1, <2>4, Zenon
<1>13. /\ p \in Seq(table) /\ Len(p) = limit /\ p[1] \in table /\ p[limit] \in table
       /\ \A i, j \in 1 .. limit : i < j => Place(p[i]) < Place(p[j])
       /\ Place(p[limit]) < Place(x)
  BY <1>2, <1>11 DEF PageBefore
<1>14. GetData' = p
  <2>1. GetData' = Backwards(SubSeq(SubSeq(d, 2, Len(d)), 1, AtMost(Len(SubSeq(d, 2, Len(d))), limit)))
    BY <1>3, <1>d DEF GetData, Cut
  <2> DEFINE e == SubSeq(d, 2, Len(d))
             c == SubSeq(e, 1, limit)
  <2>2. e \in Seq(table) /\ Len(e) = Len(d) - 1 /\ \A i \in 1 .. Len(e) : e[i] = d[i + 1]
    BY <1>2, <1>12
  <2>3. Len(e) \in Nat /\ Len(e) >= limit
    BY <1>2, <1>12, <2>2
  <2>4. AtMost(Len(e), limit) = limit
    BY <1>2, <2>3 DEF AtMost
  <2>5. GetData' = Backwards(c)
    BY <2>1, <2>4
  <2> HIDE DEF e
  <2>6. c \in Seq(table) /\ Len(c) = limit /\ DOMAIN c = 1 .. limit /\ \A i \in 1 .. limit : c[i] = e[i]
    BY <1>2, <2>2, <2>3
  <2> HIDE DEF c
  <2>7. \A i \in 1 .. limit : c[i] = p[limit + 1 - i]
    <3>1. \A i \in 1 .. limit : i \in 1 .. Len(e)
      BY <1>2, <2>3
    <3>2. QED
      BY <1>12, <2>2, <2>6, <3>1
  <2>8. Backwards(c) = [i \in 1 .. limit |-> p[i]]
    <3>1. \A i \in 1 .. limit : limit + 1 - i \in 1 .. limit /\ limit + 1 - (limit + 1 - i) = i
      BY <1>2
    <3>2. \A i \in 1 .. limit : c[limit + 1 - i] = p[i]
      BY <2>7, <3>1
    <3>3. QED
      BY <2>6, <3>2 DEF Backwards
  <2>9. p = [i \in 1 .. limit |-> p[i]]
    BY <1>13
  <2>10. QED
    BY <2>5, <2>8, <2>9
<1>15. NextLink' = StartValues(x)
  BY <1>3, <1>12, <1>d DEF NextLink, StartValues
<1>16. limit + 1 \in 1 .. Len(d) /\ Len(d) \in Nat /\ DOMAIN d = 1 .. Len(d) /\ d[limit + 1] = p[1]
  <2>1. limit \in 1 .. limit /\ limit + 1 - limit = 1
    BY <1>2
  <2>2. QED
    BY <1>2, <1>12, <2>1
<1>17. Head_' = p[1]
  BY <1>3, <1>16, <1>d DEF Head_
<1>18. \A k \in 1 .. K : First(k)' = First(k)
  <2> SUFFICES ASSUME NEW k \in 1 .. K
               PROVE  First(k)' = First(k)
    OBVIOUS
  <2>1. CASE k = K
    BY <1>9, <1>10, <1>17, <2>1 DEF First
  <2>2. CASE k # K
    <3>1. k \in 1 .. K - 1
      BY <2>2
    <3>2. k <= Len(trail) /\ k <= Len(trail')
      BY <1>9, <1>K, <3>1
    <3>3. QED
      BY <1>9, <3>1, <3>2 DEF First
  <2>3. QED
    BY <2>1, <2>2
<1>19. PrevLink' = None => trail' = <<>>
  <2> SUFFICES ASSUME PrevLink' = None, K # 1
               PROVE  FALSE
    BY <1>9
  <2>1. Len(d) = limit + 1
    <3> SUFFICES ASSUME Len(d) = limit + 2
                 PROVE  FALSE
      BY <1>2, <1>12
    <3>1. PrevLink' = StartValues(d[limit + 1])
      BY <1>2, <1>3, <1>d DEF PrevLink, StartValues
    <3>2. d[limit + 1] \in Rows
      BY <1>2, <1>13, <1>16
    <3>3. QED
      BY <3>1, <3>2, Cursors
  <2>2. K - 1 \in 1 .. K /\ (K - 1) + 1 = K
    BY <1>9
  <2>3. PageBefore(trail[K - 1].page, First(K))
    BY <1>K, <2>2 DEF OnTrail
  <2>4. PICK r \in table : Place(r) < Place(p[1])
    BY <1>2, <1>10, <2>3 DEF PageBefore
  <2>5. Place(p[1]) <= Place(p[limit]) /\ Place(p[limit]) < Place(x) /\ p[1] \in Rows /\ p[limit] \in Rows
    <3>1. 1 \in 1 .. limit /\ limit \in 1 .. limit /\ (limit = 1 \/ 1 < limit)
      BY <1>2
    <3>2. QED
      BY <1>2, <1>5, <1>13, <3>1
  <2>6. r \in Rows /\ Place(r) <= Place(x)
    BY <1>2, <1>4, <1>5, <2>4, <2>5
  <2>7. r \in RowsOf(d)
    <3>1. r \notin RowsOf(d) => Len(d) = limit + 2
      BY <1>3, <1>d, <2>6, AnswersBack
    <3>2. QED
      BY <1>2, <2>1, <3>1
  <2>8. PICK i \in 1 .. Len(d) : r = d[i]
    BY <1>16, <2>7 DEF RowsOf
  <2>9. i = limit + 1 \/ i < limit + 1
    BY <1>2, <2>1
  <2>10. Place(d[limit + 1]) <= Place(d[i])
    <3>1. \A i1, j1 \in DOMAIN d : i1 < j1 => Place(d[j1]) < Place(d[i1])
      BY <1>3, <1>d, AnswersBack
    <3>2. d[limit + 1] \in Rows /\ d[i] \in Rows
      BY <1>2, <1>16, <2>5, <2>6, <2>8
    <3>3. QED
      BY <1>5, <1>16, <2>9, <3>1, <3>2
  <2>11. QED
    BY <1>5, <1>16, <2>4, <2>5, <2>6, <2>8, <2>10
<1>20. \A k \in 1 .. Len(trail') :
         PageBefore(trail[k].page, First(k + 1))' /\ trail'[k].next = StartValues(First(k + 1))'
  <2>1. ASSUME NEW k \in 1 .. K - 1
        PROVE  PageBefore(trail'[k].page, First(k + 1)') /\ trail'[k].next = StartValues(First(k + 1)')
    <3>1. k \in 1 .. K /\ k + 1 \in 1 .. K
      BY <1>9
    <3>2. PageBefore(trail[k].page, First(k + 1)) /\ trail[k].next = StartValues(First(k + 1))
      BY <1>K, <3>1 DEF OnTrail
    <3>3. QED
      BY <1>9, <1>18, <3>1, <3>2
  <2>2. \A r : StartValues(r)' = StartValues(r)
    BY DEF StartValues
  <2>3. QED
    BY <1>3, <1>6, <1>9, <2>1, <2>2 DEF PageBefore
<1>21. \A r \in table : Place(First(1))' <= Place(r)'
  <2>1. \A r \in table : Place(First(1)) <= Place(r)
    BY DEF OnTrail
  <2>2. First(1)' = First(1)
    BY <1>9, <1>18
  <2>3. Place(First(1))' = Place(First(1))
    BY <1>3, <2>2 DEF Place, Order, url
  <2>4. QED
    BY <1>6, <2>1, <2>3
<1>22. OnTrail'
  BY <1>2, <1>3, <1>9, <1>12, <1>16, <1>20, <1>21, <1>d DEF OnTrail
<1>23. QED
  BY <1>7, <1>10, <1>11, <1>14, <1>15, <1>19, <1>22, <1>K, <1>p

\* Where nobody writes, the way back is the way there: the same pages, with the
\* same next links, down to the first one.
THEOREM WaysAreTheSame ==
  ASSUME OneUniqueColumn
  PROVE  Spec => WayBackIsWayThere
<1>1. Init => TrailInv
  BY DEF Init, TrailInv
<1>2. TypeOK /\ WalkInv /\ TrailInv /\ [Next]_vars => TrailInv'
  <2> SUFFICES ASSUME TypeOK, WalkInv, TrailInv, [Next]_vars, writes = {}
               PROVE  IF heading' = "start" THEN trail' = <<>> ELSE OnTrail'
    BY DEF TrailInv, Next, vars, url, Open, GoNext, GoPrev, Get, Insert, Delete
  <2>1. CASE Open
    BY <2>1, OpenTrail DEF Open, TrailInv
  <2>2. CASE GoNext
    BY <2>2, NextTrail DEF GoNext, TrailInv
  <2>3. CASE GoPrev
    BY <2>3, PrevTrail DEF GoPrev, TrailInv
  <2>4. CASE UNCHANGED vars
    <3>1. /\ UNCHANGED <<table, limit, request, data, heading, trail>> /\ UNCHANGED url
          /\ \A r : Place(r)' = Place(r)
      BY <2>4, PlacesStay DEF vars, url
    <3>2. Head_' = Head_ /\ \A k : First(k)' = First(k)
      BY <3>1 DEF Head_, First
    <3>3. \A p, h : PageBefore(p, h)' <=> PageBefore(p, h)
      BY <3>1, PagesStay
    <3>4. OnTrail => OnTrail'
      BY <3>1, <3>2, <3>3 DEF OnTrail
    <3>5. QED
      BY <3>1, <3>4 DEF TrailInv
  <2>5. QED
    BY <2>1, <2>2, <2>3, <2>4 DEF Next, Insert, Delete
<1>3. TypeOK /\ WalkInv /\ TrailInv /\ GoPrev /\ writes = {} =>
        /\ trail # <<>>
        /\ GetData' = trail[Len(trail)].page
        /\ NextLink' = trail[Len(trail)].next
        /\ PrevLink' = None => trail' = <<>>
  BY PrevTrail DEF TrailInv, GoPrev
<1>4. QED
  BY <1>1, <1>2, <1>3, WalkInvariant, PTL DEF Spec, WayBackIsWayThere

====
