---------------------- MODULE OffsetPagination_proofs ----------------------
(***************************************************************************)
(* Theorems about OffsetPagination, for every table, limit and offset.     *)
(***************************************************************************)
EXTENDS OffsetPagination, FiniteSetTheorems, FunctionTheorems, SequenceTheorems,
        NaturalsInduction, WellFoundedInduction, TLAPS

\* What CountPart counts: whole pages from the offset on that end before `count`,
\* and all of them, so that one more page gets to it.
LEMMA CountPartRight ==
  ASSUME NEW count \in Nat, NEW limit \in Nat \ {0}, NEW offset \in Nat
  PROVE  /\ CountPart(count, limit, offset) \in Nat
         /\ count > offset =>
              /\ offset + CountPart(count, limit, offset) * limit < count
              /\ count <= offset + CountPart(count, limit, offset) * limit + limit
<1> DEFINE n == (count - offset) \div limit
           r == (count - offset) % limit
<1>1. n \in Int /\ r \in Int /\ count - offset = limit * n + r /\ 0 <= r /\ r < limit
  OBVIOUS
<1>2. n * limit = limit * n /\ (n - 1) * limit = n * limit - limit
  BY <1>1
<1>3. QED
  BY <1>1, <1>2 DEF CountPart, NotNegative

\* The links of a page, when they are there, are pages.
LEMMA LinksArePages ==
  ASSUME page \in Page, total \in Nat
  PROVE  /\ Nxt # None => Nxt \in Page
         /\ Prev # None => Prev \in Page
  BY DEF Page, Nxt, Prev, NextLink, PrevLink, PageAt, AtMost

\* What the SELECT returns, and any window of it, is a list of rows of the table.
LEMMA WindowType ==
  ASSUME page \in Page, table \subseteq Rows,
         NEW d \in Select(table, order, Cardinality(table))
  PROVE  Window(d) \in Seq(Rows)
<1> DEFINE most == AtMost(Cardinality(table), Cardinality(table))
<1>1. Cardinality(table) \in Nat
  BY PagingAssumption, FS_Subset, FS_CardinalityType
<1>2. most \in Nat /\ d \in [1 .. most -> Rows]
  BY <1>1 DEF Select, AtMost
<1>3. d \in Seq(Rows) /\ Len(d) \in Nat
  BY <1>2
<1>4. QED
  BY <1>3 DEF Window, AtMost, Page

\* The type invariant.
THEOREM TypeCorrect == Spec => []TypeOK
<1>1. Init => TypeOK
  <2> SUFFICES ASSUME Init
               PROVE  TypeOK
    OBVIOUS
  <2> USE DEF Init
  <2>1. page \in Page
    <3>1. 0 .. MaxOffset \subseteq Nat /\ Limits \subseteq Nat \ {0}
      BY OffsetAssumption
    <3>2. QED
      BY <3>1, Zenon DEF Page
  <2>2. data \in Seq(Rows)
    OBVIOUS
  <2>3. start \in Nat
    BY <2>1 DEF Page
  <2>4. QED
    BY <2>1, <2>2, <2>3 DEF TypeOK
<1>2. TypeOK /\ [Next]_vars => TypeOK'
  <2> SUFFICES ASSUME TypeOK, [Next]_vars
               PROVE  TypeOK'
    OBVIOUS
  <2> USE DEF TypeOK
  <2>0. Cardinality(table) \in Nat
    BY PagingAssumption, FS_Subset, FS_CardinalityType
  <2>1. ASSUME NEW p \in Page, Count(p)
        PROVE  /\ table' \subseteq Rows /\ order' \in Orders /\ page' \in Page
               /\ total' \in Nat /\ data' \in Seq(Rows) /\ pc' \in {"start", "counted", "read"}
               /\ table' = table
    BY <2>0, <2>1 DEF Count
  <2>2. CASE Open
    BY <2>1, <2>2 DEF Open
  <2>3. CASE Fetch
    <3>1. PICK d \in Select(table, order, Cardinality(table)) : data' = Window(d)
      BY <2>3 DEF Fetch
    <3>2. data' \in Seq(Rows)
      BY <3>1, WindowType
    <3>3. RowsOf(data') \subseteq Rows
      BY <3>2 DEF RowsOf
    <3>4. QED
      BY <2>3, <3>2, <3>3 DEF Fetch, request
  <2>4. CASE GoNext
    <3>1. Nxt \in Page
      BY <2>4, LinksArePages DEF GoNext
    <3>2. QED
      BY <2>1, <2>4, <3>1 DEF GoNext
  <2>5. CASE GoPrev
    <3>1. Prev \in Page
      BY <2>5, LinksArePages DEF GoPrev
    <3>2. shown' \subseteq Rows
      BY <2>5 DEF GoPrev, RowsOf
    <3>3. QED
      BY <2>1, <2>5, <3>1, <3>2 DEF GoPrev
  <2>6. CASE \E r \in Rows : AppendRow(r)
    BY <2>6 DEF AppendRow, request, walk
  <2>7. CASE UNCHANGED vars
    BY <2>7 DEF vars, request, walk
  <2>8. QED
    BY <2>2, <2>3, <2>4, <2>5, <2>6, <2>7 DEF Next
<1>3. QED
  BY <1>1, <1>2, PTL DEF Spec

\* The pages of the links touch the one they are on, and `first` and `last` are
\* the ends of the table, for every total, limit and offset a page can have.
THEOREM LinksTight == Spec => []LinksAreTight
<1>1. ASSUME TypeOK
      PROVE  LinksAreTight
  <2> DEFINE limit  == page.limit
             offset == page.offset
  <2>1. limit \in Nat \ {0} /\ offset \in Nat /\ total \in Nat
    BY <1>1 DEF TypeOK, Page
  <2>2. Prev # None => Prev.offset + Prev.limit = offset
    BY <2>1 DEF Prev, PrevLink, PageAt, AtMost
  <2>3. Nxt # None => Nxt.offset = offset + limit /\ Nxt.offset < total
    BY <2>1 DEF Nxt, NextLink, PageAt
  <2>4. First # None => First.offset = 0 /\ First.limit \in 1 .. AtMost(limit, offset)
    <3> DEFINE n == CountPart(offset, limit, 0)
               rest == offset - n * limit
    <3>1. n \in Nat /\ (offset > 0 => 0 + n * limit < offset /\ offset <= 0 + n * limit + limit)
      BY <2>1, CountPartRight
    <3>2. n * limit \in Nat
      BY <2>1, <3>1
    <3>3. First # None => rest > 0 /\ First = PageAt(0, AtMost(limit, rest))
      BY DEF First, FirstLink
    <3>4. rest > 0 => offset > 0 /\ rest <= limit /\ rest <= offset
      BY <2>1, <3>1, <3>2
    <3>5. QED
      BY <2>1, <3>2, <3>3, <3>4 DEF PageAt, AtMost
  <2>5. Last # None => Last.offset < total /\ total <= Last.offset + Last.limit
    <3> DEFINE n == CountPart(total, limit, offset)
    <3>1. Last # None => total > offset + limit /\ Last = PageAt(offset + n * limit, limit)
      BY <2>1 DEF Last, LastLink, Nxt, NextLink
    <3>2. total > offset => offset + n * limit < total /\ total <= offset + n * limit + limit
      BY <2>1, CountPartRight
    <3>3. QED
      BY <2>1, <3>1, <3>2 DEF PageAt
  <2>6. QED
    BY <2>2, <2>3, <2>4, <2>5 DEF LinksAreTight
<1>2. QED
  BY <1>1, TypeCorrect, PTL

-----------------------------------------------------------------------------
(***************************************************************************)
(* Where the links lead: the chain of the `prev` links and the chain of    *)
(* the `next` links, in a formula.                                         *)
(***************************************************************************)

\* Induction over the natural numbers, for a set of them.
LEMMA NaturalsIn ==
  ASSUME NEW S, 0 \in S, \A n \in S \cap Nat : n + 1 \in S
  PROVE  Nat \subseteq S
<1> DEFINE lower == {ss \in Nat \X Nat : ss[1] < ss[2]}
           T == Nat \ S
<1>1. IsWellFoundedOn(lower, Nat)
  BY NatLessThanWellFounded DEF OpToRel
<1>2. T # {} => \E x \in T : \A y \in T : ~(<<y, x>> \in lower)
  <2> HIDE DEF lower, T
  <2>1. T \subseteq Nat
    BY DEF T
  <2>2. QED
    BY <1>1, <2>1, WFMin, Zenon
<1>3. ASSUME NEW x \in T, \A y \in T : ~(<<y, x>> \in lower)
      PROVE  FALSE
  <2>1. x \in Nat \ {0} /\ x - 1 \in Nat /\ (x - 1) + 1 = x
    OBVIOUS
  <2>2. <<x - 1, x>> \in lower
    BY <2>1
  <2>3. x - 1 \in S
    BY <2>1, <2>2, <1>3
  <2>4. QED
    BY <2>1, <2>3, <1>3
<1>4. QED
  BY <1>2, <1>3


\* Two functions that start alike and go on alike are alike.
LEMMA GoOnAlike ==
  ASSUME NEW m \in Nat, NEW f, NEW g, f[0] = g[0],
         \A i \in 1 .. m : f[i - 1] = g[i - 1] => f[i] = g[i]
  PROVE  \A i \in 0 .. m : f[i] = g[i]
<1> DEFINE S == {i \in Nat : i <= m => f[i] = g[i]}
<1>1. 0 \in S
  OBVIOUS
<1>2. ASSUME NEW i \in S \cap Nat
      PROVE  i + 1 \in S
  <2>1. i + 1 <= m => i + 1 \in 1 .. m /\ (i + 1) - 1 = i /\ f[i] = g[i]
    OBVIOUS
  <2>2. QED
    BY <2>1
<1>3. Nat \subseteq S
  <2> HIDE DEF S
  <2>1. QED
    BY <1>1, <1>2, NaturalsIn
<1>4. QED
  BY <1>3

\* Whole pages add up, and more pages are more rows.
LEMMA PagesAddUp ==
  ASSUME NEW i \in Int, NEW n \in Int, NEW limit \in Nat
  PROVE  /\ (i + 1) * limit = i * limit + limit
         /\ (i - 1) * limit = i * limit - limit
         /\ i <= n => i * limit <= n * limit
         /\ i * limit \in Int
         /\ i \in Nat => i * limit \in Nat
<1>1. i <= n => i * limit <= n * limit
  <2> SUFFICES ASSUME i <= n
               PROVE  i * limit <= n * limit
    OBVIOUS
  <2>1. PICK k \in Nat : n = i + k
    BY n - i \in Nat /\ n = i + (n - i)
  <2>2. n * limit = i * limit + k * limit /\ k * limit \in Nat
    BY <2>1
  <2>3. QED
    BY <2>2
<1>2. QED
  BY <1>1

\* The chain of the `next` links, once there is one: the pages at every limit
\* from here to the last one.
LEMMA NextChain ==
  ASSUME page \in Page, total \in Nat, Nxt # None,
         NEW n, n = CountPart(total, page.limit, page.offset)
  PROVE  Chain(NextOf, page, total) = {PageAt(page.offset + i * page.limit, page.limit) : i \in 0 .. n}
<1> DEFINE limit  == page.limit
           offset == page.offset
           nth(i) == PageAt(offset + i * limit, limit)
           g == [i \in 0 .. total |-> IF i <= n THEN nth(i) ELSE None]
           f == CHOOSE at : at = [i \in 0 .. total |->
                  IF i = 0 THEN page ELSE IF at[i - 1] = None THEN None ELSE NextOf(at[i - 1])]
<1>1. limit \in Nat \ {0} /\ offset \in Nat /\ page = PageAt(offset, limit)
  BY DEF Page, PageAt
<1>2. Chain(NextOf, page, total) = {f[i] : i \in 0 .. total} \ {None}
  BY DEF Chain
<1>3. n \in Nat /\ offset + n * limit < total /\ total <= offset + n * limit + limit
  <2>1. total > offset + limit
    BY <1>1 DEF Nxt, NextLink
  <2>2. n = CountPart(total, limit, offset)
    OBVIOUS
  <2>3. QED
    <3> HIDE DEF limit, offset
    <3>1. total > offset
      BY <1>1, <2>1
    <3>2. QED
      BY <1>1, <2>2, <3>1, CountPartRight
<1>4. ASSUME NEW i \in Nat
      PROVE  /\ nth(i) \in Page /\ nth(i) # None
             /\ NextOf(nth(i)) = IF i < n THEN nth(i + 1) ELSE None
  <2>1. i * limit \in Nat /\ (i + 1) * limit = i * limit + limit
    BY <1>1, PagesAddUp
  <2>2. i < n => (i + 1) * limit <= n * limit
    BY <1>1, <1>3, PagesAddUp
  <2>3. i >= n => n * limit <= i * limit
    BY <1>1, <1>3, PagesAddUp
  <2>4. nth(i) \in Page /\ nth(i) # None
    BY <1>1, <2>1, OffsetAssumption DEF PageAt, Page
  <2>5. NextOf(nth(i)) = NextLink(total, limit, offset + i * limit)
    BY DEF NextOf, PageAt
  <2>6. CASE i < n
    BY <1>1, <1>3, <2>1, <2>2, <2>4, <2>5, <2>6 DEF NextLink, PageAt
  <2>7. CASE i >= n
    BY <1>1, <1>3, <2>1, <2>3, <2>4, <2>5, <2>7 DEF NextLink, PageAt
  <2>8. QED
    BY <1>3, <2>6, <2>7
<1>5. n <= total
  <2>1. n * limit >= n
    BY <1>1, <1>3
  <2>2. QED
    BY <1>1, <1>3, <2>1
<1>6. nth(0) = page
  BY <1>1
<1>7. g = [i \in 0 .. total |-> IF i = 0 THEN page ELSE IF g[i - 1] = None THEN None ELSE NextOf(g[i - 1])]
  <2> SUFFICES ASSUME NEW i \in 0 .. total
               PROVE  g[i] = IF i = 0 THEN page ELSE IF g[i - 1] = None THEN None ELSE NextOf(g[i - 1])
    BY Zenon
  <2> HIDE DEF nth
  <2>1. CASE i = 0
    BY <1>3, <1>6, <2>1
  <2>2. CASE i > 0
    <3>1. i - 1 \in Nat /\ i - 1 \in 0 .. total /\ (i - 1) + 1 = i
      BY <2>2
    <3>2. g[i - 1] = IF i - 1 <= n THEN nth(i - 1) ELSE None
      BY <3>1
    <3>3. QED
      BY <1>3, <1>4, <2>2, <3>1, <3>2
  <2>3. QED
    BY <2>1, <2>2
<1>8. f = [i \in 0 .. total |-> IF i = 0 THEN page ELSE IF f[i - 1] = None THEN None ELSE NextOf(f[i - 1])]
  <2> HIDE DEF g
  <2>1. QED
    BY <1>7
<1>9. \A i \in 0 .. total : f[i] = g[i]
  <2> HIDE DEF f, g
  <2>1. \A i \in 0 .. total :
          /\ f[i] = IF i = 0 THEN page ELSE IF f[i - 1] = None THEN None ELSE NextOf(f[i - 1])
          /\ g[i] = IF i = 0 THEN page ELSE IF g[i - 1] = None THEN None ELSE NextOf(g[i - 1])
    BY <1>7, <1>8
  <2>2. f[0] = g[0]
    BY <2>1
  <2>3. \A i \in 1 .. total : f[i - 1] = g[i - 1] => f[i] = g[i]
    BY <2>1
  <2>4. QED
    BY <2>2, <2>3, GoOnAlike
<1>10. QED
  <2> HIDE DEF f, nth
  <2>1. {f[i] : i \in 0 .. total} \ {None} = {nth(i) : i \in 0 .. n}
    BY <1>3, <1>4, <1>5, <1>9
  <2>2. QED
    BY <1>2, <2>1 DEF nth

\* The chain of the `prev` links, once there is a row before this page: the pages
\* at every limit down from here, and the one at the first row.
LEMMA PrevChain ==
  ASSUME page \in Page, page.offset > 0,
         NEW n, n = CountPart(page.offset, page.limit, 0)
  PROVE  Chain(PrevOf, page, page.offset) =
           {PageAt(page.offset - i * page.limit, page.limit) : i \in 0 .. n}
             \cup {PageAt(0, page.offset - n * page.limit)}
<1> DEFINE limit  == page.limit
           offset == page.offset
           nth(i) == IF i <= n THEN PageAt(offset - i * limit, limit)
                               ELSE PageAt(0, offset - n * limit)
           g == [i \in 0 .. offset |-> IF i <= n + 1 THEN nth(i) ELSE None]
           f == CHOOSE at : at = [i \in 0 .. offset |->
                  IF i = 0 THEN page ELSE IF at[i - 1] = None THEN None ELSE PrevOf(at[i - 1])]
<1>1. limit \in Nat \ {0} /\ offset \in Nat /\ page = PageAt(offset, limit)
  BY DEF Page, PageAt
<1>2. Chain(PrevOf, page, page.offset) = {f[i] : i \in 0 .. offset} \ {None}
  BY DEF Chain
<1>3. n \in Nat /\ n * limit < offset /\ offset <= n * limit + limit
  <2>1. n = CountPart(offset, limit, 0)
    OBVIOUS
  <2>2. n \in Nat /\ 0 + n * limit < offset /\ offset <= 0 + n * limit + limit
    BY <1>1, <2>1, CountPartRight
  <2>3. n * limit \in Nat
    BY <1>1, <2>2, PagesAddUp
  <2>4. QED
    BY <1>1, <2>2, <2>3
<1>4. ASSUME NEW i \in 0 .. n + 1
      PROVE  /\ nth(i) \in Page /\ nth(i) # None
             /\ PrevOf(nth(i)) = IF i <= n THEN nth(i + 1) ELSE None
  <2>1. i * limit \in Nat /\ (i + 1) * limit = i * limit + limit /\ n * limit \in Nat
    BY <1>1, <1>3, PagesAddUp
  <2>2. i <= n => i * limit <= n * limit
    BY <1>1, <1>3, PagesAddUp
  <2>3. i < n => (i + 1) * limit <= n * limit
    BY <1>1, <1>3, PagesAddUp
  <2>4. nth(i) \in Page /\ nth(i) # None
    <3>1. \A o \in Nat, l \in Nat \ {0} : PageAt(o, l) \in Page /\ PageAt(o, l) # None
      BY OffsetAssumption DEF PageAt, Page
    <3>2. i <= n => offset - i * limit \in Nat
      BY <1>1, <1>3, <2>1, <2>2
    <3>3. offset - n * limit \in Nat \ {0}
      BY <1>1, <1>3, <2>1
    <3>4. QED
      BY <1>1, <3>1, <3>2, <3>3
  <2>5. CASE i < n
    BY <1>1, <1>3, <2>1, <2>2, <2>3, <2>4, <2>5 DEF PrevOf, PrevLink, PageAt, AtMost
  <2>6. CASE i = n
    BY <1>1, <1>3, <2>1, <2>4, <2>6 DEF PrevOf, PrevLink, PageAt, AtMost
  <2>7. CASE i = n + 1
    BY <1>1, <1>3, <2>1, <2>4, <2>7 DEF PrevOf, PrevLink, PageAt
  <2>8. QED
    BY <1>3, <2>4, <2>5, <2>6, <2>7
<1>5. n + 1 <= offset
  <2>1. n * limit >= n /\ n * limit \in Nat
    BY <1>1, <1>3
  <2>2. QED
    BY <1>1, <1>3, <2>1
<1>6. nth(0) = page
  BY <1>1, <1>3
<1>7. g = [i \in 0 .. offset |-> IF i = 0 THEN page ELSE IF g[i - 1] = None THEN None ELSE PrevOf(g[i - 1])]
  <2> SUFFICES ASSUME NEW i \in 0 .. offset
               PROVE  g[i] = IF i = 0 THEN page ELSE IF g[i - 1] = None THEN None ELSE PrevOf(g[i - 1])
    BY Zenon
  <2> HIDE DEF nth
  <2>1. CASE i = 0
    BY <1>3, <1>6, <2>1
  <2>2. CASE i > 0
    <3>1. i - 1 \in Nat /\ i - 1 \in 0 .. offset /\ (i - 1) + 1 = i
      BY <1>1, <2>2
    <3>2. g[i - 1] = IF i - 1 <= n + 1 THEN nth(i - 1) ELSE None
      BY <3>1
    <3>3. i - 1 <= n + 1 =>
            nth(i - 1) # None /\ PrevOf(nth(i - 1)) = IF i - 1 <= n THEN nth(i) ELSE None
      BY <1>3, <1>4, <3>1
    <3>4. g[i] = IF i <= n + 1 THEN nth(i) ELSE None
      OBVIOUS
    <3> HIDE DEF g
    <3>5. QED
      BY <1>3, <2>2, <3>2, <3>3, <3>4
  <2>3. QED
    BY <2>1, <2>2
<1>8. f = [i \in 0 .. offset |-> IF i = 0 THEN page ELSE IF f[i - 1] = None THEN None ELSE PrevOf(f[i - 1])]
  <2> HIDE DEF g
  <2>1. QED
    BY <1>7
<1>9. \A i \in 0 .. offset : f[i] = g[i]
  <2> HIDE DEF f, g
  <2>1. \A i \in 0 .. offset :
          /\ f[i] = IF i = 0 THEN page ELSE IF f[i - 1] = None THEN None ELSE PrevOf(f[i - 1])
          /\ g[i] = IF i = 0 THEN page ELSE IF g[i - 1] = None THEN None ELSE PrevOf(g[i - 1])
    BY <1>7, <1>8
  <2>2. f[0] = g[0]
    BY <1>1, <2>1
  <2>3. \A i \in 1 .. offset : f[i - 1] = g[i - 1] => f[i] = g[i]
    BY <2>1
  <2>4. offset \in Nat
    BY <1>1
  <2> HIDE DEF offset
  <2>5. QED
    BY <2>2, <2>3, <2>4, GoOnAlike, Zenon
<1>10. {f[i] : i \in 0 .. offset} \ {None} = {nth(i) : i \in 0 .. n + 1}
  <2> HIDE DEF f, nth
  <2>1. \A i \in 0 .. offset : f[i] = IF i <= n + 1 THEN nth(i) ELSE None
    BY <1>9
  <2> HIDE DEF g
  <2>2. \A i \in 0 .. n + 1 : i \in 0 .. offset /\ f[i] = nth(i) /\ nth(i) # None
    <3>1. \A i \in 0 .. n + 1 : i \in 0 .. offset /\ i <= n + 1
      BY <1>1, <1>3, <1>5
    <3>2. QED
      BY <1>4, <2>1, <3>1
  <2>3. \A i \in 0 .. offset : f[i] # None => i \in 0 .. n + 1
    BY <1>1, <1>3, <2>1
  <2>4. None \notin {nth(i) : i \in 0 .. n + 1}
    BY <2>2
  <2>5. \A x : x \in {f[i] : i \in 0 .. offset} \ {None} <=> x \in {nth(i) : i \in 0 .. n + 1}
    BY <2>2, <2>3, <2>4
  <2>6. QED
    BY <2>5
<1>11. {nth(i) : i \in 0 .. n + 1} = {PageAt(offset - i * limit, limit) : i \in 0 .. n}
                                       \cup {PageAt(0, offset - n * limit)}
  BY <1>3
<1>13. QED
  BY <1>2, <1>10, <1>11

\* The ends that `first` and `last` name are the ends that the `prev` and the
\* `next` links lead to.
LEMMA LinksAreEnds ==
  ASSUME TypeOK
  PROVE  LinksLeadToEnds
<1> DEFINE limit  == page.limit
           offset == page.offset
<1>1. page \in Page /\ limit \in Nat \ {0} /\ offset \in Nat /\ total \in Nat
  BY DEF TypeOK, Page
<1>2. First # None <=> offset > 0
  <2> DEFINE n == CountPart(offset, limit, 0)
  <2>1. n \in Nat /\ (offset > 0 => 0 + n * limit < offset)
    BY <1>1, CountPartRight
  <2>2. n * limit \in Nat
    BY <1>1, <2>1, PagesAddUp
  <2>3. QED
    BY <1>1, <2>1, <2>2, OffsetAssumption DEF First, FirstLink, PageAt, AtMost, Page
<1>3. First # None => First \in Chain(PrevOf, page, offset) /\ PrevOf(First) = None
  <2> SUFFICES ASSUME First # None
               PROVE  First \in Chain(PrevOf, page, offset) /\ PrevOf(First) = None
    OBVIOUS
  <2> DEFINE n == CountPart(offset, limit, 0)
  <2>1. n \in Nat /\ 0 + n * limit < offset /\ offset <= 0 + n * limit + limit
    <3> HIDE DEF limit, offset
    <3>1. QED
      BY <1>1, <1>2, CountPartRight
  <2>2. n * limit \in Nat
    BY <1>1, <2>1, PagesAddUp
  <2>3. First = PageAt(0, offset - n * limit)
    BY <1>1, <2>1, <2>2 DEF First, FirstLink, AtMost
  <2>4. First \in Chain(PrevOf, page, offset)
    BY <1>1, <1>2, <2>3, PrevChain
  <2>5. PrevOf(First) = PrevLink(First.limit, 0)
    BY <2>3 DEF PrevOf, PageAt
  <2>6. QED
    BY <2>4, <2>5 DEF PrevLink
<1>4. Nxt # None => Last \in Chain(NextOf, page, total) /\ NextOf(Last) = None
  <2> SUFFICES ASSUME Nxt # None
               PROVE  Last \in Chain(NextOf, page, total) /\ NextOf(Last) = None
    OBVIOUS
  <2> DEFINE n == CountPart(total, limit, offset)
  <2>1. total > offset + limit
    BY DEF Nxt, NextLink
  <2>2. n \in Nat /\ offset + n * limit < total /\ total <= offset + n * limit + limit
    <3> HIDE DEF limit, offset
    <3>1. QED
      BY <1>1, <2>1, CountPartRight
  <2>3. n * limit \in Nat /\ n # 0
    BY <1>1, <2>1, <2>2, PagesAddUp
  <2>4. Last = PageAt(offset + n * limit, limit)
    BY <2>2, <2>3 DEF Last, LastLink
  <2>5. Last \in Chain(NextOf, page, total)
    BY <1>1, <2>2, <2>4, NextChain
  <2>6. NextOf(Last) = NextLink(total, limit, offset + n * limit)
    BY <2>4 DEF NextOf, PageAt
  <2>7. QED
    BY <1>1, <2>2, <2>3, <2>5, <2>6 DEF NextLink
<1>5. QED
  BY <1>2, <1>3, <1>4 DEF LinksLeadToEnds

\* So they are on every page, for every total, limit and offset it can have.
THEOREM LinksLead == Spec => []LinksLeadToEnds
<1>1. TypeOK => LinksLeadToEnds
  BY LinksAreEnds
<1>2. QED
  BY <1>1, TypeCorrect, PTL

-----------------------------------------------------------------------------
(***************************************************************************)
(* The rows of a page.                                                     *)
(***************************************************************************)

\* No row is both before and after another one: the first column that tells them
\* apart decides.
LEMMA BeforeIsAsymmetric ==
  ASSUME NEW o \in Seq(SignedColumn), NEW r \in Rows, NEW s \in Rows, Before(o, r, s)
  PROVE  ~Before(o, s, r)
<1> DEFINE cell(x, i) == Cell[x][o[i].column]
<1>1. \A i \in DOMAIN o : cell(r, i) \in Int /\ cell(s, i) \in Int
  <2> SUFFICES ASSUME NEW i \in DOMAIN o
               PROVE  cell(r, i) \in Int /\ cell(s, i) \in Int
    OBVIOUS
  <2>1. o[i] \in SignedColumn
    OBVIOUS
  <2>2. o[i].column \in Columns
    BY <2>1 DEF SignedColumn
  <2>3. QED
    BY <2>2, PagingAssumption
<1>2. SUFFICES ASSUME Before(o, s, r)
               PROVE  FALSE
  OBVIOUS
<1>3. PICK i \in DOMAIN o : /\ Precedes(o[i], r, s)
                            /\ \A j \in 1 .. i - 1 : cell(r, j) = cell(s, j)
  BY DEF Before
<1>4. PICK k \in DOMAIN o : /\ Precedes(o[k], s, r)
                            /\ \A j \in 1 .. k - 1 : cell(s, j) = cell(r, j)
  BY <1>2 DEF Before
<1>5. i \in Nat \ {0} /\ k \in Nat \ {0}
  OBVIOUS
<1>6. cell(r, i) # cell(s, i) /\ cell(r, k) # cell(s, k)
  BY <1>1, <1>3, <1>4 DEF Precedes
<1>7. i = k
  BY <1>3, <1>4, <1>5, <1>6
<1>8. QED
  BY <1>1, <1>3, <1>4, <1>7 DEF Precedes

\* A SELECT of all the rows lists each of them, and a row has its place in the
\* list by the number of rows that come before it.
LEMMA SelectIsSorted ==
  ASSUME NEW T \in SUBSET Rows, NEW o \in Seq(SignedColumn),
         \A r \in T, s \in T : r # s => Before(o, r, s) \/ Before(o, s, r),
         NEW d \in Select(T, o, Cardinality(T))
  PROVE  /\ d \in Seq(T) /\ Len(d) = Cardinality(T)
         /\ \A r \in T : LET n == Cardinality({s \in T : Before(o, s, r)})
                         IN  n \in Nat /\ n + 1 \in DOMAIN d /\ d[n + 1] = r
<1> DEFINE m == Cardinality(T)
<1>1. IsFiniteSet(T) /\ m \in Nat
  BY PagingAssumption, FS_Subset, FS_CardinalityType
<1>2. d \in [1 .. m -> T]
  BY <1>1 DEF Select, AtMost
<1>3. /\ \A i \in 1 .. m : \A j \in 1 .. i - 1 : d[i] # d[j] /\ ~Before(o, d[i], d[j])
      /\ \A i \in 1 .. m : \A r \in T : Before(o, r, d[i]) => \E j \in 1 .. i - 1 : d[j] = r
  BY <1>1, <1>2 DEF Select, AtMost
<1>4. \A i, j \in 1 .. m : i # j => d[i] # d[j]
  BY <1>1, <1>3
<1>5. \A r \in T : \E i \in 1 .. m : d[i] = r
  <2>1. d \in Injection(1 .. m, T)
    BY <1>2, <1>4 DEF Injection, IsInjective
  <2>2. IsFiniteSet(1 .. m) /\ Cardinality(1 .. m) = m
    BY <1>1, FS_Interval
  <2>3. d \in Surjection(1 .. m, T)
    BY <1>1, <2>1, <2>2, FS_Injection
  <2>4. QED
    BY <2>3 DEF Surjection
<1>6. ASSUME NEW i \in 1 .. m
      PROVE  Cardinality({s \in T : Before(o, s, d[i])}) = i - 1
  <2> DEFINE E == {s \in T : Before(o, s, d[i])}
             e == [j \in 1 .. i - 1 |-> d[j]]
  <2>1. \A j \in 1 .. i - 1 : j \in 1 .. m /\ d[j] \in T /\ d[i] \in T
    BY <1>1, <1>2
  <2>2. \A j \in 1 .. i - 1 : d[j] \in E
    BY <1>3, <2>1
  <2>3. \A s \in E : \E j \in 1 .. i - 1 : d[j] = s
    BY <1>3
  <2>4. e \in Bijection(1 .. i - 1, E)
    <3>1. e \in [1 .. i - 1 -> E]
      BY <2>2
    <3>2. e \in Injection(1 .. i - 1, E)
      BY <1>4, <2>1, <3>1 DEF Injection, IsInjective
    <3>3. e \in Surjection(1 .. i - 1, E)
      BY <2>3, <3>1 DEF Surjection
    <3>4. QED
      BY <3>2, <3>3 DEF Bijection
  <2>5. ExistsBijection(1 .. i - 1, E)
    BY <2>4 DEF ExistsBijection
  <2>6. IsFiniteSet(1 .. i - 1) /\ Cardinality(1 .. i - 1) = i - 1
    <3>1. i - 1 \in Int /\ ~(1 > i - 1 /\ i - 1 # 0) /\ i - 1 >= 0
      BY <1>1
    <3>2. /\ IsFiniteSet(1 .. i - 1)
          /\ Cardinality(1 .. i - 1) = IF 1 > i - 1 THEN 0 ELSE (i - 1) - 1 + 1
      BY <3>1, FS_Interval
    <3>3. QED
      BY <3>1, <3>2
  <2>7. QED
    BY <2>5, <2>6, FS_Bijection
<1>7. ASSUME NEW r \in T
      PROVE  LET n == Cardinality({s \in T : Before(o, s, r)})
             IN  n \in Nat /\ n + 1 \in DOMAIN d /\ d[n + 1] = r
  <2>1. PICK i \in 1 .. m : d[i] = r
    BY <1>5
  <2>2. Cardinality({s \in T : Before(o, s, r)}) = i - 1
    BY <1>6, <2>1
  <2>3. QED
    BY <1>1, <1>2, <2>1, <2>2
<1>8. QED
  BY <1>1, <1>2, <1>7

-----------------------------------------------------------------------------
(***************************************************************************)
(* A walk by the links.                                                    *)
(***************************************************************************)

\* The order_by of a URL tells all rows apart (a unique column is among its own):
\* else the database may list them differently every time, and no walk is complete.
RowsAreOrdered ==
  \A o \in Orders : \A r, s \in Rows : r # s => Before(o, r, s) \/ Before(o, s, r)

\* How many of the rows that were there at the start come before r.
Place(r) == Cardinality({s \in kept : Before(order, s, r)})

\* The rows that the client has not been shown: on the way to the last page those
\* before the offset it started at, and those that are still to come; on the way
\* back those before the page it has asked for, or has read.
NotShownYet ==
  \A r \in kept \ shown :
    /\ heading = "next" /\ pc = "counted" => Place(r) < start \/ Place(r) >= page.offset
    /\ heading = "next" /\ pc = "read" => Place(r) < start \/ Place(r) >= page.offset + page.limit
    /\ heading = "prev" /\ pc = "counted" => Place(r) < page.offset + page.limit
    /\ heading = "prev" /\ pc = "read" => Place(r) < page.offset

\* The last page of the way there is the first one of the way back: it has all the
\* rows of its places, whatever is written between the count and the SELECT.
PageHasItsRows ==
  heading = "next" /\ pc = "read" =>
    \A r \in kept : Place(r) \in page.offset .. page.offset + page.limit - 1 => r \in RowsOf(data)

WalkInv ==
  /\ pc = "start" => heading = "next" /\ kept = {} /\ start = page.offset
  /\ \A r \in kept, s \in table \ kept : Before(order, r, s)
  /\ pc # "start" => Cardinality(kept) <= total
  /\ heading = "next" => start <= page.offset
  /\ NotShownYet
  /\ PageHasItsRows

\* A row keeps its place while rows are added after the others.
LEMMA PlaceInTable ==
  ASSUME TypeOK, WalkInv, NEW r \in kept
  PROVE  /\ {s \in kept : Before(order, s, r)} = {s \in table : Before(order, s, r)}
         /\ r \in table
<1>1. order \in Seq(SignedColumn) /\ kept \subseteq table /\ table \subseteq Rows
  BY OffsetAssumption DEF TypeOK
<1>2. ASSUME NEW s \in table \ kept
      PROVE  ~Before(order, s, r)
  BY <1>1, BeforeIsAsymmetric DEF WalkInv
<1>3. QED
  BY <1>1, <1>2

\* The page that is read has every row of the start whose place is on it.
LEMMA FetchReads ==
  ASSUME RowsAreOrdered, TypeOK, WalkInv, Fetch
  PROVE  \A r \in kept :
           Place(r) \in page.offset .. page.offset + page.limit - 1 => r \in RowsOf(data')
<1> SUFFICES ASSUME NEW r \in kept, Place(r) \in page.offset .. page.offset + page.limit - 1
             PROVE  r \in RowsOf(data')
  OBVIOUS
<1> DEFINE offset == page.offset
           limit  == page.limit
<1>1. order \in Orders /\ order \in Seq(SignedColumn) /\ table \in SUBSET Rows
  BY OffsetAssumption DEF TypeOK
<1>2. offset \in Nat /\ limit \in Nat \ {0}
  BY DEF TypeOK, Page
<1>3. PICK d \in Select(table, order, Cardinality(table)) : data' = Window(d)
  BY DEF Fetch
<1>4. \A x \in table, y \in table : x # y => Before(order, x, y) \/ Before(order, y, x)
  BY <1>1 DEF RowsAreOrdered
<1>5. /\ d \in Seq(table)
      /\ \A x \in table : LET n == Cardinality({s \in table : Before(order, s, x)})
                          IN  n \in Nat /\ n + 1 \in DOMAIN d /\ d[n + 1] = x
  BY <1>1, <1>3, <1>4, SelectIsSorted
<1>6. PICK n : n = Place(r)
  OBVIOUS
<1>7. n \in Nat /\ n + 1 \in 1 .. Len(d) /\ d[n + 1] = r /\ n >= offset /\ n < offset + limit
  <2>1. n = Cardinality({s \in table : Before(order, s, r)}) /\ r \in table
    BY <1>6, PlaceInTable DEF Place
  <2>2. n \in Nat /\ n + 1 \in DOMAIN d /\ d[n + 1] = r
    BY <1>5, <2>1
  <2>3. n >= offset /\ n < offset + limit
    BY <1>2, <1>6
  <2>4. QED
    BY <1>5, <2>2, <2>3
<1>8. PICK last : last = AtMost(Len(d), offset + limit)
  OBVIOUS
<1>9. last \in Nat /\ last <= Len(d) /\ n + 1 <= last
  BY <1>2, <1>5, <1>7, <1>8 DEF AtMost
<1>10. data' = SubSeq(d, offset + 1, last)
  BY <1>3, <1>8 DEF Window
<1>11. PICK k : k = n + 1 - offset
  OBVIOUS
<1>12. /\ k \in 1 .. last - (offset + 1) + 1
      /\ offset + 1 + k - 1 = n + 1 /\ offset + 1 <= last
  BY <1>2, <1>7, <1>9, <1>11
<1>13. /\ Len(data') = IF offset + 1 <= last THEN last - (offset + 1) + 1 ELSE 0
       /\ data' \in Seq(table) /\ data'[k] = d[offset + 1 + k - 1]
  <2>1. offset + 1 \in Int /\ last \in Int /\ \A i \in offset + 1 .. last : d[i] \in table
    BY <1>2, <1>5, <1>9
  <2>2. /\ data' \in Seq(table)
        /\ Len(data') = IF offset + 1 <= last THEN last - (offset + 1) + 1 ELSE 0
        /\ \A i \in 1 .. last - (offset + 1) + 1 : data'[i] = d[offset + 1 + i - 1]
    BY <1>10, <2>1, SubSeqProperties
  <2>3. QED
    BY <1>12, <2>2, Zenon
<1>14. k \in DOMAIN data' /\ data'[k] = r
  BY <1>7, <1>12, <1>13
<1>15. QED
  BY <1>14 DEF RowsOf

\* The places of the rows of the start, and how many of them there are.
LEMMA PlaceType ==
  ASSUME TypeOK
  PROVE  /\ IsFiniteSet(kept) /\ Cardinality(kept) \in Nat
         /\ \A r \in kept : Place(r) \in Nat /\ Place(r) < Cardinality(kept)
<1>1. kept \in SUBSET Rows /\ order \in Seq(SignedColumn)
  BY OffsetAssumption DEF TypeOK
<1>2. IsFiniteSet(kept) /\ Cardinality(kept) \in Nat
  BY <1>1, PagingAssumption, FS_Subset, FS_CardinalityType
<1>3. ASSUME NEW r \in kept
      PROVE  Place(r) \in Nat /\ Place(r) < Cardinality(kept)
  <2> DEFINE E == {s \in kept : Before(order, s, r)}
  <2>1. r \notin E
    BY <1>1, BeforeIsAsymmetric
  <2>2. E \in SUBSET kept /\ E # kept
    BY <2>1
  <2>3. Cardinality(E) \in Nat /\ Cardinality(E) <= Cardinality(kept) /\ Cardinality(E) # Cardinality(kept)
    BY <1>2, <2>2, FS_Subset, FS_CardinalityType
  <2>4. QED
    BY <1>2, <2>3 DEF Place
<1>4. QED
  BY <1>2, <1>3

\* At every page the client has been shown what it has passed.
LEMMA WalkStep ==
  ASSUME RowsAreOrdered, TypeOK, TypeOK', WalkInv, [Next]_vars
  PROVE  WalkInv'
<1> DEFINE limit  == page.limit
           offset == page.offset
<1>0. limit \in Nat \ {0} /\ offset \in Nat /\ start \in Nat /\ total \in Nat
  BY DEF TypeOK, Page
<1>1. ASSUME UNCHANGED <<kept, order>>
      PROVE  \A r : Place(r)' = Place(r)
  BY <1>1 DEF Place
<1>2. Cardinality(table) \in Nat /\ Cardinality(kept) <= Cardinality(table)
  BY PagingAssumption, FS_Subset, FS_CardinalityType DEF TypeOK
<1>3. CASE Open
  <2>1. /\ pc = "start" /\ pc' = "counted" /\ heading = "next" /\ kept' = table
        /\ total' = Cardinality(table) /\ start = page.offset
        /\ UNCHANGED <<table, order, page, heading, shown, start>>
    BY <1>3 DEF Open, Count, WalkInv
  <2>2. ASSUME NEW r \in kept'
        PROVE  Place(r)' \in Nat
    <3>1. Place(r)' = Cardinality({s \in table : Before(order, s, r)})
      BY <2>1 DEF Place
    <3>2. IsFiniteSet({s \in table : Before(order, s, r)})
      BY PagingAssumption, FS_Subset DEF TypeOK
    <3>3. QED
      BY <3>1, <3>2, FS_CardinalityType
  <2>3. QED
    BY <1>0, <1>2, <2>1, <2>2 DEF WalkInv, NotShownYet, PageHasItsRows
<1>4. CASE Fetch
  <2>1. /\ pc = "counted" /\ pc' = "read" /\ shown' = shown \cup RowsOf(data')
        /\ UNCHANGED <<table, order, page, total, heading, kept, start>>
    BY <1>4 DEF Fetch, request
  <2>2. \A r \in kept : Place(r) \in offset .. offset + limit - 1 => r \in RowsOf(data')
    BY <1>4, FetchReads
  <2>3. \A r \in kept : Place(r)' = Place(r) /\ Place(r) \in Nat
    BY <1>1, <2>1, PlaceType
  <2>4. NotShownYet'
    BY <1>0, <2>1, <2>2, <2>3 DEF WalkInv, NotShownYet
  <2>5. QED
    BY <1>0, <2>1, <2>2, <2>3, <2>4 DEF WalkInv, PageHasItsRows
<1>5. CASE GoNext
  <2>1. /\ pc = "read" /\ pc' = "counted" /\ heading = "next"
        /\ page' = PageAt(offset + limit, limit) /\ total' = Cardinality(table)
        /\ UNCHANGED <<table, order, heading, shown, kept, start>>
    BY <1>5 DEF GoNext, Count, Nxt, NextLink
  <2>2. \A r \in kept : Place(r)' = Place(r) /\ Place(r) \in Nat
    BY <1>1, <2>1, PlaceType
  <2>3. page'.offset = offset + limit /\ page'.limit = limit
    BY <2>1 DEF PageAt
  <2>4. QED
    BY <1>0, <1>2, <2>1, <2>2, <2>3 DEF WalkInv, NotShownYet, PageHasItsRows
<1>6. CASE GoPrev
  <2>1. /\ pc = "read" /\ pc' = "counted" /\ heading' = "prev"
        /\ heading = "next" => total <= offset + limit /\ shown' = RowsOf(data)
        /\ heading # "next" => shown' = shown
        /\ total' = Cardinality(table)
        /\ UNCHANGED <<table, order, kept, start>>
    <3>1. Nxt = None => total <= offset + limit
      <4>1. PageAt(offset + limit, limit) # None
        BY <1>0, OffsetAssumption DEF PageAt
      <4>2. QED
        BY <1>0, <4>1 DEF Nxt, NextLink
    <3>2. QED
      BY <1>6, <3>1 DEF GoPrev, Count
  <2>2. \A r \in kept : Place(r)' = Place(r) /\ Place(r) \in Nat /\ Place(r) < Cardinality(kept)
    BY <1>1, <2>1, PlaceType
  <2>3. page'.offset + page'.limit = offset
    <3>1. Prev # None /\ page' = Prev
      BY <1>6 DEF GoPrev, Count
    <3>2. QED
      BY <1>0, <3>1 DEF Prev, PrevLink, PageAt, AtMost
  <2>4. \A r \in kept' \ shown' : Place(r)' < page'.offset + page'.limit
    <3>1. CASE heading = "next"
      BY <1>0, <2>1, <2>2, <2>3, <3>1, PlaceType DEF WalkInv, PageHasItsRows
    <3>2. CASE heading = "prev"
      BY <1>0, <2>1, <2>2, <2>3, <3>2 DEF WalkInv, NotShownYet
    <3>3. QED
      BY <3>1, <3>2 DEF TypeOK
  <2>5. QED
    BY <1>2, <2>1, <2>4 DEF WalkInv, NotShownYet, PageHasItsRows
<1>7. ASSUME NEW r \in Rows, AppendRow(r)
      PROVE  WalkInv'
  <2>1. /\ table' = table \cup {r} /\ \A s \in table : Before(order, s, r)
        /\ UNCHANGED <<order, page, total, data, pc, heading, shown, kept, start>>
    BY <1>7 DEF AppendRow, request, walk
  <2>2. kept \subseteq table
    BY DEF TypeOK
  <2>3. NotShownYet' /\ PageHasItsRows'
    BY <1>1, <2>1 DEF WalkInv, NotShownYet, PageHasItsRows
  <2>4. QED
    BY <2>1, <2>2, <2>3 DEF WalkInv
<1>8. CASE UNCHANGED vars
  <2>1. NotShownYet' /\ PageHasItsRows'
    BY <1>1, <1>8 DEF vars, request, walk, WalkInv, NotShownYet, PageHasItsRows
  <2>2. QED
    BY <1>8, <2>1 DEF vars, request, walk, WalkInv
<1>9. QED
  BY <1>3, <1>4, <1>5, <1>6, <1>7, <1>8 DEF Next

\* The invariant of a walk, when the order tells all rows apart.
THEOREM WalkInvariant ==
  ASSUME RowsAreOrdered
  PROVE  Spec => []WalkInv
<1>1. Init => WalkInv
  BY OffsetAssumption DEF Init, WalkInv, NotShownYet, PageHasItsRows, Page
<1>2. TypeOK /\ TypeOK' /\ WalkInv /\ [Next]_vars => WalkInv'
  BY WalkStep
<1>3. QED
  BY <1>1, <1>2, TypeCorrect, PTL DEF Spec

\* A walk misses no row that was there when it started, on its way to the last
\* page and on its way back, whatever rows are added after the others and however
\* often between the count and the SELECT of a page.
THEOREM WalksAreComplete ==
  ASSUME RowsAreOrdered
  PROVE  Spec => []WalkIsComplete
<1>1. ASSUME TypeOK, WalkInv
      PROVE  WalkIsComplete
  <2> DEFINE limit  == page.limit
             offset == page.offset
  <2>1. limit \in Nat \ {0} /\ offset \in Nat /\ start \in Nat /\ total \in Nat
    BY <1>1 DEF TypeOK, Page
  <2>2. \A r \in kept : Place(r) \in Nat /\ Place(r) < Cardinality(kept)
    BY <1>1, PlaceType
  <2>3. Cardinality(kept) \in Nat
    BY <1>1, PlaceType
  <2>4. ASSUME AtLastPage, NEW r \in kept \ shown
        PROVE  Place(r) < start
    <3>1. PageAt(offset + limit, limit) # None
      BY <2>1, OffsetAssumption DEF PageAt
    <3>2. total <= offset + limit
      BY <2>1, <2>4, <3>1 DEF AtLastPage, Nxt, NextLink
    <3>3. QED
      BY <1>1, <2>1, <2>2, <2>3, <2>4, <3>2 DEF AtLastPage, WalkInv, NotShownYet
  <2>5. ASSUME AtFirstPage
        PROVE  kept \subseteq shown
    <3>1. offset = 0
      <4>1. First # None <=> offset > 0
        BY <1>1, <2>5, LinksAreEnds DEF LinksLeadToEnds, AtFirstPage
      <4>2. offset > 0 => PrevLink(limit, offset) # None
        BY <2>1, OffsetAssumption DEF PrevLink, PageAt, AtMost
      <4>3. QED
        BY <2>1, <2>5, <4>1, <4>2 DEF AtFirstPage, Prev
    <3>2. QED
      BY <1>1, <2>1, <2>2, <2>5, <3>1 DEF AtFirstPage, WalkInv, NotShownYet
  <2>6. QED
    BY <2>4, <2>5 DEF WalkIsComplete, Place
<1>2. QED
  BY <1>1, TypeCorrect, WalkInvariant, PTL

=============================================================================
