--------------------------- MODULE SqlApi_proofs ---------------------------
(***************************************************************************)
(* Theorems about SqlApi, for every table, pool and set of requests: the   *)
(* endpoints use Database as an application of it may (so that what is     *)
(* proved of Database holds of them), they wait for the pool with nothing  *)
(* in their hands, their errors are JSON, and they implement Store:        *)
(* requests change the table in one step or not at all.                    *)
(***************************************************************************)
EXTENDS SqlApi, Database_proofs, SequenceTheorems, TLAPS

(* What a handler may raise. *)
Exceptions ==
    [status : {400, 422}, json : {TRUE}] \cup [status : {404, 500, 501}, json : BOOLEAN]

(* The steps that open no block, the blocks that are given a connection,   *)
(* and what may run inside a block: nothing there opens a connection.      *)
Filters == {Everything} \cup {ById(i) : i \in Ids} \cup {ByTitle(v) : v \in Titles}

Statements ==
    [do : {"select", "delete"}, filter : Filters]
    \cup [do : {"update"}, filter : Filters, title : Titles, unique : Exceptions]
    \cup [do : {"insert"}, titles : {s \in Seq(Titles) : Len(s) \in 1..2}, unique : Exceptions]
Leaves ==
    Statements
    \cup [do : {"raise"}, error : Exceptions] \cup {Found} \cup [do : {"return"}, status : {404}]

GivenTo(body) == [do : {"with"}, block : {"ensure"}, given : {TRUE}, body : body]
Helpers == GivenTo(Seq(Statements))
Nested == GivenTo(Seq(Statements \cup Helpers))
Inside == Leaves \cup Nested \cup [do : {"orelse"}, step : Nested]

(* What may run outside of all blocks: a block opens a connection. *)
Blocks == {"connection", "transaction", "ensure"}
Openers == [do : {"with"}, block : Blocks, given : {FALSE}, body : Seq(Inside)]
Outside == Leaves \cup Openers \cup [do : {"orelse"}, step : Openers]

(* What is left of a handler that is in n blocks. *)
Stack(st, n) ==
    /\ st \in Seq(Seq(Inside \cup Outside)) /\ Len(st) = n + 1
    /\ \A k \in 1..n : st[k] \in Seq(Inside)
    /\ st[n + 1] \in Seq(Outside)

TaskOK(t) ==
    IF answer[t] = NoError THEN Stack(todo[t], Len(frames[t]))
    ELSE todo[t] = <<>> /\ frames[t] = <<>>

Statuses == {0, 200, 400, 404, 422, 500, 501}

ApiInv ==
    /\ DbTypeOK
    /\ DOMAIN todo = Task
    /\ error \in [Task -> Exceptions \cup {NoError}]
    /\ answer \in [Task -> [status : Statuses, json : BOOLEAN]]
    /\ \A t \in Task : TaskOK(t)
    /\ EveryErrorIsJson

-----------------------------------------------------------------------------
(* Sequences over a set. *)
LEMMA Sequences ==
    ASSUME NEW S
    PROVE  /\ <<>> \in Seq(S)
           /\ \A a \in S : <<a>> \in Seq(S)
           /\ \A a, b \in S : <<a, b>> \in Seq(S)
           /\ \A a, b \in Seq(S) : a \o b \in Seq(S)
           /\ \A T : S \subseteq T => Seq(S) \subseteq Seq(T)
<1>1. ASSUME NEW T, S \subseteq T, NEW s \in Seq(S) PROVE s \in Seq(T)
  BY <1>1
<1> QED BY <1>1

(* What runs outside of blocks and inside of them. *)
LEMMA LeavesAreSteps == Leaves \subseteq Inside /\ Leaves \subseteq Outside /\ Statements \subseteq Leaves
BY DEF Inside, Outside, Leaves

(* The blocks that a helper opens, with a connection or without. *)
LEMMA HelperSteps ==
    ASSUME NEW conn \in BOOLEAN, NEW s \in Statements
    PROVE  LET S == IF conn THEN Inside ELSE Outside IN
           /\ Ensure(conn, s) \in S /\ OrElse(Ensure(conn, s)) \in S
           /\ \A h \in Statements : With("ensure", conn, <<Ensure(TRUE, h), s>>) \in S
<1>1. /\ <<s>> \in Seq(Statements) /\ <<s>> \in Seq(Statements \cup Helpers)
      /\ <<s>> \in Seq(Inside)
  BY LeavesAreSteps, Sequences
<1>2. ASSUME NEW h \in Statements
      PROVE  /\ <<Ensure(TRUE, h), s>> \in Seq(Statements \cup Helpers)
             /\ <<Ensure(TRUE, h), s>> \in Seq(Inside)
  <2>1. <<h>> \in Seq(Statements) /\ <<h>> \in Seq(Statements \cup Helpers)
    BY Sequences
  <2>2. Ensure(TRUE, h) \in Helpers /\ Ensure(TRUE, h) \in Nested
    BY <2>1 DEF Ensure, With, Helpers, Nested, GivenTo
  <2>3. Ensure(TRUE, h) \in Inside /\ s \in Inside
    BY <2>2, LeavesAreSteps DEF Inside
  <2> QED BY <2>2, <2>3, Sequences
<1>3. CASE conn
  <2>1. ASSUME NEW body \in Seq(Statements \cup Helpers)
        PROVE  With("ensure", TRUE, body) \in Nested
    BY DEF With, Nested, GivenTo
  <2>2. \A h \in Nested : h \in Inside /\ OrElse(h) \in Inside
    BY DEF Inside, OrElse
  <2> QED BY <1>1, <1>2, <1>3, <2>1, <2>2 DEF Ensure
<1>4. CASE ~conn
  <2>1. ASSUME NEW body \in Seq(Inside)
        PROVE  With("ensure", FALSE, body) \in Openers
    BY DEF With, Openers, Blocks
  <2>2. \A h \in Openers : h \in Outside /\ OrElse(h) \in Outside
    BY DEF Outside, OrElse
  <2> QED BY <1>1, <1>2, <1>4, <2>1, <2>2 DEF Ensure
<1> QED BY <1>3, <1>4

(* The exceptions that a handler raises. *)
LEMMA ExceptionsAre ==
    /\ \A status \in {400, 404, 422, 500, 501} : Http(status) \in Exceptions
    /\ Failure \in Exceptions /\ [Failure EXCEPT !.json = TRUE] \in Exceptions
<1>1. ASSUME NEW status \in {400, 422} PROVE Http(status) \in Exceptions
  <2>1. Http(status) = [status |-> status, json |-> TRUE]
    BY DEF Http
  <2> QED BY <2>1 DEF Exceptions
<1>2. ASSUME NEW status \in {404, 500, 501} PROVE Http(status) \in Exceptions
  <2>1. (status \in {400, 422}) = FALSE
    OBVIOUS
  <2>2. Http(status) = [status |-> status, json |-> FALSE]
    BY <2>1, Zenon DEF Http
  <2> QED BY <2>2 DEF Exceptions
<1>3. Failure = [status |-> 500, json |-> FALSE]
  BY Zenon DEF Failure
<1>4. Failure \in [status : {404, 500, 501}, json : BOOLEAN]
  BY <1>3
<1>5. [Failure EXCEPT !.json = TRUE] \in [status : {404, 500, 501}, json : BOOLEAN]
  BY <1>4
<1>6. \A e \in [status : {404, 500, 501}, json : BOOLEAN] : e \in Exceptions
  BY Zenon DEF Exceptions
<1>7. \A status \in {400, 404, 422, 500, 501} : Http(status) \in Exceptions
  BY <1>1, <1>2
<1> QED BY <1>4, <1>5, <1>6, <1>7, Zenon

(* The checks of a handler. *)
LEMMA Checks ==
    ASSUME NEW q \in Request
    PROVE  /\ JsonData(q) \in Seq(Leaves) /\ Cleaned(q) \in Seq(Leaves)
           /\ GetFilters(q) \in Seq(Leaves) /\ InsertData(q) \in Seq(Leaves)
           /\ GetPagSearchFilters(q) \in Seq(Leaves) /\ Schema(q) \in Seq(Leaves)
           /\ Dump(q) \in Seq(Leaves)
           /\ Refuse(q, "list", 400) \in Seq(Leaves) /\ Refuse(q, "container", 500) \in Seq(Leaves)
<1>1. ASSUME NEW status \in {400, 404, 422, 500, 501} PROVE Raise(Http(status)) \in Leaves
  BY ExceptionsAre DEF Leaves, Raise
<1>2. ASSUME NEW what, NEW status \in {400, 404, 422, 500, 501}
      PROVE  Refuse(q, what, status) \in Seq(Leaves)
  BY <1>1, Sequences DEF Refuse
<1>3. \A a, b \in Seq(Leaves) : a \o b \in Seq(Leaves)
  BY Sequences
<1>4. /\ JsonData(q) \in Seq(Leaves) /\ Cleaned(q) \in Seq(Leaves) /\ GetFilters(q) \in Seq(Leaves)
      /\ GetPagSearchFilters(q) \in Seq(Leaves) /\ Schema(q) \in Seq(Leaves)
      /\ InsertData(q) \in Seq(Leaves)
  BY <1>2, <1>3 DEF JsonData, Schema, Path, Cleaned, InsertData, GetFilters, GetPagSearchFilters
<1>5. Dump(q) \in Seq(Leaves)
  BY <1>1, Sequences DEF Dump
<1> QED BY <1>2, <1>4, <1>5

(* The statements that the helpers of CrudDB execute. *)
LEMMA StatementSteps ==
    /\ \A f \in Filters : Select(f) \in Statements /\ Delete(f) \in Statements
    /\ \A f \in Filters, v \in Titles, e \in Exceptions : Update(f, v, e) \in Statements
    /\ \A v \in Titles, e \in Exceptions : Insert(<<v>>, e) \in Statements
    /\ \A v, w \in Titles, e \in Exceptions : Insert(<<v, w>>, e) \in Statements
    /\ Failure \in Exceptions /\ Http(422) \in Exceptions /\ Http(404) \in Exceptions
<1>1. \A f \in Filters : Select(f) \in Statements /\ Delete(f) \in Statements
  BY DEF Statements, Select, Delete
<1>2. \A f \in Filters, v \in Titles, e \in Exceptions : Update(f, v, e) \in Statements
  BY DEF Statements, Update
<1>3. ASSUME NEW s \in Seq(Titles), Len(s) \in 1..2, NEW e \in Exceptions
      PROVE  Insert(s, e) \in Statements
  BY <1>3 DEF Statements, Insert
<1>4. \A v, w \in Titles : /\ <<v>> \in Seq(Titles) /\ Len(<<v>>) \in 1..2
                           /\ <<v, w>> \in Seq(Titles) /\ Len(<<v, w>>) \in 1..2
  OBVIOUS
<1>5. Failure \in Exceptions /\ Http(422) \in Exceptions /\ Http(404) \in Exceptions
  BY ExceptionsAre
<1> QED BY <1>1, <1>2, <1>3, <1>4, <1>5

(* A method with the connection of a caller opens none of its own. *)
LEMMA MethodSteps ==
    ASSUME NEW q \in Request, NEW conn \in BOOLEAN
    PROVE  Method(q, conn) \in Seq(IF conn THEN Inside ELSE Outside)
<1> DEFINE S == IF conn THEN Inside ELSE Outside
<1>1. Leaves \subseteq S
  BY LeavesAreSteps
<1>2. \A s \in Statements :
        /\ <<Ensure(conn, s)>> \in Seq(S) /\ <<Ensure(conn, s), Found>> \in Seq(S)
        /\ \A h \in Statements : /\ <<With("ensure", conn, <<Ensure(TRUE, h), s>>)>> \in Seq(S)
                                 /\ <<Ensure(conn, s), OrElse(Ensure(conn, h))>> \in Seq(S)
  <2>1. Found \in S
    BY <1>1 DEF Leaves
  <2>2. ASSUME NEW s \in Statements
        PROVE  /\ Ensure(conn, s) \in S /\ OrElse(Ensure(conn, s)) \in S
               /\ \A h \in Statements : With("ensure", conn, <<Ensure(TRUE, h), s>>) \in S
    BY HelperSteps
  <2> HIDE DEF S
  <2> QED BY <2>1, <2>2, Sequences
<1>3. /\ JsonData(q) \in Seq(S) /\ Cleaned(q) \in Seq(S) /\ GetFilters(q) \in Seq(S)
      /\ InsertData(q) \in Seq(S) /\ Dump(q) \in Seq(S)
      /\ GetPagSearchFilters(q) \in Seq(S) /\ Schema(q) \in Seq(S)
      /\ Refuse(q, "list", 400) \in Seq(S) /\ Refuse(q, "container", 500) \in Seq(S)
  <2> HIDE DEF S
  <2>1. Seq(Leaves) \subseteq Seq(S)
    BY <1>1, Sequences
  <2> QED BY <2>1, Checks
<1>4. /\ q.title \in Titles /\ q.other \in Titles /\ q.id \in Ids
      /\ Everything \in Filters /\ ById(q.id) \in Filters /\ ByTitle(q.title) \in Filters
  BY DEF Request, Filters
<1>5. \A a, b \in Seq(S) : a \o b \in Seq(S)
  <2> HIDE DEF S
  <2> QED BY Sequences
<1>6. <<>> \in Seq(S) /\ <<Return(404)>> \in Seq(S)
  <2>1. Return(404) \in S
    BY <1>1 DEF Leaves, Return
  <2> HIDE DEF S
  <2> QED BY <2>1, Sequences
<1> HIDE DEF S
<1>7. GetList(q, conn) \in Seq(S)
  <2>1. <<DbPaginate(Everything, conn)>> \in Seq(S)
    BY <1>2, <1>4, StatementSteps DEF DbPaginate, DbCount
  <2> QED BY <2>1, <1>3, <1>5 DEF GetList
<1>8. CreateOne(q, conn) \in Seq(S)
  <2>1. <<Ensure(conn, Insert(<<q.title>>, Http(422)))>> \in Seq(S)
    BY <1>2, <1>4, StatementSteps
  <2>2. (IF conn THEN <<>> ELSE JsonData(q) \o InsertData(q)) \in Seq(S)
    BY <1>3, <1>5, <1>6
  <2> QED BY <2>1, <2>2, <1>3, <1>5 DEF CreateOne
<1>9. CreateList(q, conn) \in Seq(S)
  <2>1. <<DbInsert(<<q.title, q.other>>, conn)>> \in Seq(S)
    BY <1>2, <1>4, StatementSteps DEF DbInsert
  <2> QED BY <2>1, <1>3, <1>5 DEF CreateList
<1>10. GetOne(q, conn) \in Seq(S)
  <2>1. <<DbSelect(ById(q.id), conn), Found>> \in Seq(S)
    BY <1>2, <1>4, StatementSteps DEF DbSelect
  <2> QED BY <2>1, <1>3, <1>5 DEF GetOne
<1>11. UpdateOne(q, conn) \in Seq(S)
  <2>1. <<IF q.op = "touch" THEN DbSelect(ById(q.id), conn)
          ELSE DbUpdate(ById(q.id), q.title, Http(422), conn), Found>> \in Seq(S)
    BY <1>2, <1>4, StatementSteps DEF DbSelect, DbUpdate
  <2>2. (IF conn THEN <<>> ELSE JsonData(q) \o Cleaned(q)) \in Seq(S)
    BY <1>3, <1>5, <1>6
  <2> QED BY <2>1, <2>2, <1>3, <1>5 DEF UpdateOne
<1>12. DeleteOne(q, conn) \in Seq(S)
  <2>1. <<DbDelete(ById(q.id), conn), Found>> \in Seq(S)
    BY <1>2, <1>4, StatementSteps DEF DbDelete
  <2> QED BY <2>1, <1>3, <1>5 DEF DeleteOne
<1>13. DeleteList(q, conn) \in Seq(S)
  <2>1. <<DbDelete(Everything, conn)>> \in Seq(S)
    BY <1>2, <1>4, StatementSteps DEF DbDelete
  <2> QED BY <2>1, <1>3, <1>5 DEF DeleteList
<1>14. DbUpsert(q.title, conn) \in Seq(S)
  BY <1>2, <1>4, StatementSteps DEF DbUpsert, DbUpdate, DbInsert
<1>15. q.op \in {"get_list", "get", "create", "create_list", "update", "touch", "delete",
                 "delete_list", "upsert", "replace", "missing"}
  BY DEF Request
<1>16. CASE q.op \in {"get_list", "get", "create", "create_list"}
  BY <1>7, <1>8, <1>9, <1>10, <1>16 DEF Method, S
<1>17. CASE q.op \in {"update", "touch"}
  BY <1>11, <1>17 DEF Method, S
<1>18. CASE q.op \in {"delete", "delete_list", "upsert"}
  BY <1>12, <1>13, <1>14, <1>18 DEF Method, S
<1>19. CASE q.op = "replace"
  <2>1. Method(q, conn) = DeleteOne(q, conn) \o CreateOne(q, conn)
    BY <1>19 DEF Method
  <2> QED BY <2>1, <1>5, <1>8, <1>12 DEF S
<1>20. CASE q.op = "missing"
  BY <1>6, <1>20 DEF Method, S
<1> QED BY <1>15, <1>16, <1>17, <1>18, <1>19, <1>20

(* An endpoint opens at most one connection, in its outermost block. *)
LEMMA HandlerSteps ==
    ASSUME NEW q \in Request
    PROVE  Handler(q) \in Seq(Outside)
<1>1. CASE q.block = "none"
  BY <1>1, MethodSteps DEF Handler
<1>2. CASE q.block # "none"
  <2> DEFINE late == IF q.raises THEN <<Raise([Failure EXCEPT !.json = TRUE])>> ELSE <<>>
             body == Method(q, TRUE) \o late
             early == IF q.op \in {"create", "update", "delete", "replace"} THEN JsonData(q) ELSE <<>>
  <2>1. [Failure EXCEPT !.json = TRUE] \in Exceptions
    BY ExceptionsAre
  <2>2. Raise([Failure EXCEPT !.json = TRUE]) \in Inside
    BY <2>1, LeavesAreSteps DEF Leaves, Raise
  <2>3. late \in Seq(Inside)
    BY <2>2, Sequences
  <2>4. Method(q, TRUE) \in Seq(Inside)
    BY MethodSteps
  <2>5. body \in Seq(Inside)
    BY <2>3, <2>4, Sequences
  <2>6. q.block \in Blocks
    BY <1>2 DEF Request, Blocks
  <2>7. With(q.block, FALSE, body) \in Outside
    BY <2>5, <2>6 DEF Outside, Openers, With
  <2>8. early \in Seq(Outside)
    BY Checks, LeavesAreSteps, Sequences
  <2>9. <<With(q.block, FALSE, body)>> \in Seq(Outside)
    BY <2>7, Sequences
  <2>10. early \o <<With(q.block, FALSE, body)>> \in Seq(Outside)
    BY <2>8, <2>9, Sequences
  <2> QED BY <1>2, <2>10 DEF Handler
<1> QED BY <1>1, <1>2


-----------------------------------------------------------------------------
(* The innermost block of a handler, and what replaces, opens and ends it. *)
LEMMA StackTop ==
    ASSUME NEW n \in Nat, NEW st, Stack(st, n)
    PROVE  /\ st # <<>> /\ Head(st) = st[1] /\ Tail(st) \in Seq(Seq(Inside \cup Outside))
           /\ Len(Tail(st)) = n /\ \A k \in 1..n : Tail(st)[k] = st[k + 1]
           /\ Head(st) \in Seq(IF n = 0 THEN Outside ELSE Inside)
<1>1. st \in Seq(Seq(Inside \cup Outside)) /\ Len(st) = n + 1
  BY DEF Stack
<1>2. /\ st # <<>> /\ Head(st) = st[1] /\ Tail(st) \in Seq(Seq(Inside \cup Outside))
      /\ Len(Tail(st)) = n /\ \A k \in 1..n : Tail(st)[k] = st[k + 1]
  BY <1>1
<1>3. st[1] \in Seq(IF n = 0 THEN Outside ELSE Inside)
  <2>1. CASE n = 0
    BY <2>1 DEF Stack
  <2>2. CASE n # 0
    <3>1. 1 \in 1..n
      BY <2>2
    <3> QED BY <2>2, <3>1 DEF Stack
  <2> QED BY <2>1, <2>2
<1> QED BY <1>2, <1>3

(* A statement list on top of the lists of the blocks around it. *)
LEMMA Stacked ==
    ASSUME NEW n \in Nat, NEW st \in Seq(Seq(Inside \cup Outside)), Len(st) = n,
           NEW S, S = IF n = 0 THEN Outside ELSE Inside, NEW b \in Seq(S),
           \A k \in 1..(n - 1) : st[k] \in Seq(Inside), n > 0 => st[n] \in Seq(Outside)
    PROVE  Stack(<<b>> \o st, n)
<1>1. b \in Seq(Inside \cup Outside)
  BY Sequences
<1>2. <<b>> \in Seq(Seq(Inside \cup Outside)) /\ Len(<<b>>) = 1 /\ <<b>>[1] = b
  BY <1>1
<1> DEFINE new == <<b>> \o st
<1>3. new \in Seq(Seq(Inside \cup Outside)) /\ Len(new) = n + 1
  BY <1>2
<1>4. new[1] = b /\ \A k \in 1..n : new[k + 1] = st[k]
  BY <1>2, ConcatProperties
<1> HIDE DEF new
<1>5. ASSUME NEW k \in 1..n PROVE new[k] \in Seq(Inside)
  <2>1. CASE k = 1
    BY <1>4, <2>1
  <2>2. CASE k # 1
    <3>1. k - 1 \in 1..(n - 1) /\ k - 1 \in 1..n /\ (k - 1) + 1 = k
      BY <2>2
    <3>2. new[(k - 1) + 1] = st[k - 1] /\ st[k - 1] \in Seq(Inside)
      BY <1>4, <3>1
    <3> QED BY <3>1, <3>2
  <2> QED BY <2>1, <2>2
<1>6. new[n + 1] \in Seq(Outside)
  <2>1. CASE n = 0
    BY <1>4, <2>1
  <2>2. CASE n # 0
    BY <1>4, <2>2
  <2> QED BY <2>1, <2>2
<1> QED BY <1>3, <1>5, <1>6 DEF Stack, new

(* The innermost list moves on. *)
LEMMA StackReplaced ==
    ASSUME NEW n \in Nat, NEW st, Stack(st, n),
           NEW b \in Seq(IF n = 0 THEN Outside ELSE Inside)
    PROVE  Stack(<<b>> \o Tail(st), n)
<1>1. /\ Tail(st) \in Seq(Seq(Inside \cup Outside)) /\ Len(Tail(st)) = n
      /\ \A k \in 1..n : Tail(st)[k] = st[k + 1]
  BY StackTop
<1>2. ASSUME NEW k \in 1..(n - 1) PROVE Tail(st)[k] \in Seq(Inside)
  <2>1. k \in 1..n /\ k + 1 \in 1..n
    OBVIOUS
  <2> QED BY <1>1, <2>1 DEF Stack
<1>3. ASSUME n > 0 PROVE Tail(st)[n] \in Seq(Outside)
  <2>1. n \in 1..n
    BY <1>3
  <2> QED BY <1>1, <2>1 DEF Stack
<1> QED BY <1>1, <1>2, <1>3, Stacked

(* A block is entered: its list goes on top. *)
LEMMA StackPushed ==
    ASSUME NEW n \in Nat, NEW st, Stack(st, n), NEW b \in Seq(Inside)
    PROVE  Stack(<<b>> \o st, n + 1)
<1>1. n + 1 \in Nat /\ (n + 1) - 1 = n /\ n + 1 # 0 /\ n + 1 > 0
  OBVIOUS
<1>2. st \in Seq(Seq(Inside \cup Outside)) /\ Len(st) = n + 1
  BY DEF Stack
<1>3. (\A k \in 1..n : st[k] \in Seq(Inside)) /\ st[n + 1] \in Seq(Outside)
  BY DEF Stack
<1>4. b \in Seq(IF n + 1 = 0 THEN Outside ELSE Inside)
  BY <1>1
<1> QED BY <1>1, <1>2, <1>3, <1>4, Stacked

(* A block is left: its list is dropped. *)
LEMMA StackPopped ==
    ASSUME NEW n \in Nat \ {0}, NEW st, Stack(st, n)
    PROVE  Stack(Tail(st), n - 1)
<1>1. /\ Tail(st) \in Seq(Seq(Inside \cup Outside)) /\ Len(Tail(st)) = n
      /\ \A k \in 1..n : Tail(st)[k] = st[k + 1]
  BY StackTop
<1>2. ASSUME NEW k \in 1..(n - 1) PROVE Tail(st)[k] \in Seq(Inside)
  <2>1. k \in 1..n /\ k + 1 \in 1..n
    OBVIOUS
  <2> QED BY <1>1, <2>1 DEF Stack
<1>3. Tail(st)[n] \in Seq(Outside)
  <2>1. n \in 1..n
    OBVIOUS
  <2> QED BY <1>1, <2>1 DEF Stack
<1>4. (n - 1) + 1 = n
  OBVIOUS
<1> QED BY <1>1, <1>2, <1>3, <1>4 DEF Stack

(* What a step of each kind holds. *)
LEMMA StepKinds ==
    /\ \A s \in Inside : s.do = "with" =>
          s.block = "ensure" /\ s.given = TRUE /\ s.body \in Seq(Inside)
    /\ \A s \in Outside : s.do = "with" =>
          s.block \in Blocks /\ s.given = FALSE /\ s.body \in Seq(Inside)
    /\ \A s \in Inside : s.do = "orelse" => s.step \in Inside
    /\ \A s \in Outside : s.do = "orelse" => s.step \in Outside
    /\ \A s \in Inside \cup Outside :
          /\ s.do = "raise" => s.error \in Exceptions
          /\ s.do = "return" => s.status = 404
          /\ IsStatement(s) => s \in Statements
<1>1. Statements \cup Helpers \subseteq Inside
  <2>1. Helpers \subseteq Nested
    <3>1. Seq(Statements) \subseteq Seq(Statements \cup Helpers)
      BY Sequences
    <3> QED BY <3>1 DEF Helpers, Nested, GivenTo
  <2> QED BY <2>1 DEF Inside, Leaves
<1>2. \A s \in Nested : s.do = "with" /\ s.block = "ensure" /\ s.given = TRUE /\ s.body \in Seq(Inside)
  <2>1. Seq(Statements \cup Helpers) \subseteq Seq(Inside)
    BY <1>1, Sequences
  <2> QED BY <2>1 DEF Nested, GivenTo
<1>3. \A s \in Openers : s.do = "with" /\ s.block \in Blocks /\ s.given = FALSE /\ s.body \in Seq(Inside)
  BY DEF Openers
<1>4. \A s \in Statements : s.do \in {"select", "insert", "update", "delete"}
  BY DEF Statements
<1>5. \A s \in Leaves :
        /\ s \in Statements \/ s.do \in {"raise", "found", "return"}
        /\ s.do = "raise" => s.error \in Exceptions
        /\ s.do = "return" => s.status = 404
  BY <1>4 DEF Leaves, Found
<1>6. \A s \in Inside : s \in Leaves \/ s \in Nested \/ (s.do = "orelse" /\ s.step \in Nested)
  BY DEF Inside
<1>7. \A s \in Outside : s \in Leaves \/ s \in Openers \/ (s.do = "orelse" /\ s.step \in Openers)
  BY DEF Outside
<1>8. Nested \subseteq Inside /\ Openers \subseteq Outside
  BY DEF Inside, Outside
<1> QED BY <1>2, <1>3, <1>4, <1>5, <1>6, <1>7, <1>8 DEF IsStatement

(* A statement writes rows, and titles to them. *)
LEMMA WrittenType ==
    ASSUME DbTypeOK, NEW t \in Task, NEW s \in Statements
    PROVE  \E S \in SUBSET Ids : Written(t, s) \in [S -> Titles \cup {None}]
<1> DEFINE found == {i \in Ids : Matches(s.filter, i, View(Current(t))[i])}
           new == {<<t, n>> : n \in DOMAIN s.titles}
<1>1. CASE s.do = "select"
  <2>1. Written(t, s) = [i \in {} |-> None]
    BY <1>1 DEF Written
  <2>2. Written(t, s) \in [{} -> Titles \cup {None}]
    BY <2>1
  <2> QED BY <2>2
<1>2. CASE s.do = "update"
  <2>1. s.title \in Titles
    BY <1>2 DEF Statements
  <2>2. Written(t, s) = [i \in found |-> s.title]
    BY <1>2 DEF Written
  <2>3. found \in SUBSET Ids
    OBVIOUS
  <2> HIDE DEF found
  <2> QED BY <2>1, <2>2, <2>3
<1>3. CASE s.do = "delete"
  <2>1. Written(t, s) = [i \in found |-> None]
    BY <1>3 DEF Written
  <2>2. found \in SUBSET Ids
    OBVIOUS
  <2> HIDE DEF found
  <2> QED BY <2>1, <2>2
<1>4. CASE s.do = "insert"
  <2>1. s.titles \in Seq(Titles) /\ Len(s.titles) \in 1..2
    BY <1>4 DEF Statements
  <2>2. \A n \in DOMAIN s.titles : n \in {1, 2} /\ s.titles[n] \in Titles
    BY <2>1
  <2>3. \A i \in new : i \in Ids /\ s.titles[i[2]] \in Titles
    BY <2>2, ApiAssumption
  <2>4. Written(t, s) = [i \in new |-> s.titles[i[2]]]
    BY <1>4 DEF Written
  <2>5. new \in SUBSET Ids
    BY <2>3
  <2> HIDE DEF new
  <2> QED BY <2>3, <2>4, <2>5
<1>5. s.do \in {"select", "insert", "update", "delete"}
  BY DEF Statements
<1> QED BY <1>1, <1>2, <1>3, <1>4, <1>5

-----------------------------------------------------------------------------
(* The block that a task is in gives the step that it is at its kind. *)
LEMMA StepOf ==
    ASSUME ApiInv, NEW t \in Task, Running(t)
    PROVE  /\ Stack(todo[t], Len(frames[t])) /\ Len(frames[t]) \in Nat
           /\ Step(t) \in IF frames[t] = <<>> THEN Outside ELSE Inside
           /\ Tail(Head(todo[t])) \in Seq(IF Len(frames[t]) = 0 THEN Outside ELSE Inside)
<1>1. Stack(todo[t], Len(frames[t])) /\ frames[t] \in Seq(Frame)
  BY DEF ApiInv, TaskOK, Running, DbTypeOK
<1>2. Len(frames[t]) \in Nat /\ (frames[t] = <<>> <=> Len(frames[t]) = 0)
  BY <1>1
<1>3. Head(todo[t]) \in Seq(IF Len(frames[t]) = 0 THEN Outside ELSE Inside) /\ Head(todo[t]) # <<>>
  BY <1>1, <1>2, StackTop DEF Running
<1>4. \A S : Head(todo[t]) \in Seq(S) => Head(Head(todo[t])) \in S /\ Tail(Head(todo[t])) \in Seq(S)
  BY <1>3
<1> QED BY <1>1, <1>2, <1>3, <1>4 DEF Step

(* Whatever the tasks and the server do next is a use of the Database that *)
(* any application may make.                                               *)
LEMMA UsesDatabase == ApiInv /\ [Next]_vars => [DbNext]_dbVars
<1> SUFFICES ASSUME ApiInv, [Next]_vars PROVE [DbNext]_dbVars
  OBVIOUS
<1>1. ASSUME NEW t \in Task, EnterBlock(t) PROVE DbNext
  <2>1. /\ Running(t) /\ Step(t).do = "with"
        /\ CASE Step(t).block = "connection" -> Connection(t)
             [] Step(t).block = "transaction" -> Transaction(t)
             [] Step(t).block = "ensure" -> EnsureTransaction(t, Step(t).given)
    BY <1>1 DEF EnterBlock
  <2>2. Step(t).block \in Blocks /\ Step(t).given \in BOOLEAN
    BY <2>1, StepOf, StepKinds DEF Blocks
  <2>3. \/ Connection(t) \/ Transaction(t)
        \/ EnsureTransaction(t, Step(t).given)
    BY <2>1, <2>2 DEF Blocks
  <2> QED BY <2>2, <2>3, Zenon DEF DbNext
<1>2. ASSUME NEW t \in Task, Statement(t) PROVE DbNext
  <2>1. Running(t) /\ IsStatement(Step(t)) /\ Execute(t, Written(t, Step(t)))
    BY <1>2 DEF Statement, AtStatement
  <2>2. Step(t) \in Statements
    BY <2>1, StepOf, StepKinds
  <2>3. \E S \in SUBSET Ids : Written(t, Step(t)) \in [S -> Titles \cup {None}]
    BY <2>2, WrittenType DEF ApiInv
  <2> QED BY <2>1, <2>3, Zenon DEF DbNext
<1>3. ASSUME NEW t \in Task, LeaveBlock(t) PROVE DbNext
  <2>1. Leave(t, error[t] = NoError)
    BY <1>3 DEF LeaveBlock
  <2>2. (error[t] = NoError) \in BOOLEAN
    OBVIOUS
  <2> QED BY <2>1, <2>2, Zenon DEF DbNext
<1>7. ASSUME NEW t \in Task, CommitFails(t) PROVE DbNext
  <2>1. \E ok \in BOOLEAN : Leave(t, ok)
    <3>1. Leave(t, FALSE)
      BY <1>7 DEF CommitFails
    <3> QED BY <3>1
  <2> QED BY <2>1, Zenon DEF DbNext
<1>8. ASSUME NEW t \in Task, ConnectFails(t) PROVE DbNext
  BY <1>8 DEF ConnectFails, DbNext
<1>4. ASSUME NEW t \in Task, UniqueViolation(t) \/ StatementFails(t) \/ Local(t) \/ Answer(t)
      PROVE  UNCHANGED dbVars
  BY <1>4 DEF UniqueViolation, StatementFails, Local, Answer
<1>5. CASE Shutdown
  BY <1>5 DEF Shutdown, DbNext
<1>6. CASE UNCHANGED vars
  BY <1>6 DEF vars
<1> QED BY <1>1, <1>2, <1>3, <1>4, <1>5, <1>6, <1>7, <1>8 DEF Next

(* A block that is entered is one more, and no business of other tasks. *)
LEMMA Entered ==
    ASSUME DbTypeOK, DbTypeOK', NEW t \in Task,
           Connection(t) \/ Transaction(t) \/ \E given \in BOOLEAN : EnsureTransaction(t, given)
    PROVE  /\ Len(frames'[t]) = Len(frames[t]) + 1
           /\ \A o \in Task \ {t} : frames'[o] = frames[o]
<1>1. PICK frame : frames' = [frames EXCEPT ![t] = Append(@, frame)]
  BY DEF Connection, Transaction, EnsureTransaction, Checkout, Enter
<1>2. /\ frames'[t] = Append(frames[t], frame) /\ frames[t] \in Seq(Frame)
      /\ \A o \in Task \ {t} : frames'[o] = frames[o]
  BY <1>1 DEF DbTypeOK
<1>3. Len(Append(frames[t], frame)) = Len(frames[t]) + 1
  BY <1>2
<1> QED BY <1>2, <1>3

(* JsonError leaves an exception its status, and what it answers is JSON. *)
LEMMA JsonErrorIs ==
    ASSUME NEW e \in Exceptions
    PROVE  /\ JsonError(e) \in [status : {400, 404, 422, 500, 501}, json : BOOLEAN]
           /\ JsonError(e).status = e.status
           /\ e.status # 501 => JsonError(e).json
<1>1. /\ e \in [status : {400, 404, 422, 500, 501}, json : BOOLEAN]
      /\ e.status \in {400, 422} => e.json
  <2>1. CASE e \in [status : {400, 422}, json : {TRUE}]
    <3>1. e.json = TRUE /\ e \in [status : {400, 404, 422, 500, 501}, json : BOOLEAN]
      BY <2>1
    <3> QED BY <3>1
  <2>2. CASE e \in [status : {404, 500, 501}, json : BOOLEAN]
    BY <2>2
  <2> QED BY <2>1, <2>2 DEF Exceptions
<1> DEFINE known == e.json \/ e.status \in StatusCodes
<1>2. JsonError(e) = [e EXCEPT !.json = known] /\ known \in BOOLEAN
  BY Zenon DEF JsonError
<1>3. e.status # 501 => known
  BY <1>1, ApiAssumption
<1>4. ASSUME NEW b \in BOOLEAN
      PROVE  [e EXCEPT !.json = b] \in [status : {400, 404, 422, 500, 501}, json : BOOLEAN]
  BY <1>1
<1>5. ASSUME NEW b PROVE [e EXCEPT !.json = b].status = e.status
  BY <1>1
<1>6. ASSUME NEW b PROVE [e EXCEPT !.json = b].json = b
  BY <1>1
<1> HIDE DEF known
<1>7. JsonError(e).status = e.status /\ JsonError(e).json = known
  BY <1>2, <1>5, <1>6, Zenon
<1>8. JsonError(e) \in [status : {400, 404, 422, 500, 501}, json : BOOLEAN]
  <2> DEFINE R == [status : {400, 404, 422, 500, 501}, json : BOOLEAN]
  <2>1. \A b \in BOOLEAN : [e EXCEPT !.json = b] \in R
    BY <1>4
  <2> HIDE DEF R
  <2>2. [e EXCEPT !.json = known] \in R
    BY <1>2, <2>1, Zenon
  <2>3. JsonError(e) \in R
    BY <1>2, <2>2, Zenon
  <2> QED BY <2>3 DEF R
<1> QED BY <1>3, <1>7, <1>8, Zenon

(* The task that takes a step keeps what it has left to do in order, and *)
(* no other task is concerned.                                             *)
LEMMA ApiStep == ApiInv /\ [Next]_vars => ApiInv'
<1> SUFFICES ASSUME ApiInv, [Next]_vars PROVE ApiInv'
  OBVIOUS
<1>1. DbTypeOK /\ DbTypeOK'
  BY UsesDatabase, DbTypeStep DEF ApiInv
<1>2. /\ DOMAIN todo = Task
      /\ error \in [Task -> Exceptions \cup {NoError}]
      /\ answer \in [Task -> [status : Statuses, json : BOOLEAN]]
      /\ \A t \in Task : TaskOK(t)
      /\ EveryErrorIsJson
  BY DEF ApiInv
<1>3. ASSUME answer' = answer PROVE EveryErrorIsJson'
  BY <1>2, <1>3 DEF EveryErrorIsJson
<1>4. ASSUME NEW t \in Task, answer' = answer, answer[t] = NoError,
             NEW left, todo' = [todo EXCEPT ![t] = left],
             Stack(left, Len(frames'[t])), \A o \in Task \ {t} : frames'[o] = frames[o],
             error' \in [Task -> Exceptions \cup {NoError}]
      PROVE  ApiInv'
  <2>1. DOMAIN todo' = Task /\ todo'[t] = left /\ \A o \in Task \ {t} : todo'[o] = todo[o]
    BY <1>2, <1>4
  <2>2. \A o \in Task : TaskOK(o)'
    BY <1>2, <1>4, <2>1 DEF TaskOK
  <2> QED BY <1>1, <1>2, <1>3, <1>4, <2>1, <2>2 DEF ApiInv
<1>5. ASSUME NEW t \in Task, Running(t), NEW left, todo' = [todo EXCEPT ![t] = <<left>> \o Tail(todo[t])],
             left \in Seq(IF Len(frames[t]) = 0 THEN Outside ELSE Inside),
             UNCHANGED <<frames, answer, error>>
      PROVE  ApiInv'
  <2>1. Stack(<<left>> \o Tail(todo[t]), Len(frames[t]))
    BY <1>5, StepOf, StackReplaced
  <2>2. answer[t] = NoError
    BY <1>5 DEF Running
  <2> QED BY <1>2, <1>4, <1>5, <2>1, <2>2
<1>6. ASSUME NEW t \in Task, EnterBlock(t) PROVE ApiInv'
  <2>1. /\ Running(t) /\ Step(t).do = "with"
        /\ CASE Step(t).block = "connection" -> Connection(t)
             [] Step(t).block = "transaction" -> Transaction(t)
             [] Step(t).block = "ensure" -> EnsureTransaction(t, Step(t).given)
        /\ todo' = [todo EXCEPT ![t] = <<Step(t).body>> \o Rest(t)]
        /\ UNCHANGED <<error, answer>>
    BY <1>6 DEF EnterBlock
  <2>2. Step(t).block \in Blocks /\ Step(t).given \in BOOLEAN
    BY <2>1, StepOf, StepKinds DEF Blocks
  <2>8. Step(t).body \in Seq(Inside)
    BY <2>1, StepOf, StepKinds
  <2>3. Connection(t) \/ Transaction(t) \/ \E given \in BOOLEAN : EnsureTransaction(t, given)
    BY <2>1, <2>2 DEF Blocks
  <2>4. Len(frames'[t]) = Len(frames[t]) + 1 /\ \A o \in Task \ {t} : frames'[o] = frames[o]
    BY <1>1, <2>3, Entered
  <2>5. Stack(Rest(t), Len(frames[t]))
    BY <2>1, StepOf, StackReplaced DEF Rest
  <2>6. Stack(<<Step(t).body>> \o Rest(t), Len(frames'[t]))
    BY <2>1, <2>4, <2>5, <2>8, StepOf, StackPushed
  <2>7. answer[t] = NoError
    BY <2>1 DEF Running
  <2> QED BY <1>2, <1>4, <2>1, <2>4, <2>6, <2>7
<1>7. ASSUME NEW t \in Task, Statement(t) PROVE ApiInv'
  <2>1. /\ Running(t) /\ todo' = [todo EXCEPT ![t] = <<Tail(Head(todo[t]))>> \o Tail(todo[t])]
        /\ UNCHANGED <<frames, answer, error>>
    BY <1>7 DEF Statement, AtStatement, Execute, Next1, Rest
  <2> QED BY <1>5, <2>1, StepOf
<1>8. ASSUME NEW t \in Task, NEW e \in Exceptions, Raises(t, e), UNCHANGED frames PROVE ApiInv'
  <2>1. error' = [error EXCEPT ![t] = e] /\ UNCHANGED <<frames, todo, answer>>
    BY <1>8 DEF Raises
  <2>2. \A o \in Task : TaskOK(o)'
    BY <1>2, <2>1 DEF TaskOK
  <2> QED BY <1>1, <1>2, <1>3, <2>1, <2>2 DEF ApiInv
<1>9. ASSUME NEW t \in Task, UniqueViolation(t) PROVE ApiInv'
  <2>1. Running(t) /\ Step(t).do \in {"insert", "update"} /\ Raises(t, Step(t).unique) /\ UNCHANGED frames
    BY <1>9 DEF UniqueViolation, AtStatement, dbVars
  <2>2. Step(t) \in Statements
    BY <2>1, StepOf, StepKinds DEF IsStatement
  <2>3. Step(t).unique \in Exceptions
    BY <2>1, <2>2 DEF Statements
  <2> QED BY <1>8, <2>1, <2>3
<1>10. ASSUME NEW t \in Task, StatementFails(t) PROVE ApiInv'
  BY <1>8, <1>10, ExceptionsAre DEF StatementFails, dbVars
<1>15. ASSUME NEW t \in Task, ConnectFails(t) PROVE ApiInv'
  BY <1>8, <1>15, ExceptionsAre DEF ConnectFails, NoConnection
<1>11. ASSUME NEW t \in Task, Local(t) PROVE ApiInv'
  <2>1. Running(t) /\ UNCHANGED dbVars /\ frames' = frames
    BY <1>11 DEF Local, dbVars
  <2>2. CASE Step(t).do = "raise" /\ Raises(t, Step(t).error)
    <3>1. Step(t).error \in Exceptions
      BY <2>1, <2>2, StepOf, StepKinds
    <3> QED BY <1>8, <2>1, <2>2, <3>1
  <2>3. CASE Raises(t, Http(404))
    BY <1>8, <2>1, <2>3, ExceptionsAre
  <2>4. CASE Next1(t) /\ UNCHANGED <<req, rows, error, applied, answer>>
    <3>1. todo' = [todo EXCEPT ![t] = <<Tail(Head(todo[t]))>> \o Tail(todo[t])]
      BY <2>4 DEF Next1, Rest
    <3> QED BY <1>5, <2>1, <2>4, <3>1, StepOf
  <2>5. CASE /\ Step(t).do = "orelse"
             /\ todo' = [todo EXCEPT ![t] =
                   <<(IF rows[t] = {} THEN <<Step(t).step>> ELSE <<>>) \o Tail(Head(@))>> \o Tail(@)]
             /\ UNCHANGED <<req, rows, error, applied, answer>>
    <3> DEFINE S == IF Len(frames[t]) = 0 THEN Outside ELSE Inside
               more == IF rows[t] = {} THEN <<Step(t).step>> ELSE <<>>
    <3>1. frames[t] = <<>> <=> Len(frames[t]) = 0
      BY <1>1 DEF DbTypeOK
    <3>2. Step(t).step \in S
      BY <2>1, <2>5, <3>1, StepOf, StepKinds
    <3>3. Tail(Head(todo[t])) \in Seq(S)
      BY <2>1, StepOf
    <3>4. more \o Tail(Head(todo[t])) \in Seq(S)
      <4> HIDE DEF S
      <4>1. <<Step(t).step>> \in Seq(S) /\ <<>> \in Seq(S)
        BY <3>2, Sequences
      <4> QED BY <3>3, <4>1, Sequences
    <3>5. todo' = [todo EXCEPT ![t] = <<more \o Tail(Head(todo[t]))>> \o Tail(todo[t])]
      BY <2>5, <1>2
    <3> QED BY <1>5, <2>1, <2>5, <3>4, <3>5
  <2> QED BY <1>11, <2>2, <2>3, <2>4, <2>5 DEF Local
<1>12. ASSUME NEW t \in Task, LeaveBlock(t) \/ CommitFails(t) PROVE ApiInv'
  <2>1. /\ answer[t] = NoError /\ frames[t] # <<>>
        /\ frames' = [frames EXCEPT ![t] = SubSeq(@, 1, Len(@) - 1)]
        /\ todo' = [todo EXCEPT ![t] = Tail(todo[t])]
        /\ answer' = answer
    BY <1>2, <1>12 DEF LeaveBlock, CommitFails, Leave
  <2>7. error' \in [Task -> Exceptions \cup {NoError}]
    BY <1>2, <1>12, ExceptionsAre DEF LeaveBlock, CommitFails
  <2>2. frames[t] \in Seq(Frame) /\ Len(frames[t]) \in Nat \ {0}
    BY <1>1, <2>1 DEF DbTypeOK
  <2>3. /\ frames'[t] = SubSeq(frames[t], 1, Len(frames[t]) - 1)
        /\ \A o \in Task \ {t} : frames'[o] = frames[o]
    BY <1>1, <2>1 DEF DbTypeOK
  <2>4. Len(frames'[t]) = Len(frames[t]) - 1
    BY <2>1, <2>2, <2>3, FramesLeft
  <2>5. Stack(todo[t], Len(frames[t]))
    BY <1>2, <2>1 DEF TaskOK
  <2>6. Stack(Tail(todo[t]), Len(frames'[t]))
    BY <2>2, <2>4, <2>5, StackPopped
  <2> QED BY <1>4, <2>1, <2>3, <2>6, <2>7
<1>13. ASSUME NEW t \in Task, Answer(t) PROVE ApiInv'
  <2> DEFINE a == IF error[t] # NoError THEN JsonError(error[t]) ELSE Response(t)
  <2>1. /\ answer[t] = NoError /\ frames[t] = <<>>
        /\ error[t] = NoError /\ Head(todo[t]) # <<>> => Step(t).do = "return"
        /\ answer' = [answer EXCEPT ![t] = a] /\ todo' = [todo EXCEPT ![t] = <<>>]
        /\ UNCHANGED <<frames, error>>
    BY <1>13 DEF Answer, dbVars
  <2>2. /\ a \in [status : {200, 400, 404, 422, 500, 501}, json : BOOLEAN]
        /\ a.status >= 400 /\ a.status # 501 => a.json
    <3>1. CASE error[t] # NoError
      <4>1. error[t] \in Exceptions
        BY <1>2, <3>1
      <4> QED BY <3>1, <4>1, JsonErrorIs
    <3>2. CASE error[t] = NoError
      <4> DEFINE status == IF Head(todo[t]) = <<>> THEN 200 ELSE Step(t).status
      <4>1. status \in {200, 404}
        <5>1. CASE Head(todo[t]) # <<>>
          <6>1. todo[t] # <<>>
            <7>1. Stack(todo[t], Len(frames[t])) /\ Len(frames[t]) \in Nat
              BY <1>1, <1>2, <2>1 DEF TaskOK, DbTypeOK
            <7> QED BY <7>1, StackTop
          <6>2. Running(t)
            BY <2>1, <3>2, <5>1, <6>1 DEF Running
          <6> QED BY <2>1, <3>2, <5>1, <6>2, StepOf, StepKinds
        <5> QED BY <5>1
      <4>2. a = IF status \in StatusCodes THEN JsonError(Failure) ELSE [status |-> status, json |-> TRUE]
        BY <3>2 DEF Response
      <4>3. /\ JsonError(Failure) \in [status : {400, 404, 422, 500, 501}, json : BOOLEAN]
            /\ JsonError(Failure).status = 500 /\ JsonError(Failure).json
        BY JsonErrorIs, ExceptionsAre DEF Failure
      <4> HIDE DEF status, a
      <4> QED BY <4>1, <4>2, <4>3
    <3> QED BY <3>1, <3>2
  <2>3. a # NoError /\ a \in [status : Statuses, json : BOOLEAN]
    <3> HIDE DEF a
    <3>1. NoError.status = 0
      BY DEF NoError
    <3> QED BY <2>2, <3>1 DEF Statuses
  <2> HIDE DEF a
  <2>4. answer'[t] = a /\ todo'[t] = <<>> /\ DOMAIN todo' = Task
    BY <1>2, <2>1
  <2>5. \A o \in Task \ {t} : answer'[o] = answer[o] /\ todo'[o] = todo[o]
    BY <1>2, <2>1
  <2>6. \A o \in Task : TaskOK(o)'
    BY <1>2, <2>1, <2>3, <2>4, <2>5 DEF TaskOK
  <2>7. EveryErrorIsJson'
    BY <1>2, <2>2, <2>4, <2>5 DEF EveryErrorIsJson
  <2>8. answer' \in [Task -> [status : Statuses, json : BOOLEAN]]
    BY <1>2, <2>1, <2>3
  <2> QED BY <1>1, <1>2, <2>1, <2>4, <2>6, <2>7, <2>8 DEF ApiInv
<1>14. CASE Shutdown \/ UNCHANGED vars
  <2>1. UNCHANGED <<frames, todo, error, answer>>
    BY <1>14 DEF Shutdown, Close, vars, apiVars, dbVars
  <2>2. \A o \in Task : TaskOK(o)'
    BY <1>2, <2>1 DEF TaskOK
  <2> QED BY <1>1, <1>2, <1>3, <2>1, <2>2 DEF ApiInv
<1> QED BY <1>6, <1>7, <1>9, <1>10, <1>11, <1>12, <1>13, <1>14, <1>15 DEF Next

(* What is left of every handler, for any tasks, requests and interleaving *)
(* of their steps with each other and with shutdown: a task that is in     *)
(* blocks has nothing left inside of them that opens a connection.         *)
THEOREM ApiInvariant == Spec => []ApiInv
<1>1. Init => DbTypeOK
  BY DatabaseAssumption DEF Init, DbTypeOK, NoWrites, Conn, Frame
<1>2. ApiInit => ApiInv
  <2> SUFFICES ASSUME ApiInit PROVE ApiInv
    OBVIOUS
  <2>1. Init /\ todo = [t \in Task |-> <<Handler(req[t])>>] /\ req \in [Task -> Requests]
        /\ error = [t \in Task |-> NoError] /\ answer = [t \in Task |-> NoError]
    BY DEF ApiInit
  <2>2. DbTypeOK
    BY <1>1, <2>1
  <2>3. ASSUME NEW t \in Task PROVE TaskOK(t)
    <3>1. Handler(req[t]) \in Seq(Outside)
      BY <2>1, HandlerSteps, ApiAssumption
    <3>2. frames[t] = <<>> /\ Len(frames[t]) = 0
      BY <2>1 DEF Init
    <3>3. <<Handler(req[t])>> \in Seq(Seq(Inside \cup Outside))
      BY <3>1, Sequences
    <3>4. Stack(<<Handler(req[t])>>, 0)
      BY <3>1, <3>3 DEF Stack
    <3> QED BY <2>1, <3>2, <3>4 DEF TaskOK
  <2>4. NoError \in [status : Statuses, json : BOOLEAN] /\ NoError.status = 0
    BY DEF NoError, Statuses
  <2>5. EveryErrorIsJson
    BY <2>1, <2>4 DEF EveryErrorIsJson
  <2> QED BY <2>1, <2>2, <2>3, <2>4, <2>5 DEF ApiInv
<1> QED BY <1>2, ApiStep, PTL DEF Spec

(* The endpoints use their Database as any application may, so that what   *)
(* is proved of it in Database_proofs holds under them.                    *)
THEOREM EndpointsUseDatabase == Spec => DbSpec
<1>1. ApiInit => Init
  BY DEF ApiInit
<1> QED BY <1>1, ApiInvariant, UsesDatabase, PTL DEF Spec, DbSpec

(* A task that waits for the pool holds no connection: the helpers pass on *)
(* the one they are given (dbmodel.py, path.py).                           *)
THEOREM WaitingTasksHoldNothing == Spec => []WaitsHoldNothing
<1>1. ApiInv => WaitsHoldNothing
  <2> SUFFICES ASSUME ApiInv, NEW t \in Task, NeedsConnection(t)
               PROVE  \A i \in DOMAIN frames[t] : ~frames[t][i].opened
    BY DEF WaitsHoldNothing
  <2>1. Running(t) /\ Step(t).do = "with" /\ ~(Step(t).block = "ensure" /\ Step(t).given)
    BY DEF NeedsConnection
  <2>2. frames[t] = <<>>
    BY <2>1, StepOf, StepKinds
  <2> QED BY <2>2
<1> QED BY <1>1, ApiInvariant, PTL

(* Whatever a handler raises or returns, and whatever goes wrong in the    *)
(* database, the client gets an error as JSON (middleware.py).             *)
THEOREM ErrorsAreJson == Spec => []EveryErrorIsJson
<1>1. ApiInv => EveryErrorIsJson
  BY DEF ApiInv
<1> QED BY <1>1, ApiInvariant, PTL

(* The promises of Database, for the endpoints on top of it. *)
THEOREM DatabaseUnderEndpoints ==
    Spec => [](DbTypeOK /\ BlocksOwnWhatTheyOpened /\ OneEngine /\ Isolated) /\ CallerDecides
BY EndpointsUseDatabase, DbTypeCorrect, BlocksOwn, OneEngineAtATime, CallerHasTheLastWord,
   TitlesStayUnique, PTL

-----------------------------------------------------------------------------
(* The requests that write. *)
Writers == {"create", "create_list", "update", "delete", "delete_list", "upsert", "replace"}
(* What StoreAssumption says of the requests, and of their rows. *)
WholeRequests ==
    \A q \in Requests :
        /\ q.op = "replace" => q.block = "transaction"
        /\ q.op \in Writers /\ q.block = "connection" => ~q.raises
FreshRows == \A t \in Task, n \in {1, 2} : Initial[<<t, n>>] = None

-----------------------------------------------------------------------------
(* What is left of the method of a request that writes, at the points      *)
(* between its helpers: before the first of them, after it, before the     *)
(* second, and after that.                                                 *)
Helper(q, s) == Ensure(q.block # "none", s)
First(q) ==
    CASE q.op = "create" -> Insert(<<q.title>>, Http(422))
      [] q.op = "create_list" -> Insert(<<q.title, q.other>>, Failure)
      [] q.op = "update" -> Update(ById(q.id), q.title, Http(422))
      [] q.op \in {"delete", "replace"} -> Delete(ById(q.id))
      [] q.op = "delete_list" -> Delete(Everything)
      [] q.op = "upsert" -> Update(ByTitle(q.title), q.title, Failure)
Second(q) == Insert(<<q.title>>, IF q.op = "upsert" THEN Failure ELSE Http(422))

Late(q) == IF q.block # "none" /\ q.raises THEN <<Raise([Failure EXCEPT !.json = TRUE])>> ELSE <<>>
End(q) ==
    (IF q.op \in {"create", "create_list", "update", "replace"} THEN Dump(q) ELSE <<>>) \o Late(q)
SecondLine(q) == <<Helper(q, Second(q))>> \o End(q)
RanLine(q) ==
    CASE q.op \in {"create", "create_list", "delete_list"} -> End(q)
      [] q.op \in {"update", "delete"} -> <<Found>> \o End(q)
      [] q.op = "upsert" -> <<OrElse(Helper(q, Second(q)))>> \o End(q)
      [] q.op = "replace" -> <<Found>> \o SecondLine(q)
StartLine(q) == <<Helper(q, First(q))>> \o RanLine(q)
Refused(line) == line # <<>> /\ Head(line).do = "raise"

Steps == Inside \cup Outside

(* The open blocks of such a task: that of its endpoint, when it has one,  *)
(* has nothing left but the method.                                        *)
One(q, b) == IF q.block = "none" THEN <<b>> ELSE <<b, <<>>>>
Two(q, b, c) == IF q.block = "none" THEN <<b, c>> ELSE <<b, c, <<>>>>

-----------------------------------------------------------------------------
(* A step put before a line. *)
LEMMA Pushing ==
    ASSUME NEW S, NEW x \in S, NEW s \in Seq(S)
    PROVE  /\ <<x>> \o s \in Seq(S) /\ <<x>> \o s # <<>>
           /\ Head(<<x>> \o s) = x /\ Tail(<<x>> \o s) = s
<1>1. <<x>> \in Seq(S) /\ Len(<<x>>) = 1 /\ <<x>>[1] = x
  OBVIOUS
<1> DEFINE new == <<x>> \o s
<1>2. new \in Seq(S) /\ Len(new) = Len(s) + 1 /\ Len(s) \in Nat
  BY <1>1
<1>3. new[1] = x /\ \A i \in 1..Len(s) : new[i + 1] = s[i]
  BY <1>1, ConcatProperties
<1> HIDE DEF new
<1>4. new # <<>> /\ Head(new) = x /\ Tail(new) \in Seq(S) /\ Len(Tail(new)) = Len(s)
  BY <1>2, <1>3
<1>5. \A i \in 1..Len(s) : Tail(new)[i] = new[i + 1]
  BY <1>2
<1>6. Tail(new) = s
  <2>1. \A a, b \in Seq(S) : Len(a) = Len(b) /\ (\A i \in 1..Len(a) : a[i] = b[i]) => a = b
    OBVIOUS
  <2> QED BY <1>3, <1>4, <1>5, <2>1
<1> QED BY <1>2, <1>4, <1>6 DEF new

(* A line is its head and its tail. *)
LEMMA SameHeadAndTail ==
    ASSUME NEW S, NEW a \in Seq(S), NEW b \in Seq(S), a # <<>>, b # <<>>,
           Head(a) = Head(b), Tail(a) = Tail(b)
    PROVE  a = b
<1>1. Len(a) = Len(b) /\ Len(a) \in Nat \ {0} /\ a[1] = b[1]
  BY HeadTailProperties
<1>2. ASSUME NEW i \in 1..Len(a) PROVE a[i] = b[i]
  <2>1. CASE i = 1
    BY <1>1, <2>1
  <2>2. CASE i # 1
    <3>1. i - 1 \in 1..Len(Tail(a)) /\ (i - 1) + 1 = i
      BY <1>1, <2>2, HeadTailProperties
    <3>2. Tail(a)[i - 1] = a[(i - 1) + 1] /\ Tail(b)[i - 1] = b[(i - 1) + 1]
      BY <3>1, HeadTailProperties
    <3> QED BY <3>1, <3>2
  <2> QED BY <2>1, <2>2
<1> QED BY <1>1, <1>2

(* A line that starts with a step is that step put before the rest. *)
LEMMA PushedIs ==
    ASSUME NEW S, NEW x \in S, NEW s \in Seq(S), NEW r \in Seq(S), r # <<>>, Head(r) = x, Tail(r) = s
    PROVE  <<x>> \o s = r
<1> DEFINE l == <<x>> \o s
<1>1. l \in Seq(S) /\ l # <<>> /\ Head(l) = x /\ Tail(l) = s
  BY Pushing
<1> HIDE DEF l
<1>2. l = r
  BY <1>1, SameHeadAndTail
<1> QED BY <1>2 DEF l

(* Literal lists. *)
LEMMA PushOne ==
    ASSUME NEW S, NEW x \in S
    PROVE  <<x>> \o <<>> = <<x>>
<1>1. <<x>> \in Seq(S)
  OBVIOUS
<1> QED BY <1>1, ConcatEmptySeq

(* Two steps make a line of two. *)
LEMMA PushTwo ==
    ASSUME NEW S, NEW x \in S, NEW y \in S
    PROVE  <<x>> \o <<y>> = <<x, y>>
<1>1. /\ <<y>> \in Seq(S) /\ <<x, y>> \in Seq(S) /\ <<x, y>> # <<>>
      /\ Head(<<x, y>>) = x /\ Tail(<<x, y>>) = <<y>>
  OBVIOUS
<1> QED BY <1>1, PushedIs, Zenon

(* Three steps make a line of three. *)
LEMMA PushThree ==
    ASSUME NEW S, NEW x \in S, NEW y \in S, NEW z \in S
    PROVE  <<x>> \o <<y, z>> = <<x, y, z>>
<1>1. /\ <<y, z>> \in Seq(S) /\ <<x, y, z>> \in Seq(S) /\ <<x, y, z>> # <<>>
      /\ Head(<<x, y, z>>) = x /\ Tail(<<x, y, z>>) = <<y, z>>
  OBVIOUS
<1> QED BY <1>1, PushedIs, Zenon

(* The two shapes of what is left: the innermost block, and what becomes   *)
(* of the whole when its list is another one, or when a block is entered.  *)
LEMMA OneTop ==
    ASSUME NEW q \in Request, NEW b \in Seq(Steps)
    PROVE  Head(One(q, b)) = b /\ One(q, b) # <<>>
BY DEF One

(* The innermost of two open blocks. *)
LEMMA TwoTop ==
    ASSUME NEW q \in Request, NEW b \in Seq(Steps), NEW c \in Seq(Steps)
    PROVE  Head(Two(q, b, c)) = b /\ Two(q, b, c) # <<>> /\ Tail(Two(q, b, c)) = One(q, c)
BY DEF One, Two

(* A task goes on in the only block of its method. *)
LEMMA OneNext ==
    ASSUME NEW q \in Request, NEW b \in Seq(Steps), NEW a \in Seq(Steps)
    PROVE  <<a>> \o Tail(One(q, b)) = One(q, a)
<1> DEFINE S == Seq(Steps)
<1>1. a \in S /\ <<>> \in S
  BY Sequences
<1>2. Tail(<<b>>) = <<>> /\ Tail(<<b, <<>>>>) = <<<<>>>>
  OBVIOUS
<1> HIDE DEF S
<1>3. <<a>> \o <<>> = <<a>> /\ <<a>> \o <<<<>>>> = <<a, <<>>>>
  BY <1>1, PushOne, PushTwo, Zenon
<1> QED BY <1>2, <1>3 DEF One

(* A helper opens its block over that of the method. *)
LEMMA OnePush ==
    ASSUME NEW q \in Request, NEW b \in Seq(Steps), NEW a \in Seq(Steps)
    PROVE  <<a>> \o One(q, b) = Two(q, a, b)
<1> DEFINE S == Seq(Steps)
<1>1. a \in S /\ b \in S /\ <<>> \in S
  BY Sequences
<1> HIDE DEF S
<1>2. <<a>> \o <<b>> = <<a, b>> /\ <<a>> \o <<b, <<>>>> = <<a, b, <<>>>>
  BY <1>1, PushTwo, PushThree, Zenon
<1> QED BY <1>2 DEF One, Two

(* A task goes on in the block of its helper. *)
LEMMA TwoNext ==
    ASSUME NEW q \in Request, NEW b \in Seq(Steps), NEW c \in Seq(Steps), NEW a \in Seq(Steps)
    PROVE  <<a>> \o Tail(Two(q, b, c)) = Two(q, a, c)
<1>1. Tail(Two(q, b, c)) = One(q, c)
  BY TwoTop
<1> QED BY <1>1, OnePush

(* What is left of a method is a sequence of steps. *)
LEMMA LineSteps ==
    ASSUME NEW q \in Request, q.op \in Writers
    PROVE  /\ First(q) \in Statements /\ Second(q) \in Statements
           /\ \A s \in Statements :
                /\ Helper(q, s) \in Steps /\ OrElse(Helper(q, s)) \in Steps
                /\ <<s>> \in Seq(Steps)
           /\ Late(q) \in Seq(Steps) /\ End(q) \in Seq(Steps)
           /\ SecondLine(q) \in Seq(Steps) /\ RanLine(q) \in Seq(Steps) /\ StartLine(q) \in Seq(Steps)
<1>1. /\ q.title \in Titles /\ q.other \in Titles /\ q.id \in Ids
      /\ Everything \in Filters /\ ById(q.id) \in Filters /\ ByTitle(q.title) \in Filters
  BY DEF Request, Filters
<1>2. First(q) \in Statements /\ Second(q) \in Statements
  BY <1>1, StatementSteps DEF First, Second, Writers
<1>3. ASSUME NEW s \in Statements
      PROVE  /\ Helper(q, s) \in Steps /\ OrElse(Helper(q, s)) \in Steps
             /\ <<s>> \in Seq(Steps)
  <2>1. (q.block # "none") \in BOOLEAN
    OBVIOUS
  <2>2. Helper(q, s) \in Steps /\ OrElse(Helper(q, s)) \in Steps
    BY <2>1, HelperSteps, Zenon DEF Helper, Steps
  <2>3. s \in Steps
    BY LeavesAreSteps DEF Steps
  <2> QED BY <2>2, <2>3, Sequences
<1>4. Leaves \subseteq Steps /\ Found \in Steps
  BY LeavesAreSteps DEF Steps, Leaves
<1>5. Late(q) \in Seq(Steps)
  <2>1. Raise([Failure EXCEPT !.json = TRUE]) \in Steps
    BY <1>4, ExceptionsAre DEF Leaves, Raise
  <2> QED BY <2>1, Sequences DEF Late
<1> HIDE DEF Steps
<1>6. End(q) \in Seq(Steps)
  <2>1. Dump(q) \in Seq(Steps) /\ <<>> \in Seq(Steps)
    BY <1>4, Checks, Sequences
  <2> QED BY <1>5, <2>1, Sequences DEF End
<1>7. SecondLine(q) \in Seq(Steps)
  BY <1>2, <1>3, <1>6, Pushing DEF SecondLine
<1>8. RanLine(q) \in Seq(Steps)
  <2>1. <<Found>> \o End(q) \in Seq(Steps) /\ <<Found>> \o SecondLine(q) \in Seq(Steps)
    BY <1>4, <1>6, <1>7, Pushing
  <2>2. <<OrElse(Helper(q, Second(q)))>> \o End(q) \in Seq(Steps)
    BY <1>2, <1>3, <1>6, Pushing
  <2> QED BY <1>6, <2>1, <2>2 DEF RanLine, Writers
<1>9. StartLine(q) \in Seq(Steps)
  BY <1>2, <1>3, <1>8, Pushing DEF StartLine
<1> QED BY <1>2, <1>3, <1>5, <1>6, <1>7, <1>8, <1>9

(* The next step on each of the lines, and what is left then. *)
LEMMA LineHeads ==
    ASSUME NEW q \in Request, q.op \in Writers
    PROVE  /\ StartLine(q) # <<>> /\ Head(StartLine(q)) = Helper(q, First(q))
           /\ Tail(StartLine(q)) = RanLine(q)
           /\ SecondLine(q) # <<>> /\ Head(SecondLine(q)) = Helper(q, Second(q))
           /\ Tail(SecondLine(q)) = End(q)
           /\ q.op \in {"create", "create_list", "delete_list"} => RanLine(q) = End(q)
           /\ q.op \in {"update", "delete", "replace"} =>
                /\ RanLine(q) # <<>> /\ Head(RanLine(q)) = Found
                /\ Tail(RanLine(q)) = IF q.op = "replace" THEN SecondLine(q) ELSE End(q)
           /\ q.op = "upsert" =>
                /\ RanLine(q) # <<>> /\ Head(RanLine(q)) = OrElse(Helper(q, Second(q)))
                /\ Tail(RanLine(q)) = End(q)
<1>1. /\ \A s \in Statements : Helper(q, s) \in Steps /\ OrElse(Helper(q, s)) \in Steps
      /\ First(q) \in Statements /\ Second(q) \in Statements
      /\ End(q) \in Seq(Steps) /\ SecondLine(q) \in Seq(Steps) /\ RanLine(q) \in Seq(Steps)
  BY LineSteps
<1>2. Found \in Steps
  BY LeavesAreSteps DEF Leaves, Steps
<1>3. \A x \in Steps, l \in Seq(Steps) :
        <<x>> \o l # <<>> /\ Head(<<x>> \o l) = x /\ Tail(<<x>> \o l) = l
  <2> HIDE DEF Steps
  <2> QED BY Pushing
<1>4. /\ StartLine(q) = <<Helper(q, First(q))>> \o RanLine(q)
      /\ SecondLine(q) = <<Helper(q, Second(q))>> \o End(q)
  BY DEF StartLine, SecondLine
<1>5. /\ StartLine(q) # <<>> /\ Head(StartLine(q)) = Helper(q, First(q)) /\ Tail(StartLine(q)) = RanLine(q)
      /\ SecondLine(q) # <<>> /\ Head(SecondLine(q)) = Helper(q, Second(q)) /\ Tail(SecondLine(q)) = End(q)
  BY <1>1, <1>3, <1>4, Zenon
<1>6. CASE q.op \in {"create", "create_list", "delete_list"}
  <2>1. RanLine(q) = End(q)
    BY <1>6 DEF RanLine
  <2> QED BY <1>5, <1>6, <2>1
<1>7. CASE q.op \in {"update", "delete"}
  <2>1. RanLine(q) = <<Found>> \o End(q)
    BY <1>7 DEF RanLine
  <2>2. RanLine(q) # <<>> /\ Head(RanLine(q)) = Found /\ Tail(RanLine(q)) = End(q)
    BY <1>1, <1>2, <1>3, <2>1, Zenon
  <2> QED BY <1>5, <1>7, <2>2
<1>8. CASE q.op = "upsert"
  <2>1. RanLine(q) = <<OrElse(Helper(q, Second(q)))>> \o End(q)
    BY <1>8 DEF RanLine
  <2>2. /\ RanLine(q) # <<>> /\ Head(RanLine(q)) = OrElse(Helper(q, Second(q)))
        /\ Tail(RanLine(q)) = End(q)
    BY <1>1, <1>3, <2>1, Zenon
  <2> QED BY <1>5, <1>8, <2>2
<1>9. CASE q.op = "replace"
  <2>1. RanLine(q) = <<Found>> \o SecondLine(q)
    BY <1>9 DEF RanLine
  <2>2. RanLine(q) # <<>> /\ Head(RanLine(q)) = Found /\ Tail(RanLine(q)) = SecondLine(q)
    BY <1>1, <1>2, <1>3, <2>1, Zenon
  <2> QED BY <1>5, <1>9, <2>2
<1> QED BY <1>6, <1>7, <1>8, <1>9 DEF Writers

(* The end of a method answers, or raises what does not undo anything      *)
(* that is committed.                                                      *)
LEMMA EndRaises ==
    ASSUME NEW q \in Request, q.op \in Writers, End(q) # <<>>
    PROVE  /\ Head(End(q)).do = "raise"
           /\ Head(End(q)).error.status = 501 \/ (q.block # "none" /\ q.raises)
<1> DEFINE x == Raise(Http(501))
           y == Raise([Failure EXCEPT !.json = TRUE])
<1>1. x \in Steps /\ y \in Steps
  <2>1. \A e \in Exceptions : Raise(e) \in Leaves
    BY DEF Leaves, Raise
  <2>2. Http(501) \in Exceptions /\ [Failure EXCEPT !.json = TRUE] \in Exceptions
    BY ExceptionsAre
  <2>3. x \in Leaves /\ y \in Leaves
    BY <2>1, <2>2, Zenon
  <2> HIDE DEF x, y
  <2> QED BY <2>3, LeavesAreSteps DEF Steps
<1>2. x.do = "raise" /\ y.do = "raise" /\ x.error.status = 501
  <2>1. \A e : Raise(e).do = "raise" /\ Raise(e).error = e
    BY DEF Raise
  <2>2. \A a, b : [status |-> a, json |-> b].status = a
    OBVIOUS
  <2>3. Http(501).status = 501
    BY <2>2, Zenon DEF Http
  <2>4. Raise(Http(501)).error = Http(501)
    BY <2>1
  <2>5. Raise(Http(501)).do = "raise" /\ Raise([Failure EXCEPT !.json = TRUE]).do = "raise"
    BY <2>1, Zenon
  <2>6. Raise(Http(501)).error.status = 501
    BY <2>3, <2>4, Zenon
  <2> QED BY <2>5, <2>6
<1>3. Late(q) \in Seq(Steps)
  BY LineSteps
<1>4. Late(q) = <<>> \/ (Late(q) = <<y>> /\ q.block # "none" /\ q.raises)
  BY DEF Late
<1>5. End(q) = <<x>> \o Late(q) \/ End(q) = <<>> \o Late(q)
  BY DEF End, Dump
<1> HIDE DEF x, y, Steps
<1>6. <<>> \o Late(q) = Late(q)
  BY <1>3, ConcatEmptySeq
<1>7. CASE End(q) = <<x>> \o Late(q)
  <2>1. Head(End(q)) = x
    BY <1>1, <1>3, <1>7, Pushing
  <2> QED BY <1>2, <2>1
<1>8. CASE End(q) = Late(q)
  <2>1. End(q) = <<y>> /\ q.block # "none" /\ q.raises
    BY <1>4, <1>8
  <2>2. Head(<<y>>) = y
    OBVIOUS
  <2> QED BY <1>2, <2>1, <2>2
<1> QED BY <1>5, <1>6, <1>7, <1>8

-----------------------------------------------------------------------------
(* What a handler checks first is nothing, or ends it. *)
Check == {l \in Seq(Steps) : l = <<>> \/ Refused(l)}

(* A check put before a line either is nothing or refuses the request. *)
LEMMA CheckFirst ==
    ASSUME NEW a \in Check, NEW l \in Seq(Steps)
    PROVE  /\ a \o l \in Seq(Steps)
           /\ a \o l = l \/ Refused(a \o l)
           /\ l \in Check => a \o l \in Check
<1> HIDE DEF Steps
<1>1. a \in Seq(Steps) /\ (a = <<>> \/ Refused(a))
  BY DEF Check
<1>2. a \o l \in Seq(Steps)
  BY <1>1, ConcatProperties
<1>3. CASE a = <<>>
  <2>1. a \o l = l
    BY <1>3, ConcatEmptySeq
  <2> QED BY <1>2, <2>1
<1>4. CASE Refused(a)
  <2>1. a # <<>> /\ Head(a) = a[1] /\ Len(a) \in Nat \ {0}
    BY <1>1, <1>4 DEF Refused
  <2>2. Len(a \o l) = Len(a) + Len(l) /\ Len(l) \in Nat /\ (a \o l)[1] = a[1]
    BY <1>1, <2>1, ConcatProperties
  <2>3. a \o l # <<>> /\ Head(a \o l) = a[1]
    <3> DEFINE al == a \o l
    <3> HIDE DEF al
    <3>1. al \in Seq(Steps) /\ Len(al) \in Nat \ {0} /\ al[1] = a[1]
      BY <1>2, <2>1, <2>2 DEF al
    <3>2. al # <<>> /\ Head(al) = al[1]
      BY <3>1
    <3> QED BY <3>1, <3>2 DEF al
  <2>4. Refused(a \o l)
    BY <1>4, <2>1, <2>3 DEF Refused
  <2> QED BY <1>2, <2>4 DEF Check
<1> QED BY <1>1, <1>3, <1>4

(* What handlers check before they use the database. *)
LEMMA ChecksAreChecks ==
    ASSUME NEW q \in Request
    PROVE  /\ <<>> \in Check /\ JsonData(q) \in Check /\ Cleaned(q) \in Check
           /\ GetFilters(q) \in Check /\ InsertData(q) \in Check
           /\ GetPagSearchFilters(q) \in Check /\ Schema(q) \in Check
           /\ Refuse(q, "list", 400) \in Check /\ Refuse(q, "container", 500) \in Check
<1>1. ASSUME NEW e \in Exceptions PROVE <<Raise(e)>> \in Check
  <2>1. Raise(e) \in Steps /\ Raise(e).do = "raise"
    BY LeavesAreSteps DEF Leaves, Raise, Steps
  <2> DEFINE x == Raise(e)
  <2> HIDE DEF x, Steps
  <2>2. <<x>> \in Seq(Steps) /\ <<x>> # <<>> /\ Head(<<x>>) = x
    BY <2>1 DEF x
  <2>3. Refused(<<x>>)
    BY <2>1, <2>2 DEF Refused, x
  <2> QED BY <2>2, <2>3 DEF Check, x
<1>2. <<>> \in Check
  BY Sequences DEF Check
<1>3. ASSUME NEW what, NEW status \in {400, 404, 422, 500, 501}
      PROVE  Refuse(q, what, status) \in Check
  BY <1>1, <1>2, ExceptionsAre DEF Refuse
<1>4. \A a \in Check, b \in Check : a \o b \in Check
  BY CheckFirst DEF Check
<1> QED BY <1>2, <1>3, <1>4
    DEF JsonData, Schema, Path, Cleaned, InsertData, GetFilters, GetPagSearchFilters

(* The method of a request that writes is refused at once, or is what its  *)
(* StartLine says.                                                         *)
LEMMA MethodStarts ==
    ASSUME NEW q \in Request, q.op \in Writers, q.op = "replace" => q.block # "none"
    PROVE  LET method == Method(q, q.block # "none") \o Late(q) IN
           method \in Seq(Steps) /\ (Refused(method) \/ method = StartLine(q))
<1> DEFINE S == Seq(Steps)
           conn == q.block # "none"
           e1 == <<Helper(q, First(q))>>
           e2 == <<Helper(q, Second(q))>>
           late == Late(q)
           dump == Dump(q)
           found == <<Found>>
           orelse == <<OrElse(Helper(q, Second(q)))>>
<1>1. /\ e1 \in S /\ e2 \in S /\ late \in S /\ found \in S /\ orelse \in S /\ StartLine(q) \in S
  <2>1. Found \in Steps
    BY LeavesAreSteps DEF Leaves, Steps
  <2>2. /\ Helper(q, First(q)) \in Steps /\ Helper(q, Second(q)) \in Steps
        /\ OrElse(Helper(q, Second(q))) \in Steps /\ Late(q) \in Seq(Steps) /\ StartLine(q) \in Seq(Steps)
    BY LineSteps
  <2> HIDE DEF Steps
  <2> QED BY <2>1, <2>2, Sequences
<1>2. dump \in S
  BY Checks, LeavesAreSteps, Sequences DEF Steps
<1>3. /\ \A a, b \in S : a \o b \in S
      /\ \A a, b, c \in S : (a \o b) \o c = a \o (b \o c)
      /\ \A a \in S : <<>> \o a = a /\ a \o <<>> = a
      /\ <<>> \in S
  <2> HIDE DEF Steps
  <2> QED BY ConcatProperties, ConcatAssociative, ConcatEmptySeq, Sequences
<1>4. ASSUME NEW a \in Check
      PROVE  LET method == a \o StartLine(q) IN
             method \in S /\ (Refused(method) \/ method = StartLine(q))
  BY <1>1, <1>4, CheckFirst
<1>5. /\ e1 \o found = <<Helper(q, First(q)), Found>>
      /\ e1 \o orelse = <<Helper(q, First(q)), OrElse(Helper(q, Second(q)))>>
  <2>1. ASSUME NEW x \in Steps, NEW y \in Steps PROVE <<x>> \o <<y>> = <<x, y>>
    <3> HIDE DEF Steps
    <3>1. /\ <<y>> \in Seq(Steps) /\ <<x, y>> \in Seq(Steps) /\ <<x, y>> # <<>>
          /\ Head(<<x, y>>) = x /\ Tail(<<x, y>>) = <<y>>
      BY <2>1
    <3> QED BY <2>1, <3>1, PushedIs, Zenon
  <2>2. /\ Found \in Steps /\ Helper(q, First(q)) \in Steps /\ OrElse(Helper(q, Second(q))) \in Steps
    BY LineSteps, LeavesAreSteps DEF Leaves, Steps
  <2> QED BY <2>1, <2>2, Zenon
<1>6. /\ <<>> \in Check /\ JsonData(q) \in Check /\ Cleaned(q) \in Check
      /\ GetFilters(q) \in Check /\ InsertData(q) \in Check
      /\ GetPagSearchFilters(q) \in Check /\ Schema(q) \in Check
      /\ Refuse(q, "list", 400) \in Check /\ Refuse(q, "container", 500) \in Check
      /\ \A a, b \in Check : a \o b \in Check /\ a \in S
  BY ChecksAreChecks, CheckFirst DEF Check
<1>7. conn \in BOOLEAN /\ \A s : Helper(q, s) = Ensure(conn, s)
  BY DEF Helper
<1> DEFINE cat(x, y) == x \o y
<1>20. \A x, y \in S : cat(x, y) \in S
  BY <1>3, Zenon
<1>21. \A x, y, z \in S : cat(cat(x, y), z) = cat(x, cat(y, z))
  BY <1>3, Zenon
<1>22. \A x \in S : cat(<<>>, x) = x
  BY <1>3, Zenon
<1>23. ASSUME NEW a \in Check, NEW m, cat(m, late) = cat(a, StartLine(q)), m = Method(q, conn)
       PROVE  LET method == Method(q, q.block # "none") \o Late(q) IN
              method \in Seq(Steps) /\ (Refused(method) \/ method = StartLine(q))
  BY <1>4, <1>23
<1>8. CASE q.op = "create"
  <2> DEFINE a == IF conn THEN <<>> ELSE JsonData(q) \o InsertData(q)
  <2>1. First(q) = Insert(<<q.title>>, Http(422))
    BY <1>8 DEF First
  <2>2. Method(q, conn) = (a \o e1) \o dump
    BY <1>7, <1>8, <2>1 DEF Method, CreateOne
  <2>3. StartLine(q) = e1 \o (dump \o late)
    BY <1>8 DEF StartLine, RanLine, End
  <2>4. a \in Check
    BY <1>6
  <2>5. Method(q, conn) = cat(cat(a, e1), dump)
    BY <1>1, <1>3, <2>2
  <2>6. StartLine(q) = cat(e1, cat(dump, late))
    BY <2>3
  <2>7. a \in S
    BY <1>6, <2>4
  <2> HIDE DEF a, e1, e2, dump, late, found, orelse, S, conn, cat
  <2>8. cat(Method(q, conn), late) = cat(a, StartLine(q))
    BY <1>1, <1>2, <1>20, <1>21, <1>22, <2>5, <2>6, <2>7
  <2> QED BY <1>23, <2>4, <2>8
<1>9. CASE q.op = "create_list"
  <2> DEFINE a == (((JsonData(q) \o Refuse(q, "list", 400)) \o Schema(q))
                   \o Refuse(q, "container", 500)) \o InsertData(q)
  <2>1. First(q) = Insert(<<q.title, q.other>>, Failure)
    BY <1>9 DEF First
  <2>2. Method(q, conn) = (a \o e1) \o dump
    BY <1>7, <1>9, <2>1 DEF Method, CreateList, DbInsert
  <2>3. StartLine(q) = e1 \o (dump \o late)
    BY <1>9 DEF StartLine, RanLine, End
  <2>4. a \in Check
    BY <1>6
  <2>5. Method(q, conn) = cat(cat(a, e1), dump)
    BY <1>1, <1>3, <2>2
  <2>6. StartLine(q) = cat(e1, cat(dump, late))
    BY <2>3
  <2>7. a \in S
    BY <1>6, <2>4
  <2> HIDE DEF a, e1, e2, dump, late, found, orelse, S, conn, cat
  <2>8. cat(Method(q, conn), late) = cat(a, StartLine(q))
    BY <1>1, <1>2, <1>20, <1>21, <1>22, <2>5, <2>6, <2>7
  <2> QED BY <1>23, <2>4, <2>8
<1>10. CASE q.op = "update"
  <2> DEFINE a == (IF conn THEN <<>> ELSE JsonData(q) \o Cleaned(q)) \o GetFilters(q)
  <2>1. First(q) = Update(ById(q.id), q.title, Http(422))
    BY <1>10 DEF First
  <2>2. Method(q, conn) = (a \o (e1 \o found)) \o dump
    BY <1>5, <1>7, <1>10, <2>1 DEF Method, UpdateOne, DbUpdate
  <2>3. StartLine(q) = e1 \o (found \o (dump \o late))
    BY <1>10 DEF StartLine, RanLine, End
  <2>4. a \in Check
    BY <1>6
  <2>5. Method(q, conn) = cat(cat(a, cat(e1, found)), dump)
    BY <1>1, <1>3, <2>2
  <2>6. StartLine(q) = cat(e1, cat(found, cat(dump, late)))
    BY <2>3
  <2>7. a \in S
    BY <1>6, <2>4
  <2> HIDE DEF a, e1, e2, dump, late, found, orelse, S, conn, cat
  <2>8. cat(Method(q, conn), late) = cat(a, StartLine(q))
    <3>1. cat(e1, found) \in S /\ cat(dump, late) \in S /\ cat(a, cat(e1, found)) \in S
      BY <1>1, <1>2, <1>20, <2>7
    <3>2. cat(cat(cat(a, cat(e1, found)), dump), late) = cat(cat(a, cat(e1, found)), cat(dump, late))
      BY <1>1, <1>2, <1>21, <3>1
    <3>3. cat(cat(a, cat(e1, found)), cat(dump, late)) = cat(a, cat(cat(e1, found), cat(dump, late)))
      BY <1>21, <2>7, <3>1
    <3>4. cat(cat(e1, found), cat(dump, late)) = StartLine(q)
      BY <1>1, <1>21, <2>6, <3>1
    <3> QED BY <2>5, <3>2, <3>3, <3>4
  <2> QED BY <1>23, <2>4, <2>8
<1>11. CASE q.op = "delete"
  <2> DEFINE a == GetFilters(q)
  <2>1. First(q) = Delete(ById(q.id))
    BY <1>11 DEF First
  <2>2. Method(q, conn) = a \o (e1 \o found)
    BY <1>5, <1>7, <1>11, <2>1 DEF Method, DeleteOne, DbDelete
  <2>3. StartLine(q) = e1 \o (found \o late)
    BY <1>1, <1>3, <1>11 DEF StartLine, RanLine, End
  <2>4. a \in Check
    BY <1>6
  <2>5. Method(q, conn) = cat(a, cat(e1, found))
    BY <1>1, <1>3, <2>2
  <2>6. StartLine(q) = cat(e1, cat(found, late))
    BY <2>3
  <2>7. a \in S
    BY <1>6, <2>4
  <2> HIDE DEF a, e1, e2, dump, late, found, orelse, S, conn, cat
  <2>8. cat(Method(q, conn), late) = cat(a, StartLine(q))
    BY <1>1, <1>2, <1>20, <1>21, <1>22, <2>5, <2>6, <2>7
  <2> QED BY <1>23, <2>4, <2>8
<1>12. CASE q.op = "delete_list"
  <2> DEFINE a == GetPagSearchFilters(q)
  <2>1. First(q) = Delete(Everything)
    BY <1>12 DEF First
  <2>2. Method(q, conn) = a \o e1
    BY <1>7, <1>12, <2>1 DEF Method, DeleteList, DbDelete
  <2>3. StartLine(q) = e1 \o late
    BY <1>1, <1>3, <1>12 DEF StartLine, RanLine, End
  <2>4. a \in Check
    BY <1>6
  <2>5. Method(q, conn) = cat(a, e1)
    BY <1>1, <1>3, <2>2
  <2>6. StartLine(q) = cat(e1, late)
    BY <2>3
  <2>7. a \in S
    BY <1>6, <2>4
  <2> HIDE DEF a, e1, e2, dump, late, found, orelse, S, conn, cat
  <2>8. cat(Method(q, conn), late) = cat(a, StartLine(q))
    BY <1>1, <1>2, <1>20, <1>21, <1>22, <2>5, <2>6, <2>7
  <2> QED BY <1>23, <2>4, <2>8
<1>13. CASE q.op = "upsert"
  <2> DEFINE a == <<>>
  <2>4. a \in Check
    BY <1>6
  <2>1. First(q) = Update(ByTitle(q.title), q.title, Failure) /\ Second(q) = Insert(<<q.title>>, Failure)
    BY <1>13 DEF First, Second
  <2>2. Method(q, conn) = e1 \o orelse
    BY <1>5, <1>7, <1>13, <2>1 DEF Method, DbUpsert, DbUpdate, DbInsert
  <2>3. StartLine(q) = e1 \o (orelse \o late)
    BY <1>1, <1>3, <1>13 DEF StartLine, RanLine, End
  <2>5. Method(q, conn) = cat(a, cat(e1, orelse))
    BY <1>1, <1>3, <2>2
  <2>6. StartLine(q) = cat(e1, cat(orelse, late))
    BY <2>3
  <2>7. a \in S
    BY <1>6, <2>4
  <2> HIDE DEF a, e1, e2, dump, late, found, orelse, S, conn, cat
  <2>8. cat(Method(q, conn), late) = cat(a, StartLine(q))
    BY <1>1, <1>2, <1>20, <1>21, <1>22, <2>5, <2>6, <2>7 DEF a
  <2> QED BY <1>23, <2>4, <2>8
<1>14. CASE q.op = "replace"
  <2> DEFINE a == GetFilters(q)
  <2>1. First(q) = Delete(ById(q.id)) /\ Second(q) = Insert(<<q.title>>, Http(422)) /\ conn
    BY <1>14 DEF First, Second
  <2>2. Method(q, conn) = (a \o (e1 \o found)) \o ((<<>> \o e2) \o dump)
    BY <1>5, <1>7, <1>14, <2>1 DEF Method, DeleteOne, CreateOne, DbDelete
  <2>3. StartLine(q) = e1 \o (found \o (e2 \o (dump \o late)))
    BY <1>14 DEF StartLine, RanLine, SecondLine, End
  <2>4. a \in Check
    BY <1>6
  <2>5. Method(q, conn) = cat(cat(a, cat(e1, found)), cat(cat(<<>>, e2), dump))
    BY <1>1, <1>3, <2>2
  <2>6. StartLine(q) = cat(e1, cat(found, cat(e2, cat(dump, late))))
    BY <2>3
  <2>7. a \in S
    BY <1>6, <2>4
  <2> HIDE DEF a, e1, e2, dump, late, found, orelse, S, conn, cat
  <2>8. cat(Method(q, conn), late) = cat(a, StartLine(q))
    <3>1. /\ cat(e1, found) \in S /\ cat(e2, dump) \in S /\ cat(dump, late) \in S
          /\ cat(<<>>, e2) = e2 /\ cat(a, cat(e1, found)) \in S /\ cat(e2, cat(dump, late)) \in S
      BY <1>1, <1>2, <1>20, <1>22, <2>7
    <3>2. cat(cat(cat(a, cat(e1, found)), cat(e2, dump)), late)
            = cat(cat(a, cat(e1, found)), cat(cat(e2, dump), late))
      BY <1>1, <1>21, <3>1
    <3>3. cat(cat(e2, dump), late) = cat(e2, cat(dump, late))
      BY <1>1, <1>2, <1>21
    <3>4. cat(cat(a, cat(e1, found)), cat(e2, cat(dump, late)))
            = cat(a, cat(cat(e1, found), cat(e2, cat(dump, late))))
      BY <1>21, <2>7, <3>1
    <3>5. cat(cat(e1, found), cat(e2, cat(dump, late))) = StartLine(q)
      BY <1>1, <1>21, <2>6, <3>1
    <3> QED BY <2>5, <3>1, <3>2, <3>3, <3>4, <3>5
  <2> QED BY <1>23, <2>4, <2>8
<1> QED BY <1>8, <1>9, <1>10, <1>11, <1>12, <1>13, <1>14 DEF Writers

(* Where a request that writes begins. *)
Begins(q, handler) ==
    \/ Refused(handler)
    \/ q.block = "none" /\ handler = StartLine(q)
    \/ /\ q.block # "none"
       /\ \E body \in Seq(Steps) : /\ Refused(body) \/ body = StartLine(q)
                                   /\ handler = <<With(q.block, FALSE, body)>>

(* Every handler that writes begins with a refusal, with its method, or    *)
(* with the block around it.                                               *)
LEMMA HandlerBegins ==
    ASSUME NEW q \in Request, q.op \in Writers, q.op = "replace" => q.block # "none"
    PROVE  Begins(q, Handler(q))
<1> DEFINE conn == q.block # "none"
           body == Method(q, conn) \o Late(q)
<1>1. body \in Seq(Steps) /\ (Refused(body) \/ body = StartLine(q))
  BY MethodStarts
<1>2. CASE q.block = "none"
  <2>1. Handler(q) = Method(q, FALSE) /\ Late(q) = <<>> /\ conn = FALSE
    BY <1>2 DEF Handler, Late
  <2>2. Method(q, FALSE) \in Seq(Outside)
    BY MethodSteps
  <2>3. Method(q, FALSE) \o <<>> = Method(q, FALSE)
    BY <2>2, ConcatEmptySeq
  <2>4. Handler(q) = body
    BY <2>1, <2>3, Zenon
  <2> HIDE DEF body
  <2> QED BY <1>1, <1>2, <2>4 DEF Begins
<1>3. CASE q.block # "none"
  <2> DEFINE early == IF q.op \in {"create", "update", "delete", "replace"} THEN JsonData(q) ELSE <<>>
             opener == With(q.block, FALSE, body)
  <2>1. conn = TRUE
    BY <1>3
  <2>2. Handler(q) = early \o <<opener>>
    BY <1>3, <2>1 DEF Handler, Late
  <2>3. early \in Check
    BY ChecksAreChecks
  <2>4. <<opener>> \in Seq(Steps)
    <3>1. body \in Seq(Inside)
      <4>1. Method(q, TRUE) \in Seq(Inside)
        BY MethodSteps
      <4>2. Raise([Failure EXCEPT !.json = TRUE]) \in Inside
        BY LeavesAreSteps, ExceptionsAre DEF Leaves, Raise
      <4>3. Late(q) \in Seq(Inside)
        BY <4>2, Sequences DEF Late
      <4>4. Method(q, TRUE) \o Late(q) \in Seq(Inside)
        BY <4>1, <4>3, ConcatProperties
      <4> QED BY <2>1, <4>4
    <3>2. q.block \in Blocks
      BY <1>3 DEF Request, Blocks
    <3>3. opener \in Steps
      BY <3>1, <3>2 DEF Steps, Outside, Openers, With
    <3> HIDE DEF opener, Steps
    <3> QED BY <3>3, Sequences
  <2>5. early \o <<opener>> = <<opener>> \/ Refused(early \o <<opener>>)
    BY <2>3, <2>4, CheckFirst
  <2> HIDE DEF body, early, conn
  <2> QED BY <1>1, <1>3, <2>2, <2>5 DEF Begins
<1> QED BY <1>2, <1>3

-----------------------------------------------------------------------------
(* What the transaction of a task has written: nothing; what the first     *)
(* statement of its method writes when it finds rows; or all of it.        *)
Pending(t) == writes[<<t, 1>>]
Nil(t) == Pending(t) = NoWrites
Only(i, v) == [j \in Ids |-> IF j = i THEN v ELSE Same]

FirstDone(t) ==
    LET q == req[t]
        w == Pending(t) IN
    CASE q.op = "create" -> w = Only(<<t, 1>>, q.title)
      [] q.op = "create_list" -> w = [Only(<<t, 1>>, q.title) EXCEPT ![<<t, 2>>] = q.other]
      [] q.op = "update" -> w = Only(q.id, q.title) /\ table[q.id] # None
      [] q.op \in {"delete", "replace"} -> w = Only(q.id, None) /\ table[q.id] # None
      [] q.op = "delete_list" ->
           /\ ~Nil(t)
           /\ \A i \in Ids : w[i] # Same => w[i] = None /\ table[i] # None
      [] q.op = "upsert" ->
           /\ ~Nil(t)
           /\ \A i \in Ids : w[i] # Same => w[i] = q.title /\ table[i] = q.title

Whole(t) ==
    LET q == req[t]
        w == Pending(t) IN
    CASE q.op = "upsert" -> FirstDone(t) \/ w = Only(<<t, 1>>, q.title)
      [] q.op = "replace" -> w = [Only(q.id, None) EXCEPT ![<<t, 1>>] = q.title] /\ table[q.id] # None
      [] OTHER -> FirstDone(t)

(* After the first statement, and before the second. *)
Ran(t) == IF rows[t] = {} THEN Nil(t) /\ req[t].op \notin {"create", "create_list"} ELSE FirstDone(t)
Half(t) == IF req[t].op = "replace" THEN FirstDone(t) ELSE Nil(t)

(* The tasks and requests that these are about. *)
Writes(t) == t \in Task /\ req[t] \in Request /\ req[t].op \in Writers

(* The rows and titles such a request is about. *)
LEMMA WritesRows ==
    ASSUME NEW t, Writes(t)
    PROVE  /\ <<t, 1>> \in Conn /\ <<t, 1>> \in Ids /\ <<t, 2>> \in Ids /\ <<t, 1>> # <<t, 2>>
           /\ req[t].id \in Ids /\ req[t].title \in Titles /\ req[t].other \in Titles
           /\ Same \notin Titles /\ Same # None /\ None \notin Titles
<1>1. 1 \in 1..MaxDepth
  BY DatabaseAssumption
<1>2. t \in Task /\ req[t] \in Request
  BY DEF Writes
<1>3. req[t].id \in Ids /\ req[t].title \in Titles /\ req[t].other \in Titles
  BY <1>2 DEF Request
<1> QED BY <1>1, <1>2, <1>3, DatabaseAssumption, ApiAssumption DEF Conn

(* What is done shows in the writes. *)
LEMMA DoneIsWritten ==
    ASSUME NEW t, Writes(t), FirstDone(t) \/ Whole(t)
    PROVE  ~Nil(t)
<1>1. \A i \in Ids : NoWrites[i] = Same
  BY DEF NoWrites
<1>2. \A i \in Ids : \A v : Only(i, v)[i] = v /\ \A j \in Ids : v # Same => Only(i, v)[i] # Same
  BY DEF Only
<1>3. /\ <<t, 1>> \in Ids /\ <<t, 2>> \in Ids /\ <<t, 1>> # <<t, 2>> /\ req[t].id \in Ids
      /\ req[t].title \in Titles /\ Same \notin Titles /\ Same # None
  BY WritesRows
<1>4. \A i \in Ids : \A v, u : [Only(i, v) EXCEPT ![<<t, 2>>] = u][<<t, 1>>] = Only(i, v)[<<t, 1>>]
  BY <1>3 DEF Only
<1>5. \A i \in Ids : \A v, u : [Only(i, v) EXCEPT ![<<t, 1>>] = u][<<t, 1>>] = u
  BY <1>3 DEF Only
<1>6. \A v \in {req[t].title, None} : v # Same
  BY <1>3
<1>7. req[t].op \in Writers
  BY DEF Writes
<1>8. CASE FirstDone(t)
  <2>1. CASE req[t].op = "create"
    <3>1. Pending(t)[<<t, 1>>] = req[t].title
      BY <1>2, <1>3, <1>8, <2>1 DEF FirstDone
    <3> QED BY <1>1, <1>3, <3>1 DEF Nil
  <2>2. CASE req[t].op = "create_list"
    <3>1. Pending(t) = [Only(<<t, 1>>, req[t].title) EXCEPT ![<<t, 2>>] = req[t].other]
      BY <1>8, <2>2 DEF FirstDone
    <3>2. Pending(t)[<<t, 1>>] = Only(<<t, 1>>, req[t].title)[<<t, 1>>]
      BY <1>3, <1>4, <3>1
    <3>3. Pending(t)[<<t, 1>>] = req[t].title
      BY <1>2, <1>3, <3>2, Zenon
    <3> QED BY <1>1, <1>3, <3>3 DEF Nil
  <2>3. CASE req[t].op \in {"update", "delete", "replace"}
    <3>1. \E v \in {req[t].title, None} : Pending(t) = Only(req[t].id, v)
      BY <1>8, <2>3 DEF FirstDone
    <3>2. Pending(t)[req[t].id] \in {req[t].title, None}
      BY <1>2, <1>3, <3>1
    <3> QED BY <1>1, <1>3, <3>2 DEF Nil
  <2>4. CASE req[t].op \in {"delete_list", "upsert"}
    BY <1>8, <2>4 DEF FirstDone
  <2> QED BY <1>7, <2>1, <2>2, <2>3, <2>4 DEF Writers
<1>9. CASE Whole(t)
  <2>1. CASE req[t].op \in {"replace", "upsert"} /\ ~FirstDone(t)
    <3>1. \/ Pending(t) = Only(<<t, 1>>, req[t].title)
          \/ Pending(t) = [Only(req[t].id, None) EXCEPT ![<<t, 1>>] = req[t].title]
      BY <1>9, <2>1 DEF Whole
    <3>2. CASE Pending(t) = Only(<<t, 1>>, req[t].title)
      <4>1. Pending(t)[<<t, 1>>] = req[t].title
        BY <1>2, <1>3, <3>2
      <4> QED BY <1>1, <1>3, <4>1 DEF Nil
    <3>3. CASE Pending(t) = [Only(req[t].id, None) EXCEPT ![<<t, 1>>] = req[t].title]
      <4>1. Pending(t)[<<t, 1>>] = req[t].title
        BY <1>3, <1>5, <3>3
      <4> QED BY <1>1, <1>3, <4>1 DEF Nil
    <3> QED BY <3>1, <3>2, <3>3
  <2>2. CASE req[t].op \notin {"replace", "upsert"}
    <3>1. FirstDone(t)
      BY <1>9, <2>2 DEF Whole
    <3> QED BY <1>8, <3>1
  <2> QED BY <1>8, <2>1, <2>2
<1> QED BY <1>8, <1>9

(* Other tasks do not touch the rows that a transaction has written, so    *)
(* what was done stays done.                                               *)
LEMMA DoneStays ==
    ASSUME NEW t, Writes(t), req'[t] = req[t], writes'[<<t, 1>>] = writes[<<t, 1>>],
           \A i \in Ids : writes[<<t, 1>>][i] # Same => table'[i] = table[i]
    PROVE  /\ FirstDone(t) => FirstDone(t)'
           /\ Whole(t) => Whole(t)'
<1>1. \A i \in Ids : \A v : Only(i, v)[i] = v
  BY DEF Only
<1>2. /\ <<t, 1>> \in Ids /\ <<t, 2>> \in Ids /\ <<t, 1>> # <<t, 2>> /\ req[t].id \in Ids
      /\ req[t].title \in Titles /\ Same \notin Titles /\ Same # None
  BY WritesRows
<1>3. \A v, u : [Only(req[t].id, v) EXCEPT ![<<t, 1>>] = u][req[t].id] \in {v, u}
  BY <1>2 DEF Only
<1>4. /\ Pending(t)' = Pending(t) /\ Nil(t)' = Nil(t)
      /\ \A i \in Ids : Pending(t)[i] # Same => table'[i] = table[i]
  BY DEF Pending, Nil, NoWrites
<1>5. req[t].op \in Writers
  BY DEF Writes
<1>7. ASSUME FirstDone(t) PROVE FirstDone(t)'
  <2>1. CASE req[t].op \in {"create", "create_list"}
    BY <1>4, <1>7, <2>1 DEF FirstDone, Only
  <2>2. CASE req[t].op \in {"update", "delete", "replace"}
    <3>4. \E v \in {req[t].title, None} : Pending(t) = Only(req[t].id, v)
      BY <1>7, <2>2 DEF FirstDone
    <3>1. Pending(t)[req[t].id] \in {req[t].title, None}
      BY <1>1, <1>2, <3>4, Zenon
    <3>2. table'[req[t].id] = table[req[t].id]
      BY <1>2, <1>4, <3>1
    <3> QED BY <1>4, <1>7, <2>2, <3>1, <3>2 DEF FirstDone, Only
  <2>3. CASE req[t].op \in {"delete_list", "upsert"}
    BY <1>4, <1>7, <2>3 DEF FirstDone
  <2> QED BY <1>5, <2>1, <2>2, <2>3 DEF Writers
<1>8. ASSUME Whole(t) PROVE Whole(t)'
  <2>1. CASE req[t].op = "replace"
    <3>1. /\ Pending(t) = [Only(req[t].id, None) EXCEPT ![<<t, 1>>] = req[t].title]
          /\ table[req[t].id] # None
      BY <1>8, <2>1 DEF Whole
    <3>2. None # Same /\ req[t].title # Same
      BY <1>2
    <3>3. Pending(t)[req[t].id] # Same
      <4>1. Pending(t)[req[t].id] \in {None, req[t].title}
        BY <1>3, <3>1
      <4> QED BY <3>2, <4>1
    <3>4. table'[req[t].id] = table[req[t].id]
      BY <1>2, <1>4, <3>3
    <3> QED BY <1>4, <2>1, <3>1, <3>4 DEF Whole, Only
  <2>2. CASE req[t].op = "upsert"
    BY <1>4, <1>7, <1>8, <2>2 DEF Whole
  <2>3. CASE req[t].op \notin {"replace", "upsert"}
    BY <1>7, <1>8, <2>3 DEF Whole
  <2> QED BY <2>1, <2>2, <2>3
<1> QED BY <1>7, <1>8

(* What the statements of these methods write. *)
LEMMA InsertsOne ==
    ASSUME NEW t, NEW e, NEW a
    PROVE  /\ DOMAIN Written(t, Insert(<<a>>, e)) = {<<t, 1>>}
           /\ Written(t, Insert(<<a>>, e))[<<t, 1>>] = a
           /\ Returned(t, Insert(<<a>>, e)) = {<<t, 1>>}
<1>1. ASSUME NEW titles
      PROVE  Written(t, Insert(titles, e)) = [i \in {<<t, n>> : n \in DOMAIN titles} |-> titles[i[2]]]
  <2>1. Insert(titles, e).do = "insert" /\ Insert(titles, e).titles = titles
    BY DEF Insert
  <2> QED BY <2>1 DEF Written
<1>2. {<<t, n>> : n \in DOMAIN <<a>>} = {<<t, 1>>}
  OBVIOUS
<1>3. Written(t, Insert(<<a>>, e)) = [i \in {<<t, 1>>} |-> <<a>>[i[2]]]
  BY <1>1, <1>2
<1>4. Insert(<<a>>, e).do = "insert"
  BY DEF Insert
<1> QED BY <1>3, <1>4 DEF Returned

(* What an insert of two rows writes and returns. *)
LEMMA InsertsTwo ==
    ASSUME NEW t, NEW e, NEW a, NEW b
    PROVE  /\ DOMAIN Written(t, Insert(<<a, b>>, e)) = {<<t, 1>>, <<t, 2>>}
           /\ Written(t, Insert(<<a, b>>, e))[<<t, 1>>] = a
           /\ Written(t, Insert(<<a, b>>, e))[<<t, 2>>] = b
           /\ Returned(t, Insert(<<a, b>>, e)) = {<<t, 1>>, <<t, 2>>}
<1>1. ASSUME NEW titles
      PROVE  Written(t, Insert(titles, e)) = [i \in {<<t, n>> : n \in DOMAIN titles} |-> titles[i[2]]]
  <2>1. Insert(titles, e).do = "insert" /\ Insert(titles, e).titles = titles
    BY DEF Insert
  <2> QED BY <2>1 DEF Written
<1>2. {<<t, n>> : n \in DOMAIN <<a, b>>} = {<<t, 1>>, <<t, 2>>}
  OBVIOUS
<1>3. Written(t, Insert(<<a, b>>, e)) = [i \in {<<t, 1>>, <<t, 2>>} |-> <<a, b>>[i[2]]]
  BY <1>1, <1>2
<1>4. Insert(<<a, b>>, e).do = "insert"
  BY DEF Insert
<1> QED BY <1>3, <1>4 DEF Returned

(* The rows that an update or a delete finds. *)
Rows(t, filter) == {i \in Ids : Matches(filter, i, View(Current(t))[i])}

(* What the other statements write and return. *)
LEMMA FoundWrites ==
    ASSUME NEW t, NEW filter, NEW v, NEW e
    PROVE  /\ DOMAIN Written(t, Update(filter, v, e)) = Rows(t, filter)
           /\ \A i \in Rows(t, filter) : Written(t, Update(filter, v, e))[i] = v
           /\ DOMAIN Written(t, Delete(filter)) = Rows(t, filter)
           /\ \A i \in Rows(t, filter) : Written(t, Delete(filter))[i] = None
           /\ DOMAIN Written(t, Select(filter)) = {}
           /\ Returned(t, Update(filter, v, e)) = Rows(t, filter)
           /\ Returned(t, Delete(filter)) = Rows(t, filter)
<1>1. /\ Update(filter, v, e).do = "update" /\ Update(filter, v, e).filter = filter
      /\ Update(filter, v, e).title = v
  BY DEF Update
<1>2. Delete(filter).do = "delete" /\ Delete(filter).filter = filter
  BY DEF Delete
<1>3. Select(filter).do = "select"
  BY DEF Select
<1>4. Written(t, Update(filter, v, e)) = [i \in Rows(t, filter) |-> v]
  BY <1>1 DEF Written, Rows
<1>5. Written(t, Delete(filter)) = [i \in Rows(t, filter) |-> None]
  BY <1>2 DEF Written, Rows
<1>6. Written(t, Select(filter)) = [i \in {} |-> None]
  BY <1>3 DEF Written
<1> QED BY <1>1, <1>2, <1>4, <1>5, <1>6 DEF Returned

(* What each filter finds. *)
LEMMA FilterFinds ==
    ASSUME NEW i, NEW v, NEW k
    PROVE  /\ Matches(Everything, i, v) <=> v # None
           /\ Matches(ById(k), i, v) <=> (v # None /\ i = k)
           /\ Matches(ByTitle(k), i, v) <=> (v # None /\ v = k)
BY DEF Matches, Everything, ById, ByTitle

(* The rows that a task may insert are free until it commits. *)
FreshOK ==
    \A t \in Task \ applied : \A n \in {1, 2} :
        table[<<t, n>>] = None /\ \A c \in Conn : c[1] # t => writes[c][<<t, n>>] = Same

(* The first statement of a method, when nothing is written yet. *)
LEMMA FirstStatement ==
    ASSUME DbTypeOK, NEW t, Writes(t), Nil(t), Current(t) = <<t, 1>>,
           NEW s, s = First(req[t]), UNCHANGED <<req, table>>, rows'[t] = Returned(t, s),
           writes'[<<t, 1>>] = [i \in Ids |-> IF i \in DOMAIN Written(t, s) THEN Written(t, s)[i]
                                             ELSE writes[<<t, 1>>][i]]
    PROVE  Ran(t)'
<1> DEFINE w == Written(t, s)
<1>0. PICK id, title, other : id = req[t].id /\ title = req[t].title /\ other = req[t].other
  OBVIOUS
<1>1. /\ <<t, 1>> \in Ids /\ <<t, 2>> \in Ids /\ <<t, 1>> # <<t, 2>>
      /\ id \in Ids /\ title \in Titles /\ other \in Titles
      /\ Same \notin Titles /\ Same # None /\ None \notin Titles
  BY <1>0, WritesRows
<1>2. \A i \in Ids : writes[<<t, 1>>][i] = Same
  BY DEF Nil, Pending, NoWrites
<1>3. \A i \in Ids : View(Current(t))[i] = table[i]
  BY <1>2 DEF View
<1>4. req'[t] = req[t] /\ table' = table
  OBVIOUS
<1>5. Pending(t)' = [i \in Ids |-> IF i \in DOMAIN w THEN w[i] ELSE Same]
  BY <1>2 DEF Pending
<1>6. \A filter : Rows(t, filter) = {i \in Ids : Matches(filter, i, table[i])}
  BY <1>3 DEF Rows
<1>7. (Nil(t)') <=> Pending(t)' = NoWrites
  BY DEF Nil, NoWrites
<1> HIDE DEF w
<1>8. CASE req[t].op = "create"
  <2>1. s = Insert(<<title>>, Http(422))
    BY <1>0, <1>8 DEF First
  <2>2. DOMAIN w = {<<t, 1>>} /\ w[<<t, 1>>] = title /\ rows'[t] # {}
    <3> DEFINE h == Insert(<<title>>, Http(422))
    <3>1. /\ DOMAIN Written(t, h) = {<<t, 1>>} /\ Written(t, h)[<<t, 1>>] = title
          /\ Returned(t, h) = {<<t, 1>>}
      BY InsertsOne
    <3> HIDE DEF h
    <3>2. s = h
      BY <2>1 DEF h
    <3> QED BY <3>1, <3>2 DEF w
  <2>3. Pending(t)' = Only(<<t, 1>>, title)
    BY <1>5, <2>2 DEF Only
  <2> QED BY <1>0, <1>4, <1>8, <2>2, <2>3 DEF Ran, FirstDone, Only
<1>9. CASE req[t].op = "create_list"
  <2>1. s = Insert(<<title, other>>, Failure)
    BY <1>0, <1>9 DEF First
  <2>2. /\ DOMAIN w = {<<t, 1>>, <<t, 2>>} /\ w[<<t, 1>>] = title /\ w[<<t, 2>>] = other
        /\ rows'[t] # {}
    <3> DEFINE h == Insert(<<title, other>>, Failure)
    <3>1. /\ DOMAIN Written(t, h) = {<<t, 1>>, <<t, 2>>} /\ Written(t, h)[<<t, 1>>] = title
          /\ Written(t, h)[<<t, 2>>] = other /\ Returned(t, h) = {<<t, 1>>, <<t, 2>>}
      BY InsertsTwo
    <3> HIDE DEF h
    <3>2. s = h
      BY <2>1 DEF h
    <3> QED BY <3>1, <3>2 DEF w
  <2>3. Pending(t)' = [Only(<<t, 1>>, title) EXCEPT ![<<t, 2>>] = other]
    BY <1>1, <1>5, <2>2 DEF Only
  <2> QED BY <1>0, <1>4, <1>9, <2>2, <2>3 DEF Ran, FirstDone, Only
<1>10. CASE req[t].op \in {"update", "delete", "replace"}
  <2> DEFINE v == IF req[t].op = "update" THEN title ELSE None
  <2>1. s = (IF req[t].op = "update" THEN Update(ById(id), title, Http(422)) ELSE Delete(ById(id)))
    BY <1>0, <1>10 DEF First
  <2>2. DOMAIN w = Rows(t, ById(id)) /\ (\A i \in Rows(t, ById(id)) : w[i] = v) /\ rows'[t] = Rows(t, ById(id))
    <3>1. CASE req[t].op = "update"
      <4>1. s = Update(ById(id), title, Http(422)) /\ v = title
        BY <2>1, <3>1
      <4> DEFINE h == Update(ById(id), title, Http(422))
      <4>2. /\ DOMAIN Written(t, h) = Rows(t, ById(id)) /\ Returned(t, h) = Rows(t, ById(id))
            /\ \A i \in Rows(t, ById(id)) : Written(t, h)[i] = title
        BY FoundWrites
      <4> HIDE DEF h
      <4>3. s = h
        BY <4>1 DEF h
      <4> QED BY <4>1, <4>2, <4>3 DEF w
    <3>2. CASE req[t].op # "update"
      <4>1. s = Delete(ById(id)) /\ v = None
        BY <2>1, <3>2
      <4> DEFINE h == Delete(ById(id))
      <4>2. /\ DOMAIN Written(t, h) = Rows(t, ById(id)) /\ Returned(t, h) = Rows(t, ById(id))
            /\ \A i \in Rows(t, ById(id)) : Written(t, h)[i] = None
        BY FoundWrites
      <4> HIDE DEF h
      <4>3. s = h
        BY <4>1 DEF h
      <4> QED BY <4>1, <4>2, <4>3 DEF w
    <3> QED BY <3>1, <3>2
  <2>3. Rows(t, ById(id)) = IF table[id] # None THEN {id} ELSE {}
    <3>1. \A i, u : Matches(ById(id), i, u) <=> (u # None /\ i = id)
      BY FilterFinds, Zenon
    <3>2. Rows(t, ById(id)) = {i \in Ids : table[i] # None /\ i = id}
      BY <1>6, <3>1
    <3> QED BY <1>1, <3>2
  <2>4. CASE table[id] # None
    <3>1. Pending(t)' = Only(id, v) /\ rows'[t] # {}
      BY <1>5, <2>2, <2>3, <2>4 DEF Only
    <3> QED BY <1>0, <1>4, <1>10, <2>4, <3>1 DEF Ran, FirstDone, Only
  <2>5. CASE table[id] = None
    <3>1. Pending(t)' = NoWrites /\ rows'[t] = {}
      BY <1>5, <2>2, <2>3, <2>5 DEF NoWrites
    <3> QED BY <1>0, <1>4, <1>7, <1>10, <3>1 DEF Ran
  <2> QED BY <2>4, <2>5
<1>11. CASE req[t].op \in {"delete_list", "upsert"}
  <2> DEFINE v == IF req[t].op = "upsert" THEN title ELSE None
             f == IF req[t].op = "upsert" THEN ByTitle(title) ELSE Everything
  <2>1. s = (IF req[t].op = "upsert" THEN Update(ByTitle(title), title, Failure) ELSE Delete(Everything))
    BY <1>0, <1>11 DEF First
  <2>2. DOMAIN w = Rows(t, f) /\ (\A i \in Rows(t, f) : w[i] = v) /\ rows'[t] = Rows(t, f)
    <3>1. CASE req[t].op = "upsert"
      <4>1. s = Update(ByTitle(title), title, Failure) /\ v = title /\ f = ByTitle(title)
        BY <2>1, <3>1
      <4> DEFINE h == Update(ByTitle(title), title, Failure)
      <4>2. /\ DOMAIN Written(t, h) = Rows(t, ByTitle(title)) /\ Returned(t, h) = Rows(t, ByTitle(title))
            /\ \A i \in Rows(t, ByTitle(title)) : Written(t, h)[i] = title
        BY FoundWrites
      <4> HIDE DEF h
      <4>3. s = h
        BY <4>1 DEF h
      <4> QED BY <4>1, <4>2, <4>3 DEF w
    <3>2. CASE req[t].op # "upsert"
      <4>1. s = Delete(Everything) /\ v = None /\ f = Everything
        BY <2>1, <3>2
      <4> DEFINE h == Delete(Everything)
      <4>2. /\ DOMAIN Written(t, h) = Rows(t, Everything) /\ Returned(t, h) = Rows(t, Everything)
            /\ \A i \in Rows(t, Everything) : Written(t, h)[i] = None
        BY FoundWrites
      <4> HIDE DEF h
      <4>3. s = h
        BY <4>1 DEF h
      <4> QED BY <4>1, <4>2, <4>3 DEF w
    <3> QED BY <3>1, <3>2
  <2>3. \A i \in Rows(t, f) : i \in Ids /\ table[i] # None /\ (req[t].op = "upsert" => table[i] = title)
    <3>1. \A i, u : /\ Matches(Everything, i, u) <=> u # None
                    /\ Matches(ByTitle(title), i, u) <=> (u # None /\ u = title)
      BY FilterFinds, Zenon
    <3> QED BY <1>6, <3>1
  <2>4. \A i \in Ids : Pending(t)'[i] = IF i \in Rows(t, f) THEN v ELSE Same
    BY <1>5, <2>2
  <2> HIDE DEF f
  <2>5. v # Same
    BY <1>1
  <2>6. CASE Rows(t, f) = {}
    <3>1. Pending(t)' = NoWrites
      BY <1>5, <2>2, <2>6 DEF NoWrites
    <3> QED BY <1>0, <1>4, <1>7, <1>11, <2>2, <2>6, <3>1 DEF Ran
  <2>7. CASE Rows(t, f) # {}
    <3>1. PICK i \in Ids : Pending(t)'[i] = v
      BY <2>3, <2>4, <2>7
    <3>2. ~Nil(t)'
      BY <1>7, <2>5, <3>1 DEF NoWrites
    <3>3. \A j \in Ids : Pending(t)'[j] # Same => /\ Pending(t)'[j] = v /\ table'[j] # None
                                                 /\ (req[t].op = "upsert" => table'[j] = title)
      BY <2>3, <2>4
    <3> QED BY <1>0, <1>4, <1>11, <2>2, <2>7, <3>2, <3>3 DEF Ran, FirstDone
  <2> QED BY <2>6, <2>7
<1> QED BY <1>8, <1>9, <1>10, <1>11 DEF Writes, Writers

(* The second one, with its row still free. *)
LEMMA SecondStatement ==
    ASSUME DbTypeOK, NEW t, Writes(t), req[t].op \in {"upsert", "replace"}, Half(t),
           Current(t) = <<t, 1>>, NEW s, s = Second(req[t]), UNCHANGED <<req, table>>,
           writes'[<<t, 1>>] = [i \in Ids |-> IF i \in DOMAIN Written(t, s) THEN Written(t, s)[i]
                                             ELSE writes[<<t, 1>>][i]]
    PROVE  Whole(t)'
<1> DEFINE w == Written(t, s)
<1>0. PICK id, title : id = req[t].id /\ title = req[t].title
  OBVIOUS
<1>1. <<t, 1>> \in Ids
  BY WritesRows
<1>2. DOMAIN w = {<<t, 1>>} /\ w[<<t, 1>>] = title
  <2>1. PICK e : s = Insert(<<title>>, e)
    BY <1>0 DEF Second
  <2> DEFINE h == Insert(<<title>>, e)
  <2>2. DOMAIN Written(t, h) = {<<t, 1>>} /\ Written(t, h)[<<t, 1>>] = title
    BY InsertsOne
  <2> HIDE DEF h
  <2>3. s = h
    BY <2>1 DEF h
  <2> QED BY <2>2, <2>3
<1>3. Pending(t)' = [i \in Ids |-> IF i = <<t, 1>> THEN title ELSE Pending(t)[i]]
  BY <1>2 DEF Pending
<1>4. req'[t] = req[t] /\ table' = table
  OBVIOUS
<1> HIDE DEF w
<1>5. CASE req[t].op = "upsert"
  <2>1. Pending(t) = NoWrites
    BY <1>0, <1>5 DEF Half, Nil
  <2>2. Pending(t)' = Only(<<t, 1>>, title)
    BY <1>3, <2>1 DEF NoWrites, Only
  <2> QED BY <1>0, <1>4, <1>5, <2>2 DEF Whole, Only
<1>6. CASE req[t].op = "replace"
  <2>1. Pending(t) = Only(id, None) /\ table[id] # None
    BY <1>0, <1>6 DEF Half, FirstDone
  <2>2. Pending(t)' = [Only(id, None) EXCEPT ![<<t, 1>>] = title]
    BY <1>1, <1>3, <2>1 DEF Only
  <2> QED BY <1>0, <1>4, <1>6, <2>1, <2>2 DEF Whole, Only
<1> QED BY <1>5, <1>6

(* What is complete after the first statement, but for replace. *)
LEMMA FirstIsWhole ==
    ASSUME NEW t, FirstDone(t), req[t].op # "replace"
    PROVE  Whole(t)
BY DEF Whole

(* What a method leaves when its transaction commits is what Store says    *)
(* that its request leaves.                                                *)
LEMMA CommitApplies ==
    ASSUME DbTypeOK, Isolated, FreshOK, NEW t, Writes(t), t \notin applied, Whole(t)
    PROVE  View(<<t, 1>>) \in Requested!Outcomes(t, table)
<1> DEFINE V == View(<<t, 1>>)
           w == Pending(t)
           r1 == <<t, 1>>
           r2 == <<t, 2>>
<1>0. PICK id, title, other : id = req[t].id /\ title = req[t].title /\ other = req[t].other
  OBVIOUS
<1>1. /\ r1 \in Conn /\ r1 \in Ids /\ r2 \in Ids /\ r1 # r2 /\ id \in Ids
      /\ title # Same /\ other # Same /\ None # Same /\ title # None /\ other # None
  BY <1>0, WritesRows
<1>2. table[r1] = None /\ table[r2] = None
  BY DEF FreshOK, Writes
<1>3. /\ V = [i \in Ids |-> IF w[i] = Same THEN table[i] ELSE w[i]]
      /\ table \in [Ids -> Titles \cup {None}] /\ w \in [Ids -> Titles \cup {None, Same}]
  BY <1>1 DEF View, Pending, DbTypeOK
<1>4. \A i, j \in Ids : i # j /\ V[i] = V[j] => V[i] = None
  BY <1>1 DEF Isolated, Distinct
<1>5. (~Nil(t)) <=> w # NoWrites
  BY DEF Nil
<1> HIDE DEF V, w, r1, r2
<1>6. CASE req[t].op = "create"
  <2>1. w = [j \in Ids |-> IF j = r1 THEN title ELSE Same]
    BY <1>0, <1>6 DEF Whole, FirstDone, Only, w, r1
  <2>2. V = [table EXCEPT ![r1] = title]
    BY <1>1, <1>3, <2>1
  <2>3. \A i \in Ids : table[i] # title
    BY <1>1, <1>2, <1>3, <1>4, <2>2
  <2>4. V \in {[table EXCEPT ![r1] = title]}
    BY <2>2
  <2> QED BY <1>0, <1>6, <2>3, <2>4
          DEF Requested!Outcomes, Requested!Create, Requested!Has, Requested!With, V, r1
<1>7. CASE req[t].op = "create_list"
  <2> DEFINE U == [table EXCEPT ![r1] = title]
  <2>1. w = [[j \in Ids |-> IF j = r1 THEN title ELSE Same] EXCEPT ![r2] = other]
    BY <1>0, <1>7 DEF Whole, FirstDone, Only, w, r1, r2
  <2>2. V = [U EXCEPT ![r2] = other]
    BY <1>1, <1>3, <2>1
  <2>3. V[r1] = title /\ V[r2] = other /\ \A i \in Ids \ {r1, r2} : V[i] = table[i]
    BY <1>1, <1>3, <2>2
  <2>4. \A i \in Ids : table[i] # title
    BY <1>1, <1>2, <1>4, <2>3
  <2>5. \A i \in Ids : U[i] # other
    BY <1>1, <1>2, <1>3, <1>4, <2>3
  <2>6. U \in Requested!Create(table, t, title)
    BY <1>0, <2>4 DEF Requested!Create, Requested!Has, Requested!With, r1
  <2> HIDE DEF U
  <2>7. V \in IF Requested!Has(U, other) THEN {} ELSE {Requested!With(U, <<t, 2>>, other)}
    BY <2>2, <2>5 DEF Requested!Has, Requested!With, r2
  <2> QED BY <1>0, <1>7, <2>6, <2>7 DEF Requested!Outcomes, V
<1>8. CASE req[t].op = "update"
  <2>1. w = [j \in Ids |-> IF j = id THEN title ELSE Same] /\ table[id] # None
    BY <1>0, <1>8 DEF Whole, FirstDone, Only, w
  <2>2. V = [table EXCEPT ![id] = title]
    BY <1>1, <1>3, <2>1
  <2>3. \A i \in Ids \ {id} : table[i] # title
    BY <1>1, <1>3, <1>4, <2>2
  <2> QED BY <1>0, <1>8, <2>1, <2>2, <2>3 DEF Requested!Outcomes, Requested!With, V
<1>9. CASE req[t].op = "delete"
  <2>1. w = [j \in Ids |-> IF j = id THEN None ELSE Same] /\ table[id] # None
    BY <1>0, <1>9 DEF Whole, FirstDone, Only, w
  <2>2. V = [table EXCEPT ![id] = None]
    BY <1>1, <1>3, <2>1
  <2> QED BY <1>0, <1>9, <2>1, <2>2 DEF Requested!Outcomes, Requested!Delete, Requested!With, V
<1>10. CASE req[t].op = "delete_list"
  <2> DEFINE S == {i \in Ids : w[i] # Same}
  <2>1. \A i \in S : w[i] = None /\ table[i] # None
    BY <1>10 DEF Whole, FirstDone, w
  <2>2. V = [i \in Ids |-> IF i \in S THEN None ELSE table[i]]
    BY <1>3, <2>1
  <2>3. S \in SUBSET {i \in Ids : table[i] # None}
    BY <2>1
  <2> HIDE DEF S
  <2> QED BY <1>10, <2>2, <2>3 DEF Requested!Outcomes, V
<1>11. CASE req[t].op = "upsert"
  <2>1. CASE FirstDone(t)
    <3>1. w # NoWrites /\ \A i \in Ids : w[i] # Same => w[i] = title /\ table[i] = title
      BY <1>0, <1>5, <1>11, <2>1 DEF FirstDone, w
    <3>2. V = table
      BY <1>3, <3>1
    <3>3. \E i \in Ids : table[i] = title
      BY <1>3, <3>1 DEF NoWrites
    <3> QED BY <1>0, <1>11, <3>2, <3>3 DEF Requested!Outcomes, Requested!Has, V
  <2>2. CASE ~FirstDone(t)
    <3>1. w = [j \in Ids |-> IF j = r1 THEN title ELSE Same]
      BY <1>0, <1>11, <2>2 DEF Whole, Only, w, r1
    <3>2. V = [table EXCEPT ![r1] = title]
      BY <1>1, <1>3, <3>1
    <3>3. \A i \in Ids : table[i] # title
      BY <1>1, <1>2, <1>3, <1>4, <3>2
    <3> QED BY <1>0, <1>11, <3>2, <3>3
            DEF Requested!Outcomes, Requested!Create, Requested!Has, Requested!With, V, r1
  <2> QED BY <2>1, <2>2
<1>12. CASE req[t].op = "replace"
  <2> DEFINE U == [table EXCEPT ![id] = None]
  <2>1. w = [[j \in Ids |-> IF j = id THEN None ELSE Same] EXCEPT ![r1] = title] /\ table[id] # None
    BY <1>0, <1>12 DEF Whole, Only, w, r1
  <2>2. id # r1
    BY <1>2, <2>1
  <2>3. V = [U EXCEPT ![r1] = title]
    BY <1>1, <1>3, <2>1, <2>2
  <2>4. V[r1] = title /\ U[id] = None /\ \A i \in Ids \ {r1, id} : V[i] = table[i] /\ U[i] = table[i]
    BY <1>1, <1>3, <2>3
  <2>5. \A i \in Ids : U[i] # title
    BY <1>1, <1>2, <1>3, <1>4, <2>2, <2>4
  <2>6. U \in Requested!Delete(table, id)
    BY <2>1 DEF Requested!Delete, Requested!With
  <2> HIDE DEF U
  <2>7. V \in Requested!Create(U, t, title)
    BY <2>3, <2>5 DEF Requested!Create, Requested!Has, Requested!With, r1
  <2> QED BY <1>0, <1>12, <2>6, <2>7 DEF Requested!Outcomes, V
<1> QED BY <1>6, <1>7, <1>8, <1>9, <1>10, <1>11, <1>12 DEF Writes, Writers, V

-----------------------------------------------------------------------------
(* Where a task that serves such a request is, and what its transaction    *)
(* has written there.                                                      *)
Left(t, line) ==
    LET q == req[t] IN
    \/ Refused(line) /\ Nil(t) /\ t \notin applied
    \/ line = StartLine(q) /\ Nil(t) /\ t \notin applied
    \/ /\ line = RanLine(q)
       /\ IF t \in applied THEN q.block # "transaction" /\ rows[t] # {} ELSE Ran(t)
    \/ line = SecondLine(q) /\ q.op \in {"upsert", "replace"} /\ Half(t) /\ t \notin applied
    \/ line = End(q) /\ IF t \in applied THEN q.block # "transaction" ELSE Whole(t)

(* In the method, but in no helper. *)
InMethod(t) ==
    LET q == req[t] IN
    /\ Len(frames[t]) = IF q.block = "none" THEN 0 ELSE 1
    /\ q.block # "transaction" => <<t, 1>> \notin tx
    /\ \E line \in Seq(Steps) : todo[t] = One(q, line) /\ Left(t, line)

(* In a helper, whose block holds one statement. *)
InHelper(t) ==
    LET q == req[t] IN
    /\ Len(frames[t]) = IF q.block = "none" THEN 1 ELSE 2
    /\ t \notin applied
    /\ \/ todo[t] = Two(q, <<First(q)>>, RanLine(q)) /\ Nil(t)
       \/ todo[t] = Two(q, <<>>, RanLine(q)) /\ Ran(t)
       \/ /\ todo[t] = Two(q, <<Second(q)>>, End(q))
          /\ q.op \in {"upsert", "replace"} /\ Half(t)
       \/ todo[t] = Two(q, <<>>, End(q)) /\ Whole(t)

(* Before the block of the endpoint, and after it. *)
BeforeBlock(t) ==
    LET q == req[t] IN
    /\ q.block # "none" /\ frames[t] = <<>> /\ t \notin applied
    /\ \/ \E line \in Seq(Steps) : todo[t] = <<line>> /\ Refused(line)
       \/ \E body \in Seq(Steps) : /\ Refused(body) \/ body = StartLine(q)
                                   /\ todo[t] = <<<<With(q.block, FALSE, body)>>>>
AfterBlock(t) ==
    /\ req[t].block # "none" /\ frames[t] = <<>> /\ todo[t] = <<<<>>>>
    /\ t \in applied \/ req[t].op = "delete_list"

(* The block that began the transaction is the endpoint's own, or else the *)
(* helper's.                                                               *)
Began(t) ==
    /\ frames[t] # <<>> => (frames[t][1].began <=> req[t].block # "connection")
    /\ Len(frames[t]) > 1 => (frames[t][2].began <=> req[t].block = "connection")

Writing(t) ==
    IF error[t] # NoError THEN t \in applied => error[t].status = 501
    ELSE Began(t) /\ (BeforeBlock(t) \/ InMethod(t) \/ InHelper(t) \/ AfterBlock(t))

(* A request that only reads has nothing else to do, and one for what is   *)
(* not there does not end well.                                            *)
ReadSteps == [do : {"select"}, filter : Filters] \cup [do : {"raise"}, error : Exceptions]
             \cup {Found} \cup [do : {"return"}, status : {404}]
AndBlocks(S) == S \cup [do : {"with"}, block : Blocks, given : BOOLEAN, body : Seq(S)]
Readable == AndBlocks(AndBlocks(AndBlocks(ReadSteps)))

Missing(line) ==
    line # <<>> /\ LET s == Head(line) IN
        \/ s.do = "return"
        \/ s.do = "with" /\ s.body # <<>> /\ Head(s.body).do = "return"

Reading(t) ==
    /\ t \notin applied /\ Nil(t) /\ todo[t] \in Seq(Seq(Readable))
    /\ req[t].op = "missing" /\ error[t] = NoError => Missing(Head(todo[t]))

Served(t) ==
    answer[t] = NoError => IF req[t].op \in Writers THEN Writing(t) ELSE Reading(t)

(* A task uses one connection. *)
OneConn == \A t \in Task : \A i \in 1..Len(frames[t]) : frames[t][i].conn = 1

(* The invariant that atomicity rests on. *)
StoreInv ==
    /\ req \in [Task -> Requests] /\ DOMAIN rows = Task /\ applied \subseteq Task
    /\ FreshOK /\ OneConn
    /\ \A t \in Task : Served(t)

-----------------------------------------------------------------------------
(* A connection that is in no transaction has written nothing, and a task  *)
(* outside of all blocks has none in one.                                  *)
LEMMA Idle ==
    ASSUME DbTypeOK, BlocksOwnWhatTheyOpened, NEW t \in Task
    PROVE  /\ <<t, 1>> \in Conn
           /\ <<t, 1>> \notin tx => Nil(t)
           /\ frames[t] = <<>> => <<t, 1>> \notin tx
<1>1. <<t, 1>> \in Conn
  BY DatabaseAssumption DEF Conn
<1>2. <<t, 1>> \notin tx => Nil(t)
  BY <1>1 DEF BlocksOwnWhatTheyOpened, Nil, Pending
<1>3. ASSUME frames[t] = <<>> PROVE <<t, 1>> \notin tx
  <2>1. DOMAIN frames[t] = {}
    BY <1>3
  <2>2. <<t, 1>> \notin OpenConns
    BY <2>1 DEF OpenConns
  <2> QED BY <2>2 DEF BlocksOwnWhatTheyOpened
<1> QED BY <1>1, <1>2, <1>3

(* A task in blocks works on its first connection. *)
LEMMA InBlocks ==
    ASSUME DbTypeOK, OneConn, NEW t \in Task, frames[t] # <<>>
    PROVE  /\ Current(t) = <<t, 1>> /\ Last(t).conn = 1
           /\ Len(frames[t]) \in Nat \ {0} /\ Last(t) = frames[t][Len(frames[t])]
<1>1. Len(frames[t]) \in 1..Len(frames[t]) /\ Len(frames[t]) \in Nat \ {0}
  BY DEF DbTypeOK
<1>2. Last(t).conn = 1
  BY <1>1 DEF OneConn, Last
<1> QED BY <1>1, <1>2 DEF Current, Last

(* The first block of a task, and one within it. *)
LEMMA Opens ==
    ASSUME DbTypeOK, NEW t \in Task, frames[t] = <<>>, NEW begin \in BOOLEAN, Checkout(t, begin)
    PROVE  /\ Len(frames'[t]) = 1 /\ frames'[t][1].conn = 1 /\ frames'[t][1].began = begin
           /\ \A o \in Task \ {t} : frames'[o] = frames[o]
           /\ UNCHANGED <<table, writes>> /\ tx' = IF begin THEN tx \cup {<<t, 1>>} ELSE tx
<1> DEFINE f == [conn |-> 1, opened |-> TRUE, began |-> begin, engine |-> Engine]
<1>1. Len(frames[t]) + 1 = 1
  OBVIOUS
<1>2. /\ frames' = [frames EXCEPT ![t] = Append(@, f)] /\ UNCHANGED <<table, writes>>
      /\ tx' = IF begin THEN tx \cup {<<t, 1>>} ELSE tx
  BY <1>1 DEF Checkout, Enter
<1>3. f.conn = 1 /\ f.began = begin
  OBVIOUS
<1> HIDE DEF f
<1>4. frames'[t] = Append(<<>>, f) /\ \A o \in Task \ {t} : frames'[o] = frames[o]
  BY <1>2 DEF DbTypeOK
<1>5. Append(<<>>, f) = <<f>>
  OBVIOUS
<1>6. Len(frames'[t]) = 1 /\ frames'[t][1] = f
  BY <1>4, <1>5
<1> QED BY <1>2, <1>3, <1>4, <1>6

(* A block opened inside another takes its connection, and begins a        *)
(* transaction if there is none.                                           *)
LEMMA Joins ==
    ASSUME DbTypeOK, OneConn, NEW t \in Task, frames[t] # <<>>, EnsureTransaction(t, TRUE)
    PROVE  /\ Len(frames'[t]) = Len(frames[t]) + 1
           /\ \A i \in 1..Len(frames[t]) : frames'[t][i] = frames[t][i]
           /\ frames'[t][Len(frames[t]) + 1].conn = 1
           /\ frames'[t][Len(frames[t]) + 1].began = (<<t, 1>> \notin tx)
           /\ \A o \in Task \ {t} : frames'[o] = frames[o]
           /\ UNCHANGED <<table, writes>> /\ tx' = tx \cup {<<t, 1>>}
<1> DEFINE began == <<t, 1>> \notin tx
           f == [conn |-> 1, opened |-> FALSE, began |-> began, engine |-> 0]
<1>1. /\ frames' = [frames EXCEPT ![t] = Append(@, f)] /\ UNCHANGED <<table, writes>>
      /\ tx' = tx \cup {<<t, 1>>}
  BY InBlocks DEF EnsureTransaction, Enter
<1> HIDE DEF began
<1>2. f.conn = 1 /\ f.began = began
  OBVIOUS
<1> HIDE DEF f
<1>3. frames'[t] = Append(frames[t], f) /\ \A o \in Task \ {t} : frames'[o] = frames[o]
  BY <1>1 DEF DbTypeOK
<1>4. frames[t] \in Seq(Frame)
  BY DEF DbTypeOK
<1>5. /\ Len(frames'[t]) = Len(frames[t]) + 1 /\ frames'[t][Len(frames[t]) + 1] = f
      /\ \A i \in 1..Len(frames[t]) : frames'[t][i] = frames[t][i]
  BY <1>3, <1>4
<1> QED BY <1>1, <1>2, <1>3, <1>5 DEF began

(* How a block is entered. *)
LEMMA Enters ==
    ASSUME ApiInv, NEW t \in Task, EnterBlock(t)
    PROVE  /\ Running(t) /\ Step(t).do = "with" /\ Step(t).body \in Seq(Inside)
           /\ todo' = [todo EXCEPT ![t] = <<Step(t).body>> \o Rest(t)]
           /\ UNCHANGED <<req, rows, error, applied, answer>>
           /\ IF frames[t] = <<>> THEN Checkout(t, Step(t).block # "connection")
              ELSE Step(t).block = "ensure" /\ EnsureTransaction(t, TRUE)
<1>1. /\ Running(t) /\ Step(t).do = "with"
      /\ todo' = [todo EXCEPT ![t] = <<Step(t).body>> \o Rest(t)]
      /\ UNCHANGED <<req, rows, error, applied, answer>>
      /\ Step(t).block = "connection" => Connection(t)
      /\ Step(t).block = "transaction" => Transaction(t)
      /\ Step(t).block = "ensure" => EnsureTransaction(t, Step(t).given)
  BY DEF EnterBlock
<1>2. CASE frames[t] = <<>>
  <2>1. Step(t).block \in Blocks /\ Step(t).given = FALSE /\ Step(t).body \in Seq(Inside)
    BY <1>1, <1>2, StepOf, StepKinds
  <2>2. EnsureTransaction(t, FALSE) => Transaction(t)
    BY DEF EnsureTransaction
  <2>3. Checkout(t, Step(t).block # "connection")
    <3>1. CASE Step(t).block = "connection"
      <4>1. (Step(t).block # "connection") = FALSE
        BY <3>1
      <4> QED BY <1>1, <3>1, <4>1 DEF Connection
    <3>2. CASE Step(t).block # "connection"
      <4>1. (Step(t).block # "connection") = TRUE /\ Transaction(t)
        BY <1>1, <2>1, <2>2, <3>2 DEF Blocks
      <4> QED BY <4>1 DEF Transaction
    <3> QED BY <3>1, <3>2
  <2> QED BY <1>1, <1>2, <2>1, <2>3
<1>3. CASE frames[t] # <<>>
  <2>1. Step(t).block = "ensure" /\ Step(t).given = TRUE /\ Step(t).body \in Seq(Inside)
    BY <1>1, <1>3, StepOf, StepKinds
  <2> QED BY <1>1, <1>3, <2>1
<1> QED BY <1>2, <1>3

(* A connection, or a commit, that fails. *)
Breaks(t) == ConnectFails(t) \/ CommitFails(t)

(* What fails leaves the table as it is; a block that cannot commit ends.  *)
LEMMA Broken ==
    ASSUME ApiInv, OneConn, NEW t \in Task, Breaks(t)
    PROVE  /\ answer[t] = NoError /\ error[t] = NoError /\ <<t, 1>> \in Conn
           /\ UNCHANGED <<req, rows, applied, answer, table>>
           /\ error'[t] = Failure /\ todo'[t] \in {todo[t], Tail(todo[t])}
           /\ \A o \in Task \ {t} : /\ error'[o] = error[o] /\ todo'[o] = todo[o]
                                   /\ frames'[o] = frames[o]
           /\ Len(frames'[t]) <= Len(frames[t])
           /\ \A i \in 1..Len(frames'[t]) : frames'[t][i] = frames[t][i]
           /\ tx' \in {tx, tx \ {<<t, 1>>}}
           /\ writes'[<<t, 1>>] \in {NoWrites, writes[<<t, 1>>]}
           /\ \A c \in Conn \ {<<t, 1>>} : writes'[c] = writes[c]
<1>1. DbTypeOK /\ <<t, 1>> \in Conn /\ DOMAIN todo = Task /\ DOMAIN error = Task
  BY DatabaseAssumption DEF ApiInv, Conn
<1>2. DOMAIN writes = Conn /\ frames[t] \in Seq(Frame) /\ DOMAIN frames = Task /\ Len(frames[t]) \in Nat
  BY <1>1 DEF DbTypeOK
<1>3. CASE ConnectFails(t)
  <2>1. /\ answer[t] = NoError /\ error[t] = NoError
        /\ error' = [error EXCEPT ![t] = Failure]
        /\ UNCHANGED <<req, rows, applied, answer, table, todo, frames, tx, writes>>
    BY <1>3 DEF ConnectFails, NeedsConnection, Running, NoConnection, Raises
  <2> QED BY <1>1, <1>2, <2>1
<1>4. CASE CommitFails(t)
  <2>1. /\ answer[t] = NoError /\ error[t] = NoError /\ frames[t] # <<>>
        /\ Leave(t, FALSE) /\ todo' = [todo EXCEPT ![t] = Tail(@)]
        /\ error' = [error EXCEPT ![t] = Failure] /\ UNCHANGED <<req, rows, applied, answer>>
    BY <1>4 DEF CommitFails
  <2>2. Current(t) = <<t, 1>> /\ Len(frames[t]) \in Nat \ {0}
    BY <1>1, <2>1, InBlocks
  <2>3. /\ frames' = [frames EXCEPT ![t] = SubSeq(@, 1, Len(@) - 1)] /\ table' = table
        /\ tx' \in {tx, tx \ {<<t, 1>>}} /\ writes' \in {writes, [writes EXCEPT ![<<t, 1>>] = NoWrites]}
    BY <2>1, <2>2 DEF Leave
  <2>4. frames'[t] = SubSeq(frames[t], 1, Len(frames[t]) - 1)
    BY <1>2, <2>3
  <2>5. /\ Len(frames'[t]) = Len(frames[t]) - 1
        /\ \A i \in 1..(Len(frames[t]) - 1) : frames'[t][i] = frames[t][i]
    BY <1>2, <2>1, <2>4, FramesLeft
  <2>6. /\ \A o \in Task \ {t} : /\ error'[o] = error[o] /\ todo'[o] = todo[o]
                               /\ frames'[o] = frames[o]
        /\ error'[t] = Failure /\ todo'[t] = Tail(todo[t])
    BY <1>1, <1>2, <2>1, <2>3
  <2>7. /\ writes'[<<t, 1>>] \in {NoWrites, writes[<<t, 1>>]}
        /\ \A c \in Conn \ {<<t, 1>>} : writes'[c] = writes[c]
    BY <1>1, <1>2, <2>3
  <2> QED BY <1>1, <2>1, <2>2, <2>3, <2>5, <2>6, <2>7
<1> QED BY <1>3, <1>4 DEF Breaks

-----------------------------------------------------------------------------
(* What a step of another task leaves to a task. *)
Untouched(o) ==
    /\ req' = req /\ todo'[o] = todo[o] /\ frames'[o] = frames[o] /\ rows'[o] = rows[o]
    /\ error'[o] = error[o] /\ answer'[o] = answer[o]
    /\ o \in applied' <=> o \in applied
    /\ <<o, 1>> \in tx' <=> <<o, 1>> \in tx
    /\ writes'[<<o, 1>>] = writes[<<o, 1>>]
    /\ \A i \in Ids : writes[<<o, 1>>][i] # Same => table'[i] = table[i]

(* A task that a step leaves alone stays where it was. *)
LEMMA Kept ==
    ASSUME NEW o \in Task, req[o] \in Request, Served(o), Untouched(o)
    PROVE  Served(o)'
<1>1. /\ req'[o] = req[o] /\ todo'[o] = todo[o] /\ frames'[o] = frames[o] /\ rows'[o] = rows[o]
      /\ error'[o] = error[o] /\ answer'[o] = answer[o]
      /\ o \in applied' <=> o \in applied
      /\ <<o, 1>> \in tx' <=> <<o, 1>> \in tx
  BY DEF Untouched
<1>2. (Nil(o)') <=> Nil(o)
  BY DEF Untouched, Nil, Pending, NoWrites
<1>3. CASE req[o].op \in Writers /\ answer[o] = NoError /\ error[o] = NoError
  <2>1. Writes(o)
    BY <1>3 DEF Writes
  <2>2. FirstDone(o) => FirstDone(o)'
    BY <2>1, DoneStays DEF Untouched
  <2>3. Whole(o) => Whole(o)'
    BY <2>1, DoneStays DEF Untouched
  <2>4. /\ Ran(o) => Ran(o)'
        /\ Half(o) => Half(o)'
    BY <1>1, <1>2, <2>2 DEF Ran, Half
  <2>5. ASSUME NEW line, Left(o, line) PROVE Left(o, line)'
    BY <1>1, <1>2, <2>3, <2>4, <2>5 DEF Left
  <2>6. Writing(o) /\ Began(o) /\ (BeforeBlock(o) \/ InMethod(o) \/ InHelper(o) \/ AfterBlock(o))
    BY <1>3 DEF Served, Writing
  <2>7. Began(o)'
    BY <1>1, <2>6 DEF Began
  <2>8. CASE BeforeBlock(o)
    <3>1. BeforeBlock(o)'
      BY <1>1, <2>8 DEF BeforeBlock
    <3> QED BY <1>1, <1>3, <2>7, <3>1 DEF Served, Writing
  <2>9. CASE InMethod(o)
    <3>1. PICK line \in Seq(Steps) : todo[o] = One(req[o], line) /\ Left(o, line)
      BY <2>9 DEF InMethod
    <3>2. InMethod(o)'
      BY <1>1, <2>5, <2>9, <3>1 DEF InMethod
    <3> QED BY <1>1, <1>3, <2>7, <3>2 DEF Served, Writing
  <2>10. CASE InHelper(o)
    <3>1. InHelper(o)'
      BY <1>1, <1>2, <2>3, <2>4, <2>10 DEF InHelper
    <3> QED BY <1>1, <1>3, <2>7, <3>1 DEF Served, Writing
  <2>11. CASE AfterBlock(o)
    <3>1. AfterBlock(o)'
      BY <1>1, <2>11 DEF AfterBlock
    <3> QED BY <1>1, <1>3, <2>7, <3>1 DEF Served, Writing
  <2> QED BY <2>6, <2>8, <2>9, <2>10, <2>11
<1>4. CASE req[o].op \in Writers /\ answer[o] = NoError /\ error[o] # NoError
  BY <1>1, <1>4 DEF Served, Writing
<1>5. CASE req[o].op \notin Writers
  BY <1>1, <1>2, <1>5 DEF Served, Reading
<1>6. CASE answer[o] # NoError
  BY <1>1, <1>6 DEF Served
<1> QED BY <1>3, <1>4, <1>5, <1>6

(* No step of a task touches another one: rows are locked by whoever has   *)
(* written them.                                                           *)
LEMMA OthersUntouched ==
    ASSUME ApiInv, Isolated, StoreInv, NEW t \in Task,
           EnterBlock(t) \/ Statement(t) \/ UniqueViolation(t) \/ StatementFails(t) \/ Local(t)
             \/ LeaveBlock(t) \/ Breaks(t) \/ Answer(t)
    PROVE  \A o \in Task \ {t} : Untouched(o)
<1> SUFFICES ASSUME NEW o \in Task \ {t} PROVE Untouched(o)
  OBVIOUS
<1>1. /\ DbTypeOK /\ DOMAIN todo = Task /\ DOMAIN error = Task /\ DOMAIN answer = Task
      /\ DOMAIN rows = Task /\ OneConn
  BY DEF ApiInv, StoreInv
<1>2. \A x : <<t, x>> # <<o, 1>>
  OBVIOUS
<1>3. <<o, 1>> \in Conn
  BY DatabaseAssumption DEF Conn
<1>4. CASE EnterBlock(t)
  <2>1. todo' = [todo EXCEPT ![t] = <<Step(t).body>> \o Rest(t)] /\ UNCHANGED <<req, rows, error, applied, answer>>
    BY <1>4, Enters
  <2>2. /\ frames'[o] = frames[o] /\ UNCHANGED <<table, writes>>
        /\ tx' \in {tx, tx \cup {<<t, 1>>}}
    <3>1. CASE frames[t] = <<>>
      <4>1. PICK begin \in BOOLEAN : Checkout(t, begin)
        BY <1>4, <3>1, Enters
      <4> QED BY <1>1, <3>1, <4>1, Opens
    <3>2. CASE frames[t] # <<>>
      BY <1>1, <1>4, <3>2, Enters, Joins
    <3> QED BY <3>1, <3>2
  <2> QED BY <1>1, <1>2, <2>1, <2>2 DEF Untouched
<1>5. CASE Statement(t)
  <2>1. /\ Execute(t, Written(t, Step(t))) /\ rows' = [rows EXCEPT ![t] = Returned(t, Step(t))]
        /\ todo' = [todo EXCEPT ![t] = Rest(t)] /\ UNCHANGED <<req, error, applied, answer>>
    BY <1>5 DEF Statement, Next1
  <2>2. PICK w : writes' = [writes EXCEPT ![<<t, 1>>] = w]
    BY <1>1, <2>1, InBlocks DEF Execute
  <2>3. tx' = tx \cup {<<t, 1>>} /\ UNCHANGED <<table, frames>>
    BY <1>1, <2>1, InBlocks DEF Execute
  <2> QED BY <1>1, <1>2, <1>3, <2>1, <2>2, <2>3 DEF Untouched, DbTypeOK
<1>6. CASE UniqueViolation(t) \/ StatementFails(t) \/ Local(t)
  <2>1. UNCHANGED <<dbVars, req, rows, applied, answer>>
    BY <1>6 DEF UniqueViolation, StatementFails, Local, Raises, Next1
  <2>2. UNCHANGED <<frames, tx, writes, table>>
    BY <2>1 DEF dbVars
  <2>3. todo' = todo \/ \E left : todo' = [todo EXCEPT ![t] = left]
    BY <1>6 DEF UniqueViolation, StatementFails, Local, Raises, Next1
  <2>4. error' = error \/ \E e : error' = [error EXCEPT ![t] = e]
    BY <1>6 DEF UniqueViolation, StatementFails, Local, Raises, Next1
  <2> QED BY <1>1, <2>1, <2>2, <2>3, <2>4 DEF Untouched
<1>7. CASE LeaveBlock(t)
  <2>1. /\ Leave(t, error[t] = NoError) /\ todo' = [todo EXCEPT ![t] = Tail(@)]
        /\ applied' \in {applied, applied \cup {t}} /\ UNCHANGED <<req, rows, error, answer>>
    BY <1>7 DEF LeaveBlock
  <2>2. /\ frames[t] # <<>> /\ frames' = [frames EXCEPT ![t] = SubSeq(@, 1, Len(@) - 1)]
        /\ table' \in {table, View(Current(t))} /\ tx' \in {tx, tx \ {Current(t)}}
        /\ writes' \in {writes, [writes EXCEPT ![Current(t)] = NoWrites]}
    BY <2>1 DEF Leave
  <2>3. Current(t) = <<t, 1>> /\ <<t, 1>> \in Conn
    BY <1>1, <2>2, InBlocks, DatabaseAssumption DEF Conn
  <2>4. \A i \in Ids : writes[<<o, 1>>][i] # Same => View(<<t, 1>>)[i] = table[i]
    BY <1>2, <1>3, <2>3 DEF Isolated, RowLocks, View
  <2>5. \A i \in Ids : writes[<<o, 1>>][i] # Same => table'[i] = table[i]
    BY <2>2, <2>3, <2>4
  <2>6. writes'[<<o, 1>>] = writes[<<o, 1>>] /\ (<<o, 1>> \in tx' <=> <<o, 1>> \in tx)
    BY <1>1, <1>2, <1>3, <2>2, <2>3 DEF DbTypeOK
  <2> QED BY <1>1, <2>1, <2>2, <2>5, <2>6 DEF Untouched, DbTypeOK
<1>8. CASE Answer(t)
  <2>1. /\ UNCHANGED <<dbVars, req, rows, error, applied>>
        /\ \E a : answer' = [answer EXCEPT ![t] = a]
        /\ todo' = [todo EXCEPT ![t] = <<>>]
    BY <1>8 DEF Answer
  <2>2. UNCHANGED <<frames, tx, writes, table>>
    BY <2>1 DEF dbVars
  <2> QED BY <1>1, <2>1, <2>2 DEF Untouched
<1>9. CASE Breaks(t)
  <2>1. /\ UNCHANGED <<req, rows, applied, answer, table>>
        /\ error'[o] = error[o] /\ todo'[o] = todo[o] /\ frames'[o] = frames[o]
        /\ tx' \in {tx, tx \ {<<t, 1>>}} /\ writes'[<<o, 1>>] = writes[<<o, 1>>]
    BY <1>1, <1>2, <1>3, <1>9, Broken
  <2> QED BY <1>2, <2>1 DEF Untouched
<1> QED BY <1>4, <1>5, <1>6, <1>7, <1>8, <1>9

(* A statement leaves the rows alone that another task has yet to insert. *)
LEMMA WritesNoFresh ==
    ASSUME DbTypeOK, FreshOK, NEW t \in Task, Current(t) = <<t, 1>>, NEW s \in Statements,
           NEW o \in Task \ (applied \cup {t}), NEW n \in {1, 2}
    PROVE  <<o, n>> \notin DOMAIN Written(t, s)
<1>1. <<t, 1>> \in Conn /\ <<o, n>> \in Ids
  BY DatabaseAssumption, ApiAssumption DEF Conn
<1>2. table[<<o, n>>] = None /\ writes[<<t, 1>>][<<o, n>>] = Same
  BY <1>1 DEF FreshOK
<1>3. View(Current(t))[<<o, n>>] = None
  BY <1>1, <1>2 DEF View
<1>4. \A filter : ~Matches(filter, <<o, n>>, None)
  BY DEF Matches
<1>5. s.do \in {"select", "insert", "update", "delete"}
  BY DEF Statements
<1> DEFINE found == {i \in Ids : Matches(s.filter, i, View(Current(t))[i])}
<1>6. <<o, n>> \notin found
  BY <1>3, <1>4
<1>7. CASE s.do = "select"
  BY <1>7 DEF Written
<1>8. CASE s.do \in {"update", "delete"}
  <2>1. DOMAIN Written(t, s) = found
    BY <1>8 DEF Written
  <2> QED BY <1>6, <2>1
<1>9. CASE s.do = "insert"
  <2>1. DOMAIN Written(t, s) = {<<t, m>> : m \in DOMAIN s.titles}
    BY <1>9 DEF Written
  <2> QED BY <2>1
<1> QED BY <1>5, <1>7, <1>8, <1>9

(* What a statement is, and where. *)
LEMMA Executes ==
    ASSUME ApiInv, OneConn, NEW t \in Task, Statement(t)
    PROVE  /\ Running(t) /\ Step(t) \in Statements /\ IsStatement(Step(t))
           /\ frames[t] # <<>> /\ Current(t) = <<t, 1>> /\ <<t, 1>> \in Conn
           /\ rows' = [rows EXCEPT ![t] = Returned(t, Step(t))]
           /\ todo' = [todo EXCEPT ![t] = Rest(t)]
           /\ tx' = tx \cup {<<t, 1>>}
           /\ UNCHANGED <<req, error, applied, answer, table, frames>>
           /\ \A c \in Conn \ {<<t, 1>>} : writes'[c] = writes[c]
           /\ writes'[<<t, 1>>] = [i \in Ids |-> IF i \in DOMAIN Written(t, Step(t))
                                                THEN Written(t, Step(t))[i]
                                                ELSE writes[<<t, 1>>][i]]
<1>1. /\ Running(t) /\ IsStatement(Step(t)) /\ Execute(t, Written(t, Step(t)))
      /\ rows' = [rows EXCEPT ![t] = Returned(t, Step(t))]
      /\ todo' = [todo EXCEPT ![t] = Rest(t)] /\ UNCHANGED <<req, error, applied, answer>>
  BY DEF Statement, Next1, AtStatement
<1>2. DbTypeOK /\ frames[t] # <<>>
  BY <1>1 DEF ApiInv, Execute
<1>3. Current(t) = <<t, 1>> /\ <<t, 1>> \in Conn
  BY <1>2, InBlocks, DatabaseAssumption DEF Conn
<1>4. Step(t) \in Statements
  BY <1>1, StepOf, StepKinds
<1> DEFINE w == Written(t, Step(t))
<1>5. /\ writes' = [writes EXCEPT ![<<t, 1>>] =
                      [i \in Ids |-> IF i \in DOMAIN w THEN w[i] ELSE writes[<<t, 1>>][i]]]
      /\ tx' = tx \cup {<<t, 1>>} /\ UNCHANGED <<table, frames>>
  BY <1>1, <1>3 DEF Execute
<1>6. DOMAIN writes = Conn
  BY <1>2 DEF DbTypeOK
<1> HIDE DEF w
<1>7. /\ \A c \in Conn \ {<<t, 1>>} : writes'[c] = writes[c]
      /\ writes'[<<t, 1>>] = [i \in Ids |-> IF i \in DOMAIN w THEN w[i] ELSE writes[<<t, 1>>][i]]
  BY <1>3, <1>5, <1>6
<1> QED BY <1>1, <1>2, <1>3, <1>4, <1>5, <1>7 DEF w

(* What the end of a block does. *)
LEMMA BlockEnds ==
    ASSUME ApiInv, OneConn, NEW t \in Task, LeaveBlock(t)
    PROVE  LET f == Last(t) IN
           /\ answer[t] = NoError /\ frames[t] # <<>> /\ <<t, 1>> \in Conn
           /\ Len(frames[t]) \in Nat \ {0} /\ f = frames[t][Len(frames[t])]
           /\ error[t] # NoError \/ Head(todo[t]) = <<>>
           /\ Len(frames'[t]) = Len(frames[t]) - 1
           /\ \A i \in 1..(Len(frames[t]) - 1) : frames'[t][i] = frames[t][i]
           /\ table' = IF f.began /\ error[t] = NoError THEN View(<<t, 1>>) ELSE table
           /\ tx' = IF f.began \/ f.opened THEN tx \ {<<t, 1>>} ELSE tx
           /\ writes'[<<t, 1>>] = IF f.began \/ f.opened THEN NoWrites ELSE writes[<<t, 1>>]
           /\ \A c \in Conn \ {<<t, 1>>} : writes'[c] = writes[c]
           /\ todo' = [todo EXCEPT ![t] = Tail(@)]
           /\ applied' = IF error[t] = NoError /\ f.began /\ ~Nil(t) THEN applied \cup {t} ELSE applied
           /\ UNCHANGED <<req, rows, error, answer>>
<1>1. /\ answer[t] = NoError /\ frames[t] # <<>> /\ (error[t] # NoError \/ Head(todo[t]) = <<>>)
      /\ Leave(t, error[t] = NoError) /\ todo' = [todo EXCEPT ![t] = Tail(@)]
      /\ applied' = IF /\ error[t] = NoError /\ Last(t).began
                       /\ writes[Current(t)] # NoWrites
                    THEN applied \cup {t} ELSE applied
      /\ UNCHANGED <<req, rows, error, answer>>
  BY DEF LeaveBlock
<1>2. DbTypeOK
  BY DEF ApiInv
<1>3. /\ Current(t) = <<t, 1>> /\ Len(frames[t]) \in Nat \ {0} /\ Last(t) = frames[t][Len(frames[t])]
      /\ <<t, 1>> \in Conn
  BY <1>1, <1>2, InBlocks, DatabaseAssumption DEF Conn
<1>4. /\ frames' = [frames EXCEPT ![t] = SubSeq(@, 1, Len(@) - 1)]
      /\ table' = IF Last(t).began /\ error[t] = NoError THEN View(<<t, 1>>) ELSE table
      /\ tx' = IF Last(t).began \/ Last(t).opened THEN tx \ {<<t, 1>>} ELSE tx
      /\ writes' = IF Last(t).began \/ Last(t).opened THEN [writes EXCEPT ![<<t, 1>>] = NoWrites]
                   ELSE writes
  BY <1>1, <1>3 DEF Leave
<1>5. DOMAIN writes = Conn /\ frames[t] \in Seq(Frame) /\ DOMAIN frames = Task
  BY <1>2 DEF DbTypeOK
<1>6. frames'[t] = SubSeq(frames[t], 1, Len(frames[t]) - 1)
  BY <1>4, <1>5
<1>7. /\ Len(frames'[t]) = Len(frames[t]) - 1
      /\ \A i \in 1..(Len(frames[t]) - 1) : frames'[t][i] = frames[t][i]
  BY <1>1, <1>5, <1>6, FramesLeft
<1>8. /\ writes'[<<t, 1>>] = IF Last(t).began \/ Last(t).opened THEN NoWrites ELSE writes[<<t, 1>>]
      /\ \A c \in Conn \ {<<t, 1>>} : writes'[c] = writes[c]
  BY <1>3, <1>4, <1>5
<1>9. applied' = IF error[t] = NoError /\ Last(t).began /\ ~Nil(t) THEN applied \cup {t} ELSE applied
  BY <1>1, <1>3 DEF Nil, Pending
<1> QED BY <1>1, <1>3, <1>4, <1>7, <1>8, <1>9

(* The steps that do not concern the database. *)
LEMMA StaysOut ==
    ASSUME NEW t \in Task, UniqueViolation(t) \/ StatementFails(t) \/ Local(t) \/ Answer(t)
    PROVE  UNCHANGED <<table, writes, tx, frames, applied, req, rows>>
BY DEF UniqueViolation, StatementFails, Local, Answer, Raises, Next1, dbVars

(* Tasks go on using one connection each. *)
LEMMA OneConnStep ==
    ASSUME ApiInv, Isolated, StoreInv, NEW t \in Task,
           EnterBlock(t) \/ Statement(t) \/ UniqueViolation(t) \/ StatementFails(t) \/ Local(t)
             \/ LeaveBlock(t) \/ Breaks(t) \/ Answer(t)
    PROVE  OneConn'
<1>1. DbTypeOK /\ OneConn
  BY DEF ApiInv, StoreInv
<1>2. \A o \in Task \ {t} : frames'[o] = frames[o]
  BY OthersUntouched DEF Untouched
<1>3. SUFFICES \A i \in 1..Len(frames'[t]) : frames'[t][i].conn = 1
  BY <1>1, <1>2 DEF OneConn
<1>4. \A i \in 1..Len(frames[t]) : frames[t][i].conn = 1
  BY <1>1 DEF OneConn
<1>5. frames[t] \in Seq(Frame)
  BY <1>1 DEF DbTypeOK
<1>6. CASE EnterBlock(t)
  <2>1. CASE frames[t] = <<>>
    <3>1. PICK begin \in BOOLEAN : Checkout(t, begin)
      BY <1>6, <2>1, Enters
    <3>2. Len(frames'[t]) = 1 /\ frames'[t][1].conn = 1
      BY <1>1, <2>1, <3>1, Opens
    <3> QED BY <3>2
  <2>2. CASE frames[t] # <<>>
    <3>1. /\ Len(frames'[t]) = Len(frames[t]) + 1
          /\ \A i \in 1..Len(frames[t]) : frames'[t][i] = frames[t][i]
          /\ frames'[t][Len(frames[t]) + 1].conn = 1
      BY <1>1, <1>6, <2>2, Enters, Joins
    <3> QED BY <1>4, <1>5, <3>1
  <2> QED BY <2>1, <2>2
<1>7. CASE LeaveBlock(t)
  <2>1. /\ Len(frames'[t]) = Len(frames[t]) - 1
        /\ \A i \in 1..(Len(frames[t]) - 1) : frames'[t][i] = frames[t][i]
    BY <1>1, <1>7, BlockEnds
  <2> QED BY <1>4, <1>5, <2>1
<1>8. CASE Statement(t)
  BY <1>1, <1>4, <1>8, Executes
<1>9. CASE UniqueViolation(t) \/ StatementFails(t) \/ Local(t) \/ Answer(t)
  BY <1>4, <1>9, StaysOut
<1>10. CASE Breaks(t)
  <2>1. /\ Len(frames'[t]) <= Len(frames[t])
        /\ \A i \in 1..Len(frames'[t]) : frames'[t][i] = frames[t][i]
    BY <1>1, <1>10, Broken
  <2>2. Len(frames[t]) \in Nat
    BY <1>5
  <2>3. ASSUME NEW i \in 1..Len(frames'[t]) PROVE i \in 1..Len(frames[t])
    BY <2>1, <2>2
  <2> QED BY <1>4, <2>1, <2>3
<1> QED BY <1>6, <1>7, <1>8, <1>9, <1>10

(* The rows of tasks that have not committed stay free. *)
LEMMA FreshStep ==
    ASSUME ApiInv, StoreInv, NEW t \in Task,
           EnterBlock(t) \/ Statement(t) \/ UniqueViolation(t) \/ StatementFails(t) \/ Local(t)
             \/ LeaveBlock(t) \/ Breaks(t) \/ Answer(t)
    PROVE  FreshOK'
<1>1. DbTypeOK /\ OneConn /\ FreshOK
  BY DEF ApiInv, StoreInv
<1>2. ASSUME UNCHANGED <<table, writes, applied>> PROVE FreshOK'
  BY <1>1, <1>2 DEF FreshOK
<1>3. CASE EnterBlock(t)
  <2>1. applied' = applied
    BY <1>3, Enters
  <2>2. CASE frames[t] = <<>>
    <3>1. PICK begin \in BOOLEAN : Checkout(t, begin)
      BY <1>3, <2>2, Enters
    <3> QED BY <1>1, <1>2, <2>1, <2>2, <3>1, Opens
  <2>3. CASE frames[t] # <<>>
    BY <1>1, <1>2, <1>3, <2>1, <2>3, Enters, Joins
  <2> QED BY <2>2, <2>3
<1>4. CASE Statement(t)
  <2>1. /\ Step(t) \in Statements /\ Current(t) = <<t, 1>> /\ <<t, 1>> \in Conn
        /\ UNCHANGED <<applied, table>>
        /\ \A c \in Conn \ {<<t, 1>>} : writes'[c] = writes[c]
        /\ writes'[<<t, 1>>] = [i \in Ids |-> IF i \in DOMAIN Written(t, Step(t))
                                             THEN Written(t, Step(t))[i]
                                             ELSE writes[<<t, 1>>][i]]
    BY <1>1, <1>4, Executes
  <2>2. ASSUME NEW o \in Task \ applied, NEW n \in {1, 2}, NEW c \in Conn, c[1] # o
        PROVE  writes'[c][<<o, n>>] = Same
    <3>1. writes[c][<<o, n>>] = Same /\ <<o, n>> \in Ids
      BY <1>1, <2>2, ApiAssumption DEF FreshOK
    <3>2. CASE c = <<t, 1>>
      <4>1. o # t
        BY <2>2, <3>2
      <4>2. <<o, n>> \notin DOMAIN Written(t, Step(t))
        BY <1>1, <2>1, <4>1, WritesNoFresh
      <4> QED BY <2>1, <3>1, <3>2, <4>2
    <3>3. CASE c # <<t, 1>>
      BY <2>1, <3>1, <3>3
    <3> QED BY <3>2, <3>3
  <2> QED BY <1>1, <2>1, <2>2 DEF FreshOK
<1>5. CASE LeaveBlock(t)
  <2>1. /\ <<t, 1>> \in Conn
        /\ table' \in {table, View(<<t, 1>>)}
        /\ table' = table \/ Nil(t) \/ t \in applied'
        /\ writes'[<<t, 1>>] \in {NoWrites, writes[<<t, 1>>]}
        /\ \A c \in Conn \ {<<t, 1>>} : writes'[c] = writes[c]
        /\ applied \subseteq applied'
    BY <1>1, <1>5, BlockEnds
  <2>2. ASSUME NEW o \in Task \ applied', NEW n \in {1, 2}
        PROVE  /\ table'[<<o, n>>] = None
               /\ \A c \in Conn : c[1] # o => writes'[c][<<o, n>>] = Same
    <3>1. /\ table[<<o, n>>] = None /\ <<o, n>> \in Ids
          /\ \A c \in Conn : c[1] # o => writes[c][<<o, n>>] = Same
      BY <1>1, <2>1, ApiAssumption DEF FreshOK
    <3>2. NoWrites[<<o, n>>] = Same
      BY <3>1 DEF NoWrites
    <3>3. \A c \in Conn : c[1] # o => writes'[c][<<o, n>>] = Same
      BY <2>1, <3>1, <3>2
    <3>4. table' = table \/ Nil(t) \/ o # t
      BY <2>1
    <3>5. table' = View(<<t, 1>>) /\ (Nil(t) \/ o # t) => table'[<<o, n>>] = None
      BY <2>1, <3>1, <3>2 DEF View, Nil, Pending
    <3> QED BY <2>1, <3>1, <3>3, <3>4, <3>5
  <2> QED BY <2>2 DEF FreshOK
<1>6. CASE UniqueViolation(t) \/ StatementFails(t) \/ Local(t) \/ Answer(t)
  BY <1>2, <1>6, StaysOut
<1>7. CASE Breaks(t)
  <2>1. /\ UNCHANGED <<applied, table>> /\ <<t, 1>> \in Conn
        /\ writes'[<<t, 1>>] \in {NoWrites, writes[<<t, 1>>]}
        /\ \A c \in Conn \ {<<t, 1>>} : writes'[c] = writes[c]
    BY <1>1, <1>7, Broken
  <2>2. ASSUME NEW o \in Task \ applied, NEW n \in {1, 2}
        PROVE  /\ table'[<<o, n>>] = None
               /\ \A c \in Conn : c[1] # o => writes'[c][<<o, n>>] = Same
    <3>1. /\ table[<<o, n>>] = None /\ <<o, n>> \in Ids
          /\ \A c \in Conn : c[1] # o => writes[c][<<o, n>>] = Same
      BY <1>1, <2>1, ApiAssumption DEF FreshOK
    <3>2. NoWrites[<<o, n>>] = Same
      BY <3>1 DEF NoWrites
    <3> QED BY <2>1, <3>1, <3>2
  <2> QED BY <2>1, <2>2 DEF FreshOK
<1> QED BY <1>3, <1>4, <1>5, <1>6, <1>7

-----------------------------------------------------------------------------
(* What a request that writes does next, while it runs. *)
MethodFrames(t) ==
    /\ Len(frames[t]) = IF req[t].block = "none" THEN 0 ELSE 1
    /\ req[t].block # "transaction" => <<t, 1>> \notin tx

AtRaise(t) == Step(t).do = "raise" /\ (t \in applied => Step(t).error.status = 501)
AtOpening(t) ==
    /\ req[t].block # "none" /\ frames[t] = <<>> /\ t \notin applied
    /\ \E body \in Seq(Steps) :
        /\ Refused(body) \/ body = StartLine(req[t])
        /\ Step(t) = With(req[t].block, FALSE, body) /\ todo[t] = <<<<With(req[t].block, FALSE, body)>>>>
AtHelper(t) ==
    /\ MethodFrames(t) /\ t \notin applied
    /\ \/ /\ Step(t) = Helper(req[t], First(req[t])) /\ Nil(t)
          /\ Rest(t) = One(req[t], RanLine(req[t]))
       \/ /\ Step(t) = Helper(req[t], Second(req[t])) /\ Half(t)
          /\ req[t].op \in {"upsert", "replace"} /\ Rest(t) = One(req[t], End(req[t]))
AtFound(t) ==
    /\ MethodFrames(t) /\ Step(t) = Found /\ req[t].op \in {"update", "delete", "replace"}
    /\ Rest(t) = One(req[t], IF req[t].op = "replace" THEN SecondLine(req[t]) ELSE End(req[t]))
    /\ IF t \in applied THEN req[t].block # "transaction" /\ rows[t] # {} ELSE Ran(t)
AtOrElse(t) ==
    /\ MethodFrames(t) /\ req[t].op = "upsert"
    /\ Step(t) = OrElse(Helper(req[t], Second(req[t])))
    /\ \E line \in Seq(Steps) : todo[t] = One(req[t], line) /\ Tail(line) = End(req[t])
    /\ IF t \in applied THEN req[t].block # "transaction" /\ rows[t] # {} ELSE Ran(t)
AtQuery(t) ==
    /\ Len(frames[t]) = IF req[t].block = "none" THEN 1 ELSE 2
    /\ t \notin applied
    /\ \/ /\ Step(t) = First(req[t]) /\ Nil(t)
          /\ Rest(t) = Two(req[t], <<>>, RanLine(req[t]))
       \/ /\ Step(t) = Second(req[t]) /\ Half(t)
          /\ req[t].op \in {"upsert", "replace"} /\ Rest(t) = Two(req[t], <<>>, End(req[t]))

(* The kinds of these steps. *)
LEMMA KindsOfSteps ==
    ASSUME NEW q, NEW s, NEW b, NEW body
    PROVE  /\ Helper(q, s).do = "with" /\ Helper(q, s).body = <<s>> /\ Helper(q, s).block = "ensure"
           /\ With(b, FALSE, body).do = "with" /\ With(b, FALSE, body).body = body
           /\ With(b, FALSE, body).block = b
           /\ OrElse(s).do = "orelse" /\ OrElse(s).step = s /\ Found.do = "found"
BY DEF Helper, Ensure, With, OrElse, Found

(* What is left of the blocks. *)
LEMMA RestOfOne ==
    ASSUME NEW t, NEW q \in Request, NEW line \in Seq(Steps), line # <<>>, todo[t] = One(q, line)
    PROVE  Head(todo[t]) = line /\ Step(t) = Head(line) /\ Rest(t) = One(q, Tail(line))
<1>1. Tail(line) \in Seq(Steps)
  <2> HIDE DEF Steps
  <2> QED BY HeadTailProperties
<1>2. Head(One(q, line)) = line
  BY OneTop
<1>3. <<Tail(line)>> \o Tail(One(q, line)) = One(q, Tail(line))
  BY <1>1, OneNext
<1> QED BY <1>2, <1>3 DEF Step, Rest

(* What is left when a helper makes its statement. *)
LEMMA RestOfTwo ==
    ASSUME NEW t, NEW q \in Request, NEW b \in Seq(Steps), b # <<>>, NEW line \in Seq(Steps),
           todo[t] = Two(q, b, line)
    PROVE  Head(todo[t]) = b /\ Step(t) = Head(b) /\ Rest(t) = Two(q, Tail(b), line)
<1>1. Tail(b) \in Seq(Steps)
  <2> HIDE DEF Steps
  <2> QED BY HeadTailProperties
<1>2. Head(Two(q, b, line)) = b
  BY TwoTop
<1>3. <<Tail(b)>> \o Tail(Two(q, b, line)) = Two(q, Tail(b), line)
  BY <1>1, TwoNext
<1> QED BY <1>2, <1>3 DEF Step, Rest

(* Where a request that writes is, it runs one of the steps named above. *)
LEMMA WriterRuns ==
    ASSUME WholeRequests, StoreInv, NEW t \in Task, Running(t),
           req[t] \in Requests, req[t] \in Request, req[t].op \in Writers
    PROVE  /\ Began(t)
           /\ AtRaise(t) \/ AtOpening(t) \/ AtHelper(t) \/ AtFound(t) \/ AtOrElse(t) \/ AtQuery(t)
<1>0. PICK q : q = req[t]
  OBVIOUS
<1>1. q \in Request /\ q \in Requests /\ q.op \in Writers
  BY <1>0
<1>2. todo[t] # <<>> /\ Head(todo[t]) # <<>> /\ answer[t] = NoError /\ error[t] = NoError
  BY DEF Running
<1>3. Began(t) /\ (BeforeBlock(t) \/ InMethod(t) \/ InHelper(t) \/ AfterBlock(t))
  BY <1>2 DEF StoreInv, Served, Writing
<1>4. \A line : Refused(line) => line # <<>> /\ Head(line).do = "raise"
  BY DEF Refused
<1>5. CASE BeforeBlock(t)
  <2>1. CASE \E line \in Seq(Steps) : todo[t] = <<line>> /\ Refused(line)
    <3>1. PICK line \in Seq(Steps) : todo[t] = <<line>> /\ Refused(line)
      BY <2>1
    <3>2. Step(t) = Head(line)
      BY <3>1 DEF Step
    <3> QED BY <1>3, <1>4, <1>5, <3>1, <3>2 DEF AtRaise, BeforeBlock
  <2>2. CASE \E body \in Seq(Steps) : /\ Refused(body) \/ body = StartLine(req[t])
                                      /\ todo[t] = <<<<With(req[t].block, FALSE, body)>>>>
    <3>1. PICK body \in Seq(Steps) : /\ Refused(body) \/ body = StartLine(req[t])
                                     /\ todo[t] = <<<<With(req[t].block, FALSE, body)>>>>
      BY <2>2
    <3>2. Step(t) = With(req[t].block, FALSE, body)
      BY <3>1 DEF Step
    <3> QED BY <1>3, <1>5, <3>1, <3>2 DEF AtOpening, BeforeBlock
  <2> QED BY <1>5, <2>1, <2>2 DEF BeforeBlock
<1>6. CASE InMethod(t)
  <2>1. PICK line \in Seq(Steps) : todo[t] = One(q, line) /\ Left(t, line)
    BY <1>0, <1>6 DEF InMethod
  <2>2. line # <<>>
    <3>1. Head(One(q, line)) = line
      BY <1>1, <2>1, OneTop
    <3> QED BY <1>2, <2>1, <3>1
  <2>3. Head(todo[t]) = line /\ Step(t) = Head(line) /\ Rest(t) = One(q, Tail(line))
    BY <1>1, <2>1, <2>2, RestOfOne
  <2>4. MethodFrames(t)
    BY <1>6 DEF InMethod, MethodFrames
  <2>5. CASE Refused(line) /\ Nil(t) /\ t \notin applied
    BY <1>3, <1>4, <2>3, <2>5 DEF AtRaise
  <2>6. CASE line = StartLine(q) /\ Nil(t) /\ t \notin applied
    <3>1. Head(line) = Helper(q, First(q)) /\ Tail(line) = RanLine(q)
      BY <1>1, <2>6, LineHeads
    <3> QED BY <1>0, <1>3, <2>3, <2>4, <2>6, <3>1 DEF AtHelper
  <2>7. CASE line = SecondLine(q) /\ q.op \in {"upsert", "replace"} /\ Half(t) /\ t \notin applied
    <3>1. Head(line) = Helper(q, Second(q)) /\ Tail(line) = End(q)
      BY <1>1, <2>7, LineHeads
    <3> QED BY <1>0, <1>3, <2>3, <2>4, <2>7, <3>1 DEF AtHelper
  <2>8. ASSUME line = End(q), t \in applied => q.block # "transaction" PROVE AtRaise(t)
    <3>1. Head(line).do = "raise" /\ (Head(line).error.status = 501 \/ (q.block # "none" /\ q.raises))
      BY <1>1, <2>2, <2>8, EndRaises
    <3>2. q.block \in {"none", "connection", "transaction"}
      BY <1>1 DEF Request
    <3>3. q.block = "connection" => ~q.raises
      BY <1>1 DEF WholeRequests
    <3> QED BY <2>3, <2>8, <3>1, <3>2, <3>3 DEF AtRaise
  <2>9. CASE line = End(q) /\ IF t \in applied THEN q.block # "transaction" ELSE Whole(t)
    BY <1>3, <2>8, <2>9
  <2>10. CASE /\ line = RanLine(q)
              /\ IF t \in applied THEN q.block # "transaction" /\ rows[t] # {} ELSE Ran(t)
    <3>1. CASE q.op \in {"create", "create_list", "delete_list"}
      <4>1. line = End(q)
        BY <1>1, <2>10, <3>1, LineHeads
      <4> QED BY <1>3, <2>8, <2>10, <4>1
    <3>2. CASE q.op \in {"update", "delete", "replace"}
      <4>1. Head(line) = Found /\ Tail(line) = IF q.op = "replace" THEN SecondLine(q) ELSE End(q)
        BY <1>1, <2>10, <3>2, LineHeads
      <4> QED BY <1>0, <1>3, <2>3, <2>4, <2>10, <3>2, <4>1 DEF AtFound
    <3>3. CASE q.op = "upsert"
      <4>1. Head(line) = OrElse(Helper(q, Second(q))) /\ Tail(line) = End(q)
        BY <1>1, <2>10, <3>3, LineHeads
      <4> QED BY <1>0, <1>3, <2>1, <2>3, <2>4, <2>10, <3>3, <4>1 DEF AtOrElse
    <3> QED BY <1>1, <3>1, <3>2, <3>3 DEF Writers
  <2> QED BY <1>0, <2>1, <2>5, <2>6, <2>7, <2>9, <2>10 DEF Left
<1>7. CASE InHelper(t)
  <2>1. /\ RanLine(q) \in Seq(Steps) /\ End(q) \in Seq(Steps) /\ <<First(q)>> \in Seq(Steps)
        /\ <<Second(q)>> \in Seq(Steps) /\ <<>> \in Seq(Steps)
    BY <1>1, LineSteps, Sequences
  <2>2. ASSUME NEW line \in Seq(Steps) PROVE todo[t] # Two(q, <<>>, line)
    <3>1. Head(Two(q, <<>>, line)) = <<>>
      BY <1>1, <2>1, TwoTop
    <3> QED BY <1>2, <3>1
  <2>3. ASSUME NEW s, <<s>> \in Seq(Steps), NEW line \in Seq(Steps), todo[t] = Two(q, <<s>>, line)
        PROVE  Step(t) = s /\ Rest(t) = Two(q, <<>>, line)
    <3> DEFINE b == <<s>>
    <3>1. b # <<>> /\ Head(b) = s /\ Tail(b) = <<>>
      OBVIOUS
    <3>2. b \in Seq(Steps) /\ todo[t] = Two(q, b, line)
      BY <2>3
    <3> HIDE DEF b
    <3>3. Step(t) = Head(b) /\ Rest(t) = Two(q, Tail(b), line)
      BY <1>1, <3>1, <3>2, RestOfTwo
    <3> QED BY <3>1, <3>3
  <2> QED BY <1>0, <1>3, <1>7, <2>1, <2>2, <2>3 DEF InHelper, AtQuery
<1>8. CASE AfterBlock(t)
  <2>1. Head(todo[t]) = <<>>
    BY <1>8 DEF AfterBlock
  <2> QED BY <1>2, <2>1
<1> QED BY <1>3, <1>5, <1>6, <1>7, <1>8

(* The kind of each of these steps tells them apart. *)
LEMMA WriterSteps ==
    ASSUME WholeRequests, StoreInv, NEW t \in Task, Running(t),
           req[t] \in Requests, req[t] \in Request, req[t].op \in Writers
    PROVE  /\ Began(t)
           /\ \/ AtRaise(t) /\ Step(t).do = "raise"
              \/ (AtOpening(t) \/ AtHelper(t)) /\ Step(t).do = "with"
              \/ AtFound(t) /\ Step(t).do = "found"
              \/ AtOrElse(t) /\ Step(t).do = "orelse"
              \/ AtQuery(t) /\ Step(t).do \in {"select", "insert", "update", "delete"}
<1>1. /\ Began(t)
      /\ AtRaise(t) \/ AtOpening(t) \/ AtHelper(t) \/ AtFound(t) \/ AtOrElse(t) \/ AtQuery(t)
  BY WriterRuns
<1>2. AtOpening(t) => Step(t).do = "with"
  <2> SUFFICES ASSUME AtOpening(t) PROVE Step(t).do = "with"
    OBVIOUS
  <2>1. PICK body : Step(t) = With(req[t].block, FALSE, body)
    BY DEF AtOpening
  <2> QED BY <2>1 DEF With
<1>3. AtHelper(t) => Step(t).do = "with"
  BY DEF AtHelper, Helper, Ensure, With
<1>4. AtQuery(t) => Step(t).do \in {"select", "insert", "update", "delete"}
  <2>1. First(req[t]) \in Statements /\ Second(req[t]) \in Statements
    BY LineSteps
  <2>2. \A s \in Statements : s.do \in {"select", "insert", "update", "delete"}
    BY DEF Statements
  <2> QED BY <2>1, <2>2 DEF AtQuery
<1> QED BY <1>1, <1>2, <1>3, <1>4 DEF AtRaise, AtFound, Found, AtOrElse, OrElse

-----------------------------------------------------------------------------
(* Each step of a request that writes leaves it where Writing says. *)
LEMMA WriterEnters ==
    ASSUME WholeRequests, ApiInv, BlocksOwnWhatTheyOpened, StoreInv,
           NEW t \in Task, EnterBlock(t), req[t].op \in Writers
    PROVE  Served(t)'
<1>0. PICK q : q = req[t]
  OBVIOUS
<1>1. /\ q \in Request /\ q \in Requests /\ q.op \in Writers /\ DbTypeOK /\ OneConn
      /\ q.block \in {"none", "connection", "transaction"}
  BY <1>0, ApiAssumption DEF StoreInv, ApiInv, Request
<1>2. /\ Running(t) /\ Step(t).do = "with"
      /\ todo' = [todo EXCEPT ![t] = <<Step(t).body>> \o Rest(t)]
      /\ UNCHANGED <<req, rows, error, applied, answer>>
      /\ IF frames[t] = <<>> THEN Checkout(t, Step(t).block # "connection")
         ELSE Step(t).block = "ensure" /\ EnsureTransaction(t, TRUE)
  BY Enters
<1>3. todo'[t] = <<Step(t).body>> \o Rest(t) /\ error[t] = NoError
  BY <1>2 DEF ApiInv, Running
<1>4. Began(t)
  BY <1>0, <1>1, <1>2, WriterSteps
<1>5. /\ First(q) \in Statements /\ Second(q) \in Statements
      /\ RanLine(q) \in Seq(Steps) /\ End(q) \in Seq(Steps)
      /\ <<First(q)>> \in Seq(Steps) /\ <<Second(q)>> \in Seq(Steps)
  BY <1>1, LineSteps
<1>7. AtOpening(t) \/ AtHelper(t)
  BY <1>0, <1>1, <1>2, WriterSteps
<1>8. frames[t] = <<>> => <<t, 1>> \notin tx /\ Nil(t)
  BY <1>1, Idle
<1>9. UNCHANGED writes => (Nil(t)' <=> Nil(t))
  BY DEF Nil, Pending, NoWrites
<1>10. CASE AtOpening(t)
  <2>1. PICK body \in Seq(Steps) :
          /\ Refused(body) \/ body = StartLine(q)
          /\ Step(t) = With(q.block, FALSE, body) /\ todo[t] = <<<<With(q.block, FALSE, body)>>>>
    BY <1>0, <1>10 DEF AtOpening
  <2>2. Step(t).block = q.block /\ Step(t).body = body
    BY <2>1 DEF With
  <2>3. q.block # "none" /\ frames[t] = <<>> /\ t \notin applied
    BY <1>0, <1>10 DEF AtOpening
  <2> DEFINE begin == q.block # "connection"
  <2>4. begin \in BOOLEAN /\ Checkout(t, begin)
    BY <1>2, <2>2, <2>3
  <2>5. /\ Len(frames'[t]) = 1 /\ frames'[t][1].began = begin
        /\ UNCHANGED <<table, writes>> /\ tx' = IF begin THEN tx \cup {<<t, 1>>} ELSE tx
    BY <1>1, <2>3, <2>4, Opens
  <2>6. todo'[t] = One(q, body)
    <3>1. Rest(t) = <<<<>>>>
      <4>1. /\ Tail(Head(todo[t])) = <<>> /\ Tail(todo[t]) = <<>>
        BY <2>1
      <4>2. <<<<>>>> \o <<>> = <<<<>>>>
        BY ConcatEmptySeq
      <4> QED BY <4>1, <4>2 DEF Rest
    <3>2. <<body>> \o <<<<>>>> = <<body, <<>>>>
      <4> DEFINE S == Seq(Steps)
      <4>1. body \in S /\ <<>> \in S
        BY Sequences
      <4> HIDE DEF S
      <4> QED BY <4>1, PushTwo, Zenon
    <3> QED BY <1>3, <2>2, <2>3, <3>1, <3>2 DEF One
  <2>7. q.block # "transaction" => <<t, 1>> \notin tx'
    BY <1>1, <1>8, <2>3, <2>5
  <2>8. Left(t, body)'
    BY <1>0, <1>2, <1>8, <1>9, <2>1, <2>3, <2>5 DEF Left
  <2>9. InMethod(t)'
    BY <1>0, <1>2, <2>3, <2>5, <2>6, <2>7, <2>8 DEF InMethod
  <2>10. Began(t)'
    <3>1. frames'[t][1].began <=> q.block # "connection"
      BY <2>5, Zenon
    <3>2. ~(Len(frames'[t]) > 1)
      BY <2>5
    <3> QED BY <1>0, <1>2, <3>1, <3>2 DEF Began
  <2> QED BY <1>0, <1>1, <1>2, <1>3, <2>9, <2>10 DEF Served, Writing
<1>11. CASE AtHelper(t)
  <2>1. PICK s, line : /\ Step(t) = Helper(q, s) /\ Rest(t) = One(q, line)
                       /\ \/ s = First(q) /\ line = RanLine(q) /\ Nil(t)
                          \/ /\ s = Second(q) /\ line = End(q) /\ Half(t)
                             /\ q.op \in {"upsert", "replace"}
    BY <1>0, <1>11 DEF AtHelper
  <2>2. Step(t).block = "ensure" /\ Step(t).body = <<s>>
    BY <2>1 DEF Helper, Ensure, With
  <2>3. MethodFrames(t) /\ t \notin applied
    BY <1>11 DEF AtHelper
  <2>4. Len(frames[t]) = IF q.block = "none" THEN 0 ELSE 1
    BY <1>0, <2>3 DEF MethodFrames
  <2>5. q.block # "transaction" => <<t, 1>> \notin tx
    BY <1>0, <2>3 DEF MethodFrames
  <2>6. frames[t] = <<>> <=> q.block = "none"
    <3>1. frames[t] \in Seq(Frame)
      BY <1>1 DEF DbTypeOK
    <3> QED BY <2>4, <3>1
  <2>7. todo'[t] = Two(q, <<s>>, line)
    <3>1. <<s>> \in Seq(Steps) /\ line \in Seq(Steps)
      BY <1>5, <2>1
    <3>2. <<<<s>>>> \o One(q, line) = Two(q, <<s>>, line)
      BY <1>1, <3>1, OnePush
    <3> QED BY <1>3, <2>1, <2>2, <3>2
  <2>8. /\ Len(frames'[t]) = IF q.block = "none" THEN 1 ELSE 2
        /\ Began(t)' /\ UNCHANGED <<table, writes>>
    <3>1. CASE q.block = "none"
      <4>1. Checkout(t, TRUE)
        <5>1. (Step(t).block # "connection") = TRUE
          BY <2>2
        <5> QED BY <1>2, <2>6, <3>1, <5>1
      <4>2. Len(frames'[t]) = 1 /\ frames'[t][1].began = TRUE /\ UNCHANGED <<table, writes>>
        BY <1>1, <2>6, <3>1, <4>1, Opens
      <4> QED BY <1>0, <1>2, <3>1, <4>2 DEF Began
    <3>2. CASE q.block # "none"
      <4>1. /\ Len(frames'[t]) = 2 /\ frames'[t][1] = frames[t][1]
            /\ frames'[t][2].began = (<<t, 1>> \notin tx) /\ UNCHANGED <<table, writes>>
        <5>1. frames[t] # <<>> /\ EnsureTransaction(t, TRUE)
          BY <1>2, <2>6, <3>2
        <5>2. Len(frames[t]) = 1
          BY <2>4, <3>2
        <5>3. /\ Len(frames'[t]) = Len(frames[t]) + 1
              /\ \A i \in 1..Len(frames[t]) : frames'[t][i] = frames[t][i]
              /\ frames'[t][Len(frames[t]) + 1].began = (<<t, 1>> \notin tx)
              /\ UNCHANGED <<table, writes>>
          BY <1>1, <5>1, Joins
        <5> QED BY <5>2, <5>3
      <4>2. frames[t][1].began <=> q.block # "connection"
        BY <1>0, <1>4, <2>6, <3>2 DEF Began
      <4>3. q.block = "transaction" => <<t, 1>> \in tx
        <5>1. Len(frames[t]) = 1
          BY <2>4, <3>2
        <5>2. frames[t][1].conn = 1 /\ (frames[t][1].began => <<t, frames[t][1].conn>> \in tx)
          BY <1>1, <5>1 DEF OneConn, BlocksOwnWhatTheyOpened, FramesOwn
        <5> QED BY <4>2, <5>2
      <4>4. frames'[t][2].began <=> q.block = "connection"
        BY <1>1, <2>5, <3>2, <4>1, <4>3
      <4> QED BY <1>0, <1>2, <3>2, <4>1, <4>2, <4>4 DEF Began
    <3> QED BY <3>1, <3>2
  <2>9. Half(t) => Half(t)'
    <3>1. Writes(t)
      BY <1>0, <1>1 DEF Writes
    <3>2. FirstDone(t) => FirstDone(t)'
      BY <1>2, <2>8, <3>1, DoneStays
    <3> QED BY <1>2, <1>9, <2>8, <3>2 DEF Half
  <2>10. InHelper(t)'
    <3>1. /\ req'[t] = q /\ (Nil(t) => Nil(t)')
          /\ t \notin applied'
      BY <1>0, <1>2, <1>9, <2>3, <2>8
    <3> QED BY <2>1, <2>7, <2>8, <2>9, <3>1 DEF InHelper
  <2> QED BY <1>0, <1>1, <1>2, <1>3, <2>8, <2>10 DEF Served, Writing
<1> QED BY <1>7, <1>10, <1>11

(* The statement of a helper takes a request that writes to the next       *)
(* point.                                                                  *)
LEMMA WriterExecutes ==
    ASSUME WholeRequests, ApiInv, StoreInv, NEW t \in Task, Statement(t), req[t].op \in Writers
    PROVE  Served(t)'
<1>0. PICK q : q = req[t]
  OBVIOUS
<1>1. /\ q \in Request /\ q \in Requests /\ q.op \in Writers /\ DbTypeOK /\ OneConn
      /\ req[t] \in Requests /\ req[t] \in Request /\ Writes(t)
  BY <1>0, ApiAssumption DEF StoreInv, ApiInv, Writes
<1>2. /\ Running(t) /\ Step(t) \in Statements /\ IsStatement(Step(t))
      /\ frames[t] # <<>> /\ Current(t) = <<t, 1>>
      /\ rows' = [rows EXCEPT ![t] = Returned(t, Step(t))]
      /\ todo' = [todo EXCEPT ![t] = Rest(t)]
      /\ UNCHANGED <<req, error, applied, answer, table, frames>>
      /\ writes'[<<t, 1>>] = [i \in Ids |-> IF i \in DOMAIN Written(t, Step(t))
                                           THEN Written(t, Step(t))[i]
                                           ELSE writes[<<t, 1>>][i]]
  BY <1>1, Executes
<1>3. todo'[t] = Rest(t) /\ rows'[t] = Returned(t, Step(t)) /\ error[t] = NoError
  BY <1>2 DEF ApiInv, StoreInv, Running
<1>4. Began(t)
  BY <1>1, <1>2, WriterSteps
<1>5. AtQuery(t)
  BY <1>1, <1>2, WriterSteps DEF IsStatement
<1>6. Len(frames[t]) = (IF q.block = "none" THEN 1 ELSE 2) /\ t \notin applied
  BY <1>0, <1>5 DEF AtQuery
<1>7. ASSUME Step(t) = First(q), Nil(t), Rest(t) = Two(q, <<>>, RanLine(q)) PROVE InHelper(t)'
  <2>1. UNCHANGED <<req, table>> /\ Step(t) = First(req[t])
    BY <1>0, <1>2, <1>7
  <2>2. Ran(t)'
    BY <1>1, <1>2, <1>3, <1>7, <2>1, FirstStatement
  <2>3. req'[t] = q
    BY <1>0, <1>2
  <2>4. /\ todo'[t] = Two(req'[t], <<>>, RanLine(req'[t])) /\ t \notin applied'
        /\ Len(frames'[t]) = IF req'[t].block = "none" THEN 1 ELSE 2
    BY <1>2, <1>3, <1>6, <1>7, <2>3
  <2> QED BY <2>2, <2>4, Zenon DEF InHelper
<1>8. ASSUME Step(t) = Second(q), Half(t), q.op \in {"upsert", "replace"},
             Rest(t) = Two(q, <<>>, End(q))
      PROVE  InHelper(t)'
  <2>1. UNCHANGED <<req, table>> /\ Step(t) = Second(req[t]) /\ req[t].op \in {"upsert", "replace"}
    BY <1>0, <1>2, <1>8
  <2>2. Whole(t)'
    BY <1>1, <1>2, <1>8, <2>1, SecondStatement
  <2>3. req'[t] = q
    BY <1>0, <1>2
  <2>4. /\ todo'[t] = Two(req'[t], <<>>, End(req'[t])) /\ t \notin applied'
        /\ Len(frames'[t]) = IF req'[t].block = "none" THEN 1 ELSE 2
    BY <1>2, <1>3, <1>6, <1>8, <2>3
  <2> QED BY <2>2, <2>4, Zenon DEF InHelper
<1>9. InHelper(t)'
  <2>1. \/ Step(t) = First(q) /\ Nil(t) /\ Rest(t) = Two(q, <<>>, RanLine(q))
        \/ /\ Step(t) = Second(q) /\ Half(t)
           /\ q.op \in {"upsert", "replace"} /\ Rest(t) = Two(q, <<>>, End(q))
    BY <1>0, <1>5 DEF AtQuery
  <2> QED BY <1>7, <1>8, <2>1
<1>10. Began(t)'
  BY <1>2, <1>4 DEF Began
<1> QED BY <1>0, <1>1, <1>2, <1>3, <1>9, <1>10 DEF Served, Writing

(* An exception comes before anything is committed, or is the 501 of what  *)
(* has no schema.                                                          *)
LEMMA WriterRaises ==
    ASSUME WholeRequests, ApiInv, StoreInv, NEW t \in Task, req[t].op \in Writers,
           \/ UniqueViolation(t) \/ StatementFails(t)
           \/ Local(t) /\ Step(t).do = "raise"
           \/ Local(t) /\ Step(t).do = "found" /\ rows[t] = {}
    PROVE  Served(t)'
<1>1. /\ req[t] \in Request /\ req[t] \in Requests
  BY ApiAssumption DEF StoreInv
<1>2. Running(t)
  BY DEF UniqueViolation, StatementFails, Local, AtStatement
<1>4. PICK e : Raises(t, e) /\ (e = Failure \/ (AtStatement(t) /\ Step(t).do \in {"insert", "update"} /\ e = Step(t).unique)
                                 \/ e = Http(404) \/ (Step(t).do = "raise" /\ e = Step(t).error))
  BY DEF UniqueViolation, StatementFails, Local
<1>5. /\ UNCHANGED <<req, todo, rows, applied, answer>> /\ error' = [error EXCEPT ![t] = e]
  BY <1>4 DEF Raises
<1>6. error'[t] = e /\ DOMAIN error = Task
  BY <1>5 DEF ApiInv
<1>7. e \in Exceptions
  <2>1. Step(t) \in Inside \cup Outside
    BY <1>2, StepOf
  <2>2. Step(t).do = "raise" => Step(t).error \in Exceptions
    BY <2>1, StepKinds
  <2>3. IsStatement(Step(t)) => Step(t) \in Statements
    BY <2>1, StepKinds
  <2>4. \A s \in Statements : s.do \in {"insert", "update"} => s.unique \in Exceptions
    BY DEF Statements
  <2> QED BY <1>4, <2>2, <2>3, <2>4, ExceptionsAre DEF AtStatement
<1>8. e # NoError
  <2>1. \A x \in Exceptions : x.status # 0
    <3>1. \A A, B, r : r \in [status : A, json : B] => r.status \in A
      OBVIOUS
    <3>2. \A x \in Exceptions : x.status \in {400, 422} \/ x.status \in {404, 500, 501}
      BY <3>1, Zenon DEF Exceptions
    <3> QED BY <3>2
  <2>2. NoError.status = 0
    BY DEF NoError
  <2> QED BY <1>7, <2>1, <2>2
<1>9. t \in applied => e.status = 501
  <2>1. CASE Step(t).do = "raise"
    <3>1. AtRaise(t)
      BY <1>1, <1>2, <2>1, WriterSteps
    <3>2. error' = [error EXCEPT ![t] = Step(t).error]
      BY <2>1 DEF UniqueViolation, StatementFails, Local, AtStatement, IsStatement, Raises
    <3> QED BY <1>5, <1>6, <3>1, <3>2 DEF AtRaise, ApiInv
  <2>2. CASE Step(t).do = "found"
    <3>1. rows[t] = {}
      BY <2>2 DEF UniqueViolation, StatementFails, AtStatement, IsStatement
    <3>2. AtFound(t)
      BY <1>1, <1>2, <2>2, WriterSteps
    <3> QED BY <3>1, <3>2 DEF AtFound
  <2>3. CASE IsStatement(Step(t))
    <3>1. AtQuery(t)
      BY <1>1, <1>2, <2>3, WriterSteps DEF IsStatement
    <3> QED BY <3>1 DEF AtQuery
  <2> QED BY <2>1, <2>2, <2>3 DEF UniqueViolation, StatementFails, AtStatement
<1> QED BY <1>5, <1>6, <1>8, <1>9 DEF Served, Writing

(* So do the steps between its helpers. *)
LEMMA WriterGoesOn ==
    ASSUME WholeRequests, ApiInv, StoreInv, NEW t \in Task, Local(t), req[t].op \in Writers,
           \/ Step(t).do = "found" /\ rows[t] # {}
           \/ Step(t).do = "orelse"
    PROVE  Served(t)'
<1>0. PICK q : q = req[t]
  OBVIOUS
<1>1. /\ q \in Request /\ q \in Requests /\ q.op \in Writers /\ Running(t)
      /\ req[t] \in Requests /\ req[t] \in Request /\ Writes(t)
  BY <1>0, ApiAssumption DEF StoreInv, ApiInv, Writes, Local
<1>2. /\ UNCHANGED <<req, rows, error, applied, answer>> /\ UNCHANGED dbVars
      /\ Step(t).do = "found" => todo' = [todo EXCEPT ![t] = Rest(t)]
      /\ Step(t).do = "orelse" => todo' = [todo EXCEPT ![t] =
            <<(IF rows[t] = {} THEN <<Step(t).step>> ELSE <<>>) \o Tail(Head(@))>> \o Tail(@)]
  BY DEF Local, Raises, Next1
<1>3. UNCHANGED <<table, writes, tx, frames>> /\ DOMAIN todo = Task /\ error[t] = NoError
  BY <1>1, <1>2 DEF dbVars, ApiInv, Running
<1>4. Began(t) /\ (Step(t).do = "found" => AtFound(t)) /\ (Step(t).do = "orelse" => AtOrElse(t))
  BY <1>1, <1>2, WriterSteps
<1>5. /\ RanLine(q) \in Seq(Steps) /\ End(q) \in Seq(Steps) /\ SecondLine(q) \in Seq(Steps)
      /\ Second(q) \in Statements
  BY <1>1, LineSteps
<1>6. /\ FirstDone(t) => FirstDone(t)' /\ (FirstDone(t) /\ q.op # "replace" => Whole(t)')
      /\ Half(t) => Half(t)'
  <2>1. FirstDone(t) => FirstDone(t)'
    BY <1>1, <1>2, <1>3, DoneStays
  <2>2. Whole(t) => Whole(t)'
    BY <1>1, <1>2, <1>3, DoneStays
  <2>3. FirstDone(t) /\ q.op # "replace" => Whole(t)
    BY <1>0, FirstIsWhole
  <2>4. Nil(t) => Nil(t)'
    BY <1>3 DEF Nil, Pending, NoWrites
  <2> QED BY <1>2, <2>1, <2>2, <2>3, <2>4 DEF Half
<1>7. MethodFrames(t) /\ MethodFrames(t)'
  <2>1. MethodFrames(t)
    BY <1>2, <1>4 DEF AtFound, AtOrElse
  <2> QED BY <1>2, <1>3, <2>1 DEF MethodFrames
<1>8. ASSUME NEW line \in Seq(Steps), todo'[t] = One(q, line),
             \/ /\ line = SecondLine(q) /\ q.op \in {"upsert", "replace"} /\ Half(t) /\ t \notin applied
             \/ line = End(q) /\ IF t \in applied THEN q.block # "transaction" ELSE Whole(t)'
      PROVE  Served(t)'
  <2>1. req'[t] = q
    BY <1>0, <1>2
  <2>2. Left(t, line)'
    BY <1>2, <1>6, <1>8, <2>1 DEF Left
  <2>3. InMethod(t)'
    BY <1>7, <1>8, <2>1, <2>2 DEF InMethod, MethodFrames
  <2>4. Began(t)'
    BY <1>2, <1>3, <1>4 DEF Began
  <2> QED BY <1>1, <1>2, <1>3, <2>1, <2>3, <2>4 DEF Served, Writing
<1>9. CASE Step(t).do = "found" /\ rows[t] # {}
  <2>1. todo'[t] = Rest(t)
    BY <1>2, <1>3, <1>9
  <2>2. /\ q.op \in {"update", "delete", "replace"}
        /\ Rest(t) = One(q, IF q.op = "replace" THEN SecondLine(q) ELSE End(q))
        /\ IF t \in applied THEN q.block # "transaction" ELSE Ran(t)
    BY <1>0, <1>4, <1>9 DEF AtFound
  <2>3. Ran(t) => FirstDone(t)
    BY <1>9 DEF Ran
  <2>4. q.op = "replace" => q.block = "transaction"
    BY <1>1 DEF WholeRequests
  <2>5. CASE q.op = "replace"
    <3>1. t \notin applied /\ Half(t)
      BY <1>0, <2>2, <2>3, <2>4, <2>5 DEF Half
    <3>2. todo'[t] = One(q, SecondLine(q))
      BY <2>1, <2>2, <2>5
    <3> QED BY <1>5, <1>8, <2>5, <3>1, <3>2
  <2>6. CASE q.op # "replace"
    <3>1. todo'[t] = One(q, End(q))
      BY <2>1, <2>2, <2>6
    <3>2. IF t \in applied THEN q.block # "transaction" ELSE Whole(t)'
      BY <1>6, <2>2, <2>3, <2>6
    <3> QED BY <1>5, <1>8, <3>1, <3>2
  <2> QED BY <2>5, <2>6
<1>10. CASE Step(t).do = "orelse"
  <2>1. PICK line \in Seq(Steps) : todo[t] = One(q, line) /\ Tail(line) = End(q)
    BY <1>0, <1>4, <1>10 DEF AtOrElse
  <2>2. /\ q.op = "upsert" /\ Step(t).step = Helper(q, Second(q))
        /\ IF t \in applied THEN q.block # "transaction" /\ rows[t] # {} ELSE Ran(t)
    BY <1>0, <1>4, <1>10, KindsOfSteps DEF AtOrElse
  <2>3. Head(One(q, line)) = line
    BY <1>1, <2>1, OneTop
  <2> DEFINE more == IF rows[t] = {} THEN <<Step(t).step>> ELSE <<>>
             left == more \o End(q)
  <2>4. todo'[t] = <<left>> \o Tail(One(q, line))
    BY <1>2, <1>3, <1>10, <2>1, <2>3
  <2>5. left = IF rows[t] = {} THEN SecondLine(q) ELSE End(q)
    <3>1. <<Helper(q, Second(q))>> \o End(q) = SecondLine(q)
      BY DEF SecondLine
    <3>2. <<>> \o End(q) = End(q)
      <4> HIDE DEF Steps
      <4> QED BY <1>5, ConcatEmptySeq
    <3> QED BY <2>2, <3>1, <3>2
  <2> HIDE DEF left
  <2>6. left \in Seq(Steps)
    BY <1>5, <2>5
  <2>7. todo'[t] = One(q, left)
    <3>1. <<left>> \o Tail(One(q, line)) = One(q, left)
      BY <1>1, <2>1, <2>6, OneNext
    <3> QED BY <2>4, <3>1
  <2>8. CASE rows[t] = {}
    <3>1. t \notin applied /\ Half(t)
      BY <1>0, <2>2, <2>8 DEF Half, Ran
    <3> QED BY <1>8, <2>2, <2>5, <2>6, <2>7, <2>8, <3>1
  <2>9. CASE rows[t] # {}
    <3>1. IF t \in applied THEN q.block # "transaction" ELSE Whole(t)'
      BY <1>6, <2>2, <2>9 DEF Ran
    <3> QED BY <1>8, <2>5, <2>6, <2>7, <2>9, <3>1
  <2> QED BY <2>8, <2>9
<1> QED BY <1>9, <1>10

(* At the end of a method its rows are committed or complete, or it has    *)
(* deleted none.                                                           *)
LEMMA MethodEnds ==
    ASSUME NEW t \in Task, NEW q \in Request, q = req[t], q.op \in Writers,
           InMethod(t), Head(todo[t]) = <<>>
    PROVE  /\ todo[t] = One(q, <<>>)
           /\ \/ t \in applied /\ q.block # "transaction"
              \/ t \notin applied /\ Nil(t) /\ q.op = "delete_list"
              \/ t \notin applied /\ Whole(t)
<1>1. PICK line \in Seq(Steps) : todo[t] = One(q, line) /\ Left(t, line)
  BY DEF InMethod
<1>2. line = <<>>
  <2>1. Head(One(q, line)) = line
    BY <1>1, OneTop
  <2> QED BY <1>1, <2>1
<1>3. /\ ~Refused(line) /\ line # StartLine(q) /\ line # SecondLine(q)
      /\ line = RanLine(q) => q.op \in {"create", "create_list", "delete_list"}
  BY <1>2, LineHeads DEF Refused, Writers
<1>4. \/ t \in applied /\ q.block # "transaction"
      \/ t \notin applied /\ line = RanLine(q) /\ Ran(t)
      \/ t \notin applied /\ Whole(t)
  BY <1>1, <1>3 DEF Left
<1>5. FirstDone(t) /\ q.op # "replace" => Whole(t)
  BY FirstIsWhole
<1> QED BY <1>1, <1>2, <1>3, <1>4, <1>5 DEF Ran

(* The end of a block commits what is complete, or nothing at all. *)
LEMMA WriterLeaves ==
    ASSUME WholeRequests, ApiInv, BlocksOwnWhatTheyOpened, StoreInv,
           NEW t \in Task, LeaveBlock(t), req[t].op \in Writers
    PROVE  /\ Served(t)'
           /\ error[t] = NoError /\ Last(t).began /\ ~Nil(t) => t \notin applied /\ Whole(t)
<1>0. PICK q : q = req[t]
  OBVIOUS
<1>1. /\ q \in Request /\ q \in Requests /\ q.op \in Writers /\ DbTypeOK /\ OneConn
      /\ req[t] \in Requests /\ req[t] \in Request /\ Writes(t)
      /\ q.block \in {"none", "connection", "transaction"}
  BY <1>0, ApiAssumption DEF StoreInv, ApiInv, Writes, Request
<1>2. PICK f : f = Last(t)
  OBVIOUS
<1>3. /\ answer[t] = NoError /\ frames[t] # <<>>
      /\ Len(frames[t]) \in Nat \ {0} /\ f = frames[t][Len(frames[t])]
      /\ error[t] # NoError \/ Head(todo[t]) = <<>>
      /\ Len(frames'[t]) = Len(frames[t]) - 1
      /\ \A i \in 1..(Len(frames[t]) - 1) : frames'[t][i] = frames[t][i]
      /\ table' = IF f.began /\ error[t] = NoError THEN View(<<t, 1>>) ELSE table
      /\ tx' = IF f.began \/ f.opened THEN tx \ {<<t, 1>>} ELSE tx
      /\ writes'[<<t, 1>>] = IF f.began \/ f.opened THEN NoWrites ELSE writes[<<t, 1>>]
      /\ todo' = [todo EXCEPT ![t] = Tail(@)]
      /\ applied' = IF error[t] = NoError /\ f.began /\ ~Nil(t) THEN applied \cup {t} ELSE applied
      /\ UNCHANGED <<req, rows, error, answer>>
  BY <1>1, <1>2, BlockEnds
<1>4. todo'[t] = Tail(todo[t]) /\ req'[t] = q
  BY <1>0, <1>3 DEF ApiInv
<1>5. CASE error[t] # NoError
  BY <1>0, <1>1, <1>3, <1>5 DEF StoreInv, Served, Writing
<1>6. frames'[t] \in Seq(Frame) /\ frames[t] \in Seq(Frame)
  <2>1. ApiInv'
    BY ApiStep DEF Next
  <2> QED BY <1>1, <2>1 DEF ApiInv, DbTypeOK
<1>7. CASE error[t] = NoError
  <2>1. Began(t) /\ (BeforeBlock(t) \/ InMethod(t) \/ InHelper(t) \/ AfterBlock(t))
    BY <1>1, <1>3, <1>7 DEF StoreInv, Served, Writing
  <2>2. InMethod(t) \/ InHelper(t)
    BY <1>3, <2>1 DEF BeforeBlock, AfterBlock
  <2>3. Head(todo[t]) = <<>> /\ <<>> \in Seq(Steps) /\ error'[t] = NoError /\ answer'[t] = NoError
    BY <1>3, <1>7, Sequences
  <2>4. Began(t)'
    <3>1. frames'[t] # <<>> => Len(frames'[t]) \in Nat \ {0}
      BY <1>6
    <3>2. frames'[t] # <<>> => frames'[t][1] = frames[t][1]
      BY <1>3, <3>1
    <3>3. Len(frames'[t]) > 1 => frames'[t][2] = frames[t][2] /\ Len(frames[t]) > 1
      BY <1>3
    <3> QED BY <1>0, <1>3, <1>4, <2>1, <3>2, <3>3 DEF Began
  <2>5. ASSUME Nil(t), Whole(t) PROVE FALSE
    BY <1>1, <2>5, DoneIsWritten
  <2>6. CASE InMethod(t)
    <3>1. /\ todo[t] = One(q, <<>>)
          /\ \/ t \in applied /\ q.block # "transaction"
             \/ t \notin applied /\ Nil(t) /\ q.op = "delete_list"
             \/ t \notin applied /\ Whole(t)
      BY <1>0, <1>1, <2>3, <2>6, MethodEnds
    <3>3. q.block # "none" /\ Len(frames[t]) = 1 /\ (q.block # "transaction" => <<t, 1>> \notin tx)
      BY <1>0, <1>3, <1>6, <2>6 DEF InMethod
    <3>4. frames'[t] = <<>>
      BY <1>3, <1>6, <3>3
    <3>5. todo'[t] = <<<<>>>>
      BY <1>4, <3>1, <3>3 DEF One
    <3>6. f.began <=> q.block # "connection"
      BY <1>0, <1>3, <2>1, <3>3 DEF Began
    <3>7. q.block # "transaction" => Nil(t)
      BY <1>1, <3>3, Idle
    <3>9. t \in applied' \/ q.op = "delete_list"
      BY <1>1, <1>3, <1>7, <2>5, <3>1, <3>6, <3>7
    <3>8. ~Nil(t) => t \notin applied /\ Whole(t)
      BY <3>1, <3>7
    <3>10. AfterBlock(t)'
      BY <1>4, <3>3, <3>4, <3>5, <3>9 DEF AfterBlock
    <3> QED BY <1>1, <1>4, <2>3, <2>4, <3>8, <3>10 DEF Served, Writing
  <2>7. CASE InHelper(t)
    <3>1. /\ Len(frames[t]) = (IF q.block = "none" THEN 1 ELSE 2) /\ t \notin applied
      BY <1>0, <2>7 DEF InHelper
    <3>2. PICK line \in Seq(Steps) :
            /\ todo[t] = Two(q, <<>>, line)
            /\ (line = RanLine(q) /\ Ran(t)) \/ (line = End(q) /\ Whole(t))
      <4>1. RanLine(q) \in Seq(Steps) /\ End(q) \in Seq(Steps)
        BY <1>1, LineSteps
      <4>2. ASSUME NEW s, <<s>> \in Seq(Steps), NEW line \in Seq(Steps) PROVE todo[t] # Two(q, <<s>>, line)
        <5> DEFINE b == <<s>>
        <5>1. b # <<>> /\ b \in Seq(Steps)
          BY <4>2
        <5> HIDE DEF b
        <5>2. Head(Two(q, b, line)) = b
          BY <1>1, <4>2, <5>1, TwoTop
        <5> QED BY <2>3, <5>1, <5>2 DEF b
      <4>3. <<First(q)>> \in Seq(Steps) /\ <<Second(q)>> \in Seq(Steps)
        BY <1>1, LineSteps
      <4>4. todo[t] # Two(q, <<First(q)>>, RanLine(q))
        BY <4>1, <4>2, <4>3
      <4>5. todo[t] # Two(q, <<Second(q)>>, End(q))
        BY <4>1, <4>2, <4>3
      <4>6. (todo[t] = Two(q, <<>>, RanLine(q)) /\ Ran(t)) \/ (todo[t] = Two(q, <<>>, End(q)) /\ Whole(t))
        BY <1>0, <2>7, <4>4, <4>5 DEF InHelper
      <4> QED BY <4>1, <4>6
    <3>3. todo'[t] = One(q, line)
      <4>1. Tail(Two(q, <<>>, line)) = One(q, line)
        BY <1>1, <2>3, <3>2, TwoTop
      <4> QED BY <1>4, <3>2, <4>1
    <3>4. f.began <=> q.block # "transaction"
      <4>1. CASE q.block = "none"
        BY <1>0, <1>3, <2>1, <3>1, <4>1 DEF Began
      <4>2. CASE q.block # "none"
        BY <1>0, <1>1, <1>3, <2>1, <3>1, <4>2 DEF Began
      <4> QED BY <4>1, <4>2
    <3>5. q.block = "transaction" => ~f.opened
      <4>1. SUFFICES ASSUME q.block = "transaction" PROVE ~f.opened
        OBVIOUS
      <4>2. Len(frames[t]) = 2 /\ f = frames[t][2]
        BY <1>3, <3>1, <4>1
      <4>3. frames[t][2].conn = 1
        BY <1>1, <4>2 DEF OneConn
      <4>4. frames[t][2].opened <=> frames[t][2].conn = 2
        <5>1. FramesOwn(t)
          BY DEF BlocksOwnWhatTheyOpened
        <5>2. 2 \in 1..Len(frames[t])
          BY <4>2
        <5> QED BY <5>1, <5>2 DEF FramesOwn
      <4> QED BY <4>2, <4>3, <4>4
    <3>6. MethodFrames(t)'
      <4>1. q.block # "transaction" => <<t, 1>> \notin tx'
        BY <1>3, <3>4
      <4> QED BY <1>3, <1>4, <3>1, <4>1 DEF MethodFrames
    <3>7. ASSUME Nil(t) \/ q.block = "transaction"
          PROVE  /\ t \notin applied' /\ (Ran(t) => Ran(t)') /\ (Whole(t) => Whole(t)')
      <4>1. t \notin applied'
        BY <1>3, <3>1, <3>4, <3>7
      <4>2. writes'[<<t, 1>>] = writes[<<t, 1>>]
        BY <1>3, <3>4, <3>5, <3>7 DEF Nil, Pending
      <4>3. \A i \in Ids : writes[<<t, 1>>][i] # Same => table'[i] = table[i]
        <5>1. CASE q.block = "transaction"
          BY <1>3, <3>4, <5>1
        <5>2. CASE Nil(t)
          BY <5>2 DEF Nil, Pending, NoWrites
        <5> QED BY <3>7, <5>1, <5>2
      <4>4. /\ FirstDone(t) => FirstDone(t)'
            /\ Whole(t) => Whole(t)'
        BY <1>0, <1>1, <1>4, <4>2, <4>3, DoneStays
      <4>5. Nil(t) => Nil(t)'
        BY <4>2 DEF Nil, Pending, NoWrites
      <4> QED BY <1>0, <1>3, <1>4, <4>1, <4>4, <4>5 DEF Ran
    <3>8. ASSUME ~Nil(t), q.block # "transaction" PROVE t \in applied'
      BY <1>3, <1>7, <3>4, <3>8
    <3>9. Left(t, line)'
      <4>1. CASE Nil(t) \/ q.block = "transaction"
        BY <1>4, <3>2, <3>7, <4>1 DEF Left
      <4>2. CASE ~(Nil(t) \/ q.block = "transaction")
        <5>1. Ran(t) => rows'[t] # {}
          BY <1>3, <4>2 DEF Ran
        <5> QED BY <1>4, <3>2, <3>8, <4>2, <5>1 DEF Left
      <4> QED BY <4>1, <4>2
    <3>10. InMethod(t)'
      BY <1>4, <3>3, <3>6, <3>9 DEF InMethod, MethodFrames
    <3>11. f.began /\ ~Nil(t) => t \notin applied /\ Whole(t)
      <4>1. SUFFICES ASSUME f.began, ~Nil(t) PROVE Whole(t)
        BY <3>1
      <4>2. q.op # "replace"
        BY <1>1, <3>4, <4>1 DEF WholeRequests
      <4>3. FirstDone(t) => Whole(t)
        BY <1>0, <4>2, FirstIsWhole
      <4> QED BY <3>2, <4>1, <4>3 DEF Ran
    <3> QED BY <1>1, <1>2, <1>4, <2>3, <2>4, <3>10, <3>11 DEF Served, Writing
  <2> QED BY <2>2, <2>6, <2>7
<1> QED BY <1>5, <1>7

(* Neither fails after something was committed: a block that has a         *)
(* transaction to commit is the only one of its request.                   *)
LEMMA WriterBreaks ==
    ASSUME WholeRequests, ApiInv, StoreInv, NEW t \in Task, Breaks(t), req[t].op \in Writers
    PROVE  Served(t)'
<1>0. PICK q : q = req[t]
  OBVIOUS
<1>1. /\ q \in Request /\ q.op \in Writers /\ DbTypeOK /\ OneConn
      /\ req[t] \in Requests /\ req[t] \in Request /\ Writes(t)
      /\ q.block \in {"none", "connection", "transaction"}
  BY <1>0, ApiAssumption DEF StoreInv, ApiInv, Writes, Request
<1>2. /\ answer[t] = NoError /\ error[t] = NoError /\ error'[t] # NoError
      /\ UNCHANGED <<req, applied, answer>>
  <2>1. Failure # NoError
    BY DEF Failure, NoError
  <2> QED BY <1>1, <2>1, Broken
<1>3. CASE ConnectFails(t)
  <2>1. Running(t) /\ Step(t).do = "with"
    BY <1>3 DEF ConnectFails, NeedsConnection
  <2>2. AtOpening(t) \/ AtHelper(t)
    BY <1>1, <2>1, WriterSteps
  <2>3. t \notin applied
    BY <2>2 DEF AtOpening, AtHelper
  <2> QED BY <1>2, <2>3 DEF Served, Writing
<1>4. CASE CommitFails(t)
  <2>1. frames[t] # <<>> /\ Head(todo[t]) = <<>> /\ Last(t).began
    BY <1>4 DEF CommitFails
  <2>2. Began(t) /\ (InMethod(t) \/ InHelper(t))
    BY <1>1, <1>2, <2>1 DEF StoreInv, Served, Writing, BeforeBlock, AfterBlock
  <2>3. CASE InHelper(t)
    BY <1>2, <2>3 DEF InHelper, Served, Writing
  <2>4. CASE InMethod(t)
    <3>1. Len(frames[t]) \in Nat \ {0} /\ Last(t) = frames[t][Len(frames[t])]
      BY <1>1, <2>1, InBlocks
    <3>2. Len(frames[t]) = 1
      BY <1>0, <2>4, <3>1 DEF InMethod
    <3>3. q.block # "none"
      BY <1>0, <2>4, <3>2 DEF InMethod
    <3>4. q.block = "transaction"
      BY <1>0, <1>1, <2>1, <2>2, <3>1, <3>2, <3>3 DEF Began
    <3>5. t \notin applied
      BY <1>0, <1>1, <2>1, <2>4, <3>4, MethodEnds
    <3> QED BY <1>2, <3>5 DEF Served, Writing
  <2> QED BY <2>2, <2>3, <2>4
<1> QED BY <1>3, <1>4 DEF Breaks

-----------------------------------------------------------------------------
(* A request that reads goes on reading. *)
LEMMA ReadableKinds ==
    /\ ReadSteps \subseteq AndBlocks(ReadSteps) /\ AndBlocks(ReadSteps) \subseteq AndBlocks(AndBlocks(ReadSteps))
    /\ AndBlocks(AndBlocks(ReadSteps)) \subseteq Readable
    /\ \A s \in Readable : /\ s.do = "with" => s.body \in Seq(Readable)
                           /\ s.do \in {"select", "raise", "found", "return", "with"}
<1> DEFINE A == AndBlocks(ReadSteps)
           B == AndBlocks(A)
<1>1. \A S : S \subseteq AndBlocks(S)
  BY DEF AndBlocks
<1>2. ReadSteps \subseteq A /\ A \subseteq B /\ B \subseteq Readable
  BY <1>1 DEF Readable
<1>3. Seq(ReadSteps) \subseteq Seq(Readable) /\ Seq(A) \subseteq Seq(Readable) /\ Seq(B) \subseteq Seq(Readable)
  <2> HIDE DEF A, B
  <2> QED BY <1>2, Sequences, Zenon
<1>4. \A S : \A s \in AndBlocks(S) : s \in S \/ (s.do = "with" /\ s.body \in Seq(S))
  BY DEF AndBlocks
<1>5. \A s \in ReadSteps : s.do \in {"select", "raise", "found", "return"}
  BY DEF ReadSteps, Found
<1>6. ASSUME NEW s \in Readable
      PROVE  s \in ReadSteps \/ (s.do = "with" /\ s.body \in Seq(Readable))
  <2>1. s \in B \/ (s.do = "with" /\ s.body \in Seq(B))
    BY <1>4 DEF Readable
  <2>2. s \in B => s \in A \/ (s.do = "with" /\ s.body \in Seq(A))
    BY <1>4
  <2>3. s \in A => s \in ReadSteps \/ (s.do = "with" /\ s.body \in Seq(ReadSteps))
    BY <1>4
  <2> HIDE DEF A, B
  <2> QED BY <1>3, <2>1, <2>2, <2>3
<1>7. ASSUME NEW s \in Readable
      PROVE  /\ s.do = "with" => s.body \in Seq(Readable)
             /\ s.do \in {"select", "raise", "found", "return", "with"}
  BY <1>5, <1>6
<1> QED BY <1>2, <1>7

(* A request that only reads writes nothing. *)
LEMMA ReaderStep ==
    ASSUME ApiInv, StoreInv, NEW t \in Task, req[t].op \notin Writers,
           EnterBlock(t) \/ Statement(t) \/ UniqueViolation(t) \/ StatementFails(t) \/ Local(t)
             \/ LeaveBlock(t) \/ Breaks(t)
    PROVE  Served(t)'
<1> DEFINE S == Seq(Readable)
<1>1. /\ DbTypeOK /\ OneConn /\ DOMAIN todo = Task /\ DOMAIN error = Task
  BY DEF StoreInv, ApiInv
<1>2. answer[t] = NoError
  BY DEF EnterBlock, Statement, UniqueViolation, StatementFails, Local, LeaveBlock, AtStatement, Running,
         Breaks, ConnectFails, CommitFails, NeedsConnection
<1>3. t \notin applied /\ Nil(t) /\ todo[t] \in Seq(S)
  BY <1>2 DEF StoreInv, Served, Reading
<1>4. req[t].op = "missing" /\ error[t] = NoError => Missing(Head(todo[t]))
  BY <1>2 DEF StoreInv, Served, Reading
<1>5. Running(t) =>
        /\ Step(t) \in Readable /\ Rest(t) \in Seq(S) /\ error[t] = NoError
        /\ Step(t).do = "with" => <<Step(t).body>> \o Rest(t) \in Seq(S)
                                  /\ Head(<<Step(t).body>> \o Rest(t)) = Step(t).body
  <2> SUFFICES ASSUME Running(t)
               PROVE  /\ Step(t) \in Readable /\ Rest(t) \in Seq(S) /\ error[t] = NoError
                      /\ Step(t).do = "with" => <<Step(t).body>> \o Rest(t) \in Seq(S)
                                  /\ Head(<<Step(t).body>> \o Rest(t)) = Step(t).body
    OBVIOUS
  <2>1. todo[t] # <<>> /\ Head(todo[t]) # <<>> /\ error[t] = NoError
    BY DEF Running
  <2>2. Head(todo[t]) \in S /\ Tail(todo[t]) \in Seq(S)
    <3> HIDE DEF S
    <3> QED BY <1>3, <2>1, HeadTailProperties
  <2>3. Step(t) \in Readable /\ Tail(Head(todo[t])) \in S
    <3> HIDE DEF Readable
    <3> QED BY <2>1, <2>2, HeadTailProperties DEF Step
  <2>4. Rest(t) \in Seq(S)
    <3> HIDE DEF S
    <3> QED BY <2>2, <2>3, Pushing DEF Rest
  <2>5. ASSUME Step(t).do = "with"
        PROVE  /\ <<Step(t).body>> \o Rest(t) \in Seq(S)
               /\ Head(<<Step(t).body>> \o Rest(t)) = Step(t).body
    <3>1. Step(t).body \in S
      BY <2>3, <2>5, ReadableKinds
    <3> HIDE DEF S
    <3> QED BY <2>4, <3>1, Pushing
  <2> QED BY <2>1, <2>3, <2>4, <2>5
<1>6. Running(t) /\ req[t].op = "missing" =>
        /\ Step(t).do \in {"return", "with"}
        /\ Step(t).do = "with" => Missing(Step(t).body)
  BY <1>4, <1>5 DEF Missing, Step
<1>7. ASSUME UNCHANGED <<req, answer>>, t \notin applied', Nil(t)', todo'[t] \in Seq(S),
             req[t].op = "missing" /\ error'[t] = NoError => Missing(Head(todo'[t]))
      PROVE  Served(t)'
  <2>1. Reading(t)'
    BY <1>7 DEF Reading, Missing
  <2> QED BY <1>7, <2>1 DEF Served
<1>8. UNCHANGED writes => Nil(t)'
  BY <1>3 DEF Nil, Pending, NoWrites
<1>9. CASE EnterBlock(t)
  <2>1. /\ Running(t) /\ Step(t).do = "with"
        /\ todo' = [todo EXCEPT ![t] = <<Step(t).body>> \o Rest(t)]
        /\ UNCHANGED <<req, rows, error, applied, answer>>
    BY <1>9, Enters
  <2>2. UNCHANGED writes
    <3>1. CASE frames[t] = <<>>
      <4>1. PICK begin \in BOOLEAN : Checkout(t, begin)
        BY <1>9, <3>1, Enters
      <4> QED BY <4>1 DEF Checkout
    <3>2. CASE frames[t] # <<>>
      BY <1>1, <1>9, <3>2, Enters, Joins
    <3> QED BY <3>1, <3>2
  <2>3. todo'[t] = <<Step(t).body>> \o Rest(t)
    BY <1>1, <2>1
  <2> QED BY <1>3, <1>5, <1>6, <1>7, <1>8, <2>1, <2>2, <2>3
<1>10. CASE Statement(t)
  <2>1. /\ Running(t) /\ IsStatement(Step(t))
        /\ todo' = [todo EXCEPT ![t] = Rest(t)] /\ UNCHANGED <<req, error, applied, answer>>
        /\ writes'[<<t, 1>>] = [i \in Ids |-> IF i \in DOMAIN Written(t, Step(t))
                                             THEN Written(t, Step(t))[i]
                                             ELSE writes[<<t, 1>>][i]]
    BY <1>1, <1>10, Executes
  <2>2. Step(t).do = "select"
    BY <1>5, <2>1, ReadableKinds DEF IsStatement
  <2>3. DOMAIN Written(t, Step(t)) = {}
    BY <2>2 DEF Written
  <2>4. writes'[<<t, 1>>] = [i \in Ids |-> writes[<<t, 1>>][i]]
    BY <2>1, <2>3
  <2>5. Nil(t)'
    BY <1>3, <2>4 DEF Nil, Pending, NoWrites
  <2>6. ~(req[t].op = "missing")
    BY <1>6, <2>1, <2>2
  <2>7. todo'[t] = Rest(t)
    BY <1>1, <2>1
  <2> QED BY <1>3, <1>5, <1>7, <2>1, <2>5, <2>6, <2>7
<1>11. CASE UniqueViolation(t) \/ StatementFails(t) \/ Local(t)
  <2>1. Running(t) /\ UNCHANGED <<req, answer, applied>> /\ UNCHANGED dbVars
    BY <1>11 DEF UniqueViolation, StatementFails, Local, Raises, Next1, AtStatement
  <2>2. Step(t).do \in {"select", "raise", "found", "return", "with"}
    BY <1>5, <2>1, ReadableKinds
  <2>3. todo' = todo \/ todo' = [todo EXCEPT ![t] = Rest(t)]
    BY <1>11, <2>2 DEF UniqueViolation, StatementFails, Local, Raises, Next1
  <2>4. todo'[t] \in Seq(S)
    BY <1>1, <1>3, <1>5, <2>1, <2>3
  <2>5. ~(req[t].op = "missing")
    BY <1>6, <1>11, <2>1 DEF UniqueViolation, StatementFails, Local, AtStatement, IsStatement
  <2> QED BY <1>3, <1>7, <1>8, <2>1, <2>4, <2>5 DEF dbVars
<1>12. CASE LeaveBlock(t)
  <2>1. /\ error[t] # NoError \/ Head(todo[t]) = <<>>
        /\ writes'[<<t, 1>>] \in {NoWrites, writes[<<t, 1>>]}
        /\ todo' = [todo EXCEPT ![t] = Tail(@)]
        /\ applied' = IF error[t] = NoError /\ Last(t).began /\ ~Nil(t) THEN applied \cup {t} ELSE applied
        /\ UNCHANGED <<req, rows, error, answer>>
    BY <1>1, <1>12, BlockEnds
  <2>2. Nil(t)' /\ t \notin applied'
    BY <1>3, <2>1 DEF Nil, Pending, NoWrites
  <2>3. todo[t] # <<>>
    <3>1. /\ Stack(todo[t], Len(frames[t])) /\ frames[t] \in Seq(Frame)
      BY <1>1, <1>2 DEF ApiInv, TaskOK, DbTypeOK
    <3>2. Len(frames[t]) \in Nat
      BY <3>1
    <3> QED BY <3>1, <3>2, StackTop
  <2>4. todo'[t] \in Seq(S)
    <3>1. Tail(todo[t]) \in Seq(S)
      <4> HIDE DEF S
      <4> QED BY <1>3, <2>3, HeadTailProperties
    <3> QED BY <1>1, <2>1, <3>1
  <2>5. req[t].op = "missing" => error'[t] # NoError
    BY <1>4, <2>1 DEF Missing
  <2> QED BY <1>7, <2>1, <2>2, <2>4, <2>5
<1>13. CASE Breaks(t)
  <2>1. /\ UNCHANGED <<req, applied, answer>> /\ error'[t] = Failure
        /\ todo'[t] \in {todo[t], Tail(todo[t])}
        /\ writes'[<<t, 1>>] \in {NoWrites, writes[<<t, 1>>]}
    BY <1>1, <1>13, Broken
  <2>2. Nil(t)'
    BY <1>3, <2>1 DEF Nil, Pending, NoWrites
  <2>3. todo[t] # <<>>
    <3>1. /\ Stack(todo[t], Len(frames[t])) /\ frames[t] \in Seq(Frame)
      BY <1>1, <1>2 DEF ApiInv, TaskOK, DbTypeOK
    <3>2. Len(frames[t]) \in Nat
      BY <3>1
    <3> QED BY <3>1, <3>2, StackTop
  <2>4. todo'[t] \in Seq(S)
    <3>1. Tail(todo[t]) \in Seq(S)
      <4> HIDE DEF S
      <4> QED BY <1>3, <2>3, HeadTailProperties
    <3> QED BY <1>3, <2>1, <3>1
  <2>5. Failure # NoError
    BY DEF Failure, NoError
  <2> QED BY <1>3, <1>7, <2>1, <2>2, <2>4, <2>5
<1> QED BY <1>9, <1>10, <1>11, <1>12, <1>13

(* Where a request that reads begins. *)
LEMMA ReaderBegins ==
    ASSUME NEW q \in Request, q.op \notin Writers
    PROVE  /\ Handler(q) \in Seq(Readable)
           /\ q.op = "missing" => Missing(Handler(q))
<1> DEFINE A == AndBlocks(ReadSteps)
           B == AndBlocks(A)
           S == Seq(B)
           conn == q.block # "none"
           late == IF q.raises THEN <<Raise([Failure EXCEPT !.json = TRUE])>> ELSE <<>>
<1>1. ReadSteps \subseteq A /\ A \subseteq B /\ B \subseteq Readable
  BY ReadableKinds
<1>2. ASSUME NEW e \in Exceptions PROVE Raise(e) \in B
  <2>1. Raise(e) \in ReadSteps
    BY DEF ReadSteps, Raise
  <2> QED BY <1>1, <2>1
<1>3. \A f \in Filters : Select(f) \in ReadSteps
  BY DEF ReadSteps, Select
<1>4. Found \in B /\ Return(404) \in B
  <2>1. Found \in ReadSteps /\ Return(404) \in ReadSteps
    BY DEF ReadSteps, Return
  <2> QED BY <1>1, <2>1
<1>5. ASSUME NEW T, NEW block \in Blocks, NEW given \in BOOLEAN, NEW body \in Seq(T)
      PROVE  With(block, given, body) \in AndBlocks(T)
  BY DEF With, AndBlocks
<1>6. conn \in BOOLEAN /\ "ensure" \in Blocks /\ (conn => q.block \in Blocks)
  BY DEF Blocks, Request
<1>7. ASSUME NEW f \in Filters, NEW given \in BOOLEAN
      PROVE  Ensure(given, Select(f)) \in A /\ Ensure(given, Select(f)) \in B
  <2>1. <<Select(f)>> \in Seq(ReadSteps)
    BY <1>3, Sequences
  <2> QED BY <1>1, <1>5, <1>6, <2>1 DEF Ensure
<1>8. ASSUME NEW f \in Filters, NEW given \in BOOLEAN PROVE DbPaginate(f, given) \in B
  <2>1. Select(f) \in A /\ DbCount(f, TRUE) \in A
    BY <1>1, <1>3, <1>7 DEF DbCount
  <2>2. <<DbCount(f, TRUE), Select(f)>> \in Seq(A)
    <3> HIDE DEF A
    <3> QED BY <2>1, Sequences
  <2> QED BY <1>5, <1>6, <2>2 DEF DbPaginate
<1>9. <<>> \in S /\ (\A x \in B : <<x>> \in S) /\ (\A x, y \in B : <<x, y>> \in S)
      /\ \A x, y \in S : x \o y \in S
  <2> HIDE DEF B
  <2> QED BY Sequences
<1>10. ASSUME NEW what, NEW status \in {400, 404, 422, 501} PROVE Refuse(q, what, status) \in S
  BY <1>2, <1>9, ExceptionsAre DEF Refuse
<1>11. /\ Dump(q) \in S /\ late \in S /\ JsonData(q) \in S /\ Cleaned(q) \in S
       /\ GetFilters(q) \in S /\ GetPagSearchFilters(q) \in S
  <2>1. Raise(Http(501)) \in B /\ Raise([Failure EXCEPT !.json = TRUE]) \in B
    BY <1>2, ExceptionsAre
  <2> QED BY <1>9, <1>10, <2>1
    DEF Dump, JsonData, Schema, Path, Cleaned, GetFilters, GetPagSearchFilters
<1>12. Everything \in Filters /\ ById(q.id) \in Filters
  BY DEF Request, Filters
<1>13. q.op \in {"get_list", "get", "touch", "missing"}
  BY DEF Request, Writers
<1> HIDE DEF A, B, S
<1>14. ASSUME NEW given \in BOOLEAN PROVE Method(q, given) \in S
  <2>1. CASE q.op = "get_list"
    <3>1. <<DbPaginate(Everything, given)>> \in S
      BY <1>8, <1>9, <1>12
    <3> QED BY <1>9, <1>11, <2>1, <3>1 DEF Method, GetList
  <2>2. CASE q.op = "get"
    <3>1. <<DbSelect(ById(q.id), given), Found>> \in S
      BY <1>4, <1>7, <1>9, <1>12 DEF DbSelect
    <3> QED BY <1>9, <1>11, <2>2, <3>1 DEF Method, GetOne
  <2>3. CASE q.op = "touch"
    <3>1. <<DbSelect(ById(q.id), given), Found>> \in S
      BY <1>4, <1>7, <1>9, <1>12 DEF DbSelect
    <3>2. (IF given THEN <<>> ELSE JsonData(q) \o Cleaned(q)) \in S
      BY <1>9, <1>11
    <3>3. Method(q, given) = (IF given THEN <<>> ELSE JsonData(q) \o Cleaned(q)) \o GetFilters(q)
                 \o <<DbSelect(ById(q.id), given), Found>> \o Dump(q)
      BY <2>3 DEF Method, UpdateOne
    <3> QED BY <1>9, <1>11, <3>1, <3>2, <3>3
  <2>4. CASE q.op = "missing"
    BY <1>4, <1>9, <2>4 DEF Method
  <2> QED BY <1>13, <2>1, <2>2, <2>3, <2>4
<1>15. CASE q.block = "none"
  <2>1. Handler(q) = Method(q, FALSE)
    BY <1>15 DEF Handler
  <2>2. S \subseteq Seq(Readable)
    BY <1>1, Sequences DEF S
  <2>3. q.op = "missing" => Missing(Handler(q))
    <3> SUFFICES ASSUME q.op = "missing" PROVE Missing(Handler(q))
      OBVIOUS
    <3>1. Handler(q) = <<Return(404)>>
      BY <2>1 DEF Method
    <3> QED BY <3>1 DEF Missing, Return
  <2> QED BY <1>14, <2>1, <2>2, <2>3
<1>16. CASE q.block # "none"
  <2> DEFINE body == Method(q, TRUE) \o late
             w == With(q.block, FALSE, body)
  <2>1. body \in S
    BY <1>9, <1>11, <1>14
  <2>2. w \in Readable
    BY <1>5, <1>6, <1>16, <2>1 DEF S, B, A, Readable
  <2>3. Handler(q) = <<w>>
    <3>1. Handler(q) = <<>> \o <<w>>
      BY <1>13, <1>16 DEF Handler
    <3>2. <<w>> \in Seq(Readable)
      <4> HIDE DEF w, Readable
      <4> QED BY <2>2, Sequences
    <3> HIDE DEF w
    <3> QED BY <3>1, <3>2, ConcatEmptySeq
  <2>4. ASSUME q.op = "missing" PROVE body # <<>> /\ Head(body).do = "return"
    <3>1. Method(q, TRUE) = <<Return(404)>>
      BY <2>4 DEF Method
    <3>2. body = <<Return(404)>> \o late
      BY <3>1
    <3>3. Return(404) \in B /\ late \in Seq(B)
      BY <1>4, <1>11 DEF S
    <3>4. Return(404).do = "return"
      BY DEF Return
    <3> HIDE DEF body, late
    <3>5. <<Return(404)>> \o late # <<>> /\ Head(<<Return(404)>> \o late) = Return(404)
      BY <3>3, Pushing
    <3> QED BY <3>2, <3>4, <3>5
  <2>5. q.op = "missing" => Missing(Handler(q))
    <3>1. w.do = "with" /\ w.body = body
      BY DEF With
    <3> HIDE DEF w, body
    <3>2. <<w>> # <<>> /\ Head(<<w>>) = w
      OBVIOUS
    <3> QED BY <2>3, <2>4, <3>1, <3>2 DEF Missing
  <2>6. <<w>> \in Seq(Readable)
    <3> HIDE DEF w, Readable
    <3> QED BY <2>2, Sequences
  <2> QED BY <2>3, <2>5, <2>6
<1> QED BY <1>15, <1>16

-----------------------------------------------------------------------------
(* The invariant of the tasks and of what they have written. *)
LEMMA StoreStart == ASSUME WholeRequests, FreshRows, ApiInit PROVE StoreInv
<1>1. /\ req \in [Task -> Requests] /\ DOMAIN rows = Task /\ applied = {}
      /\ \A t \in Task : /\ frames[t] = <<>> /\ error[t] = NoError /\ answer[t] = NoError
                         /\ todo[t] = <<Handler(req[t])>>
  BY DEF ApiInit, Init
<1>2. table = Initial /\ \A c \in Conn : writes[c] = NoWrites
  BY DEF ApiInit, Init
<1>3. \A i \in Ids : NoWrites[i] = Same
  BY DEF NoWrites
<1>4. FreshOK
  <2>1. ASSUME NEW t \in Task, NEW n \in {1, 2}
        PROVE  table[<<t, n>>] = None /\ \A c \in Conn : writes[c][<<t, n>>] = Same
    <3>1. <<t, n>> \in Ids /\ Initial[<<t, n>>] = None
      BY ApiAssumption DEF FreshRows
    <3> QED BY <1>2, <1>3, <3>1
  <2> QED BY <2>1 DEF FreshOK
<1>5. OneConn
  BY <1>1 DEF OneConn
<1>6. ASSUME NEW t \in Task PROVE Served(t)
  <2>0. PICK q : q = req[t]
    OBVIOUS
  <2>1. /\ q \in Requests /\ q \in Request /\ t \notin applied /\ frames[t] = <<>>
        /\ error[t] = NoError /\ answer[t] = NoError /\ todo[t] = <<Handler(q)>>
    BY <1>1, <2>0, ApiAssumption
  <2>2. Nil(t) /\ <<t, 1>> \notin tx
    <3>1. <<t, 1>> \in Conn
      BY DatabaseAssumption DEF Conn
    <3> QED BY <1>2, <3>1 DEF Nil, Pending, ApiInit, Init
  <2>3. CASE q.op \notin Writers
    <3>1. Handler(q) \in Seq(Readable) /\ (q.op = "missing" => Missing(Handler(q)))
      BY <2>1, <2>3, ReaderBegins
    <3>2. <<Handler(q)>> \in Seq(Seq(Readable))
      <4>1. \A S : \A h \in S : <<h>> \in Seq(S)
        BY Sequences
      <4> QED BY <3>1, <4>1, Zenon
    <3>3. Head(<<Handler(q)>>) = Handler(q)
      OBVIOUS
    <3> QED BY <2>0, <2>1, <2>2, <2>3, <3>1, <3>2, <3>3 DEF Served, Reading
  <2>4. CASE q.op \in Writers
    <3>1. Begins(q, Handler(q))
      <4>1. q.op = "replace" => q.block # "none"
        BY <2>1 DEF WholeRequests
      <4> QED BY <2>1, <2>4, <4>1, HandlerBegins
    <3>2. Handler(q) \in Seq(Steps)
      <4>1. Handler(q) \in Seq(Outside) /\ Outside \subseteq Steps
        BY <2>1, HandlerSteps DEF Steps
      <4> HIDE DEF Steps
      <4> QED BY <4>1, Sequences
    <3>3. Began(t)
      <4>1. ~(Len(frames[t]) > 1)
        BY <2>1
      <4> QED BY <2>1, <4>1 DEF Began
    <3>4. CASE q.block = "none"
      <4>1. Left(t, Handler(q))
        BY <2>0, <2>1, <2>2, <3>1, <3>4 DEF Left, Begins
      <4>2. todo[t] = One(q, Handler(q))
        BY <2>1, <3>4 DEF One
      <4>3. Len(frames[t]) = 0
        BY <2>1
      <4>4. InMethod(t)
        BY <2>0, <2>2, <3>2, <3>4, <4>1, <4>2, <4>3 DEF InMethod
      <4> QED BY <2>0, <2>1, <2>4, <3>3, <4>4 DEF Served, Writing
    <3>5. CASE q.block # "none"
      <4>1. BeforeBlock(t)
        <5>1. CASE Refused(Handler(q))
          BY <2>0, <2>1, <3>2, <3>5, <5>1 DEF BeforeBlock
        <5>2. CASE ~Refused(Handler(q))
          <6>1. PICK body \in Seq(Steps) : /\ Refused(body) \/ body = StartLine(q)
                                           /\ Handler(q) = <<With(q.block, FALSE, body)>>
            BY <3>1, <3>5, <5>2 DEF Begins
          <6>2. todo[t] = <<<<With(q.block, FALSE, body)>>>>
            BY <2>1, <6>1
          <6> QED BY <2>0, <2>1, <3>5, <6>1, <6>2 DEF BeforeBlock
        <5> QED BY <5>1, <5>2
      <4> QED BY <2>0, <2>1, <2>4, <3>3, <4>1 DEF Served, Writing
    <3> QED BY <3>4, <3>5
  <2> QED BY <2>3, <2>4
<1> QED BY <1>1, <1>4, <1>5, <1>6 DEF StoreInv

(* What is sent: the status of the exception, 200, or an error for what    *)
(* the middleware does not understand.                                     *)
LEMMA Answers ==
    ASSUME ApiInv, NEW t \in Task, Answer(t)
    PROVE  /\ answer[t] = NoError /\ todo[t] # <<>>
           /\ \A o \in Task \ {t} : answer'[o] = answer[o]
           /\ UNCHANGED <<table, req, applied>>
           /\ answer'[t].status \in {200, 400, 404, 422, 500, 501}
           /\ error[t] # NoError => answer'[t].status = error[t].status
           /\ error[t] = NoError =>
                \/ Head(todo[t]) = <<>> /\ (200 \notin StatusCodes => answer'[t].status = 200)
                \/ Running(t) /\ Step(t).do = "return" /\ answer'[t].status = 500
<1> DEFINE a == IF error[t] # NoError THEN JsonError(error[t]) ELSE Response(t)
<1>1. /\ answer[t] = NoError /\ frames[t] = <<>>
      /\ error[t] = NoError /\ Head(todo[t]) # <<>> => Step(t).do = "return"
      /\ answer' = [answer EXCEPT ![t] = a] /\ UNCHANGED <<table, req, applied>>
  BY DEF Answer, dbVars
<1>2. DOMAIN answer = Task /\ error \in [Task -> Exceptions \cup {NoError}]
  BY DEF ApiInv
<1>3. answer'[t] = a /\ \A o \in Task \ {t} : answer'[o] = answer[o]
  BY <1>1, <1>2
<1>4. todo[t] # <<>>
  <2>1. Stack(todo[t], Len(frames[t])) /\ Len(frames[t]) \in Nat
    BY <1>1 DEF ApiInv, TaskOK, DbTypeOK
  <2> QED BY <2>1, StackTop
<1>5. CASE error[t] # NoError
  <2>1. error[t] \in Exceptions /\ a = JsonError(error[t])
    BY <1>2, <1>5
  <2>2. a \in [status : {400, 404, 422, 500, 501}, json : BOOLEAN] /\ a.status = error[t].status
    BY <2>1, JsonErrorIs
  <2>3. \A A, B, r : r \in [status : A, json : B] => r.status \in A
    OBVIOUS
  <2> HIDE DEF a
  <2>4. a.status \in {400, 404, 422, 500, 501}
    BY <2>2, <2>3, Zenon
  <2> QED BY <1>1, <1>3, <1>4, <1>5, <2>2, <2>4
<1>6. CASE error[t] = NoError
  <2> DEFINE status == IF Head(todo[t]) = <<>> THEN 200 ELSE Step(t).status
  <2>1. a = IF status \in StatusCodes THEN JsonError(Failure) ELSE [status |-> status, json |-> TRUE]
    BY <1>6 DEF Response
  <2>2. JsonError(Failure).status = 500
    BY JsonErrorIs, ExceptionsAre DEF Failure
  <2>3. a.status = IF status \in StatusCodes THEN 500 ELSE status
    <3> HIDE DEF status, a
    <3> QED BY <2>1, <2>2
  <2>4. CASE Head(todo[t]) = <<>>
    BY <1>1, <1>3, <1>4, <1>6, <2>3, <2>4
  <2>5. CASE Head(todo[t]) # <<>>
    <3>1. Running(t) /\ Step(t).do = "return"
      BY <1>1, <1>4, <1>6, <2>5 DEF Running
    <3>2. status = 404
      BY <2>5, <3>1, StepOf, StepKinds
    <3> QED BY <1>1, <1>3, <1>4, <1>6, <2>3, <3>1, <3>2, ApiAssumption
  <2> QED BY <2>4, <2>5
<1> QED BY <1>5, <1>6

(* What the steps rely on. *)
ApiAndDb == ApiInv /\ BlocksOwnWhatTheyOpened /\ Isolated

(* The invariant is kept by every step. *)
LEMMA StoreStep ==
    ASSUME WholeRequests, ApiAndDb, StoreInv, [Next]_vars
    PROVE  StoreInv'
<1> USE DEF ApiAndDb
<1>1. CASE UNCHANGED vars \/ Shutdown
  <2>1. UNCHANGED <<table, writes, tx, frames, req, todo, rows, error, applied, answer>>
    BY <1>1 DEF vars, dbVars, apiVars, Shutdown, Close
  <2>2. \A o \in Task : Untouched(o)
    BY <2>1 DEF Untouched
  <2>3. \A o \in Task : req[o] \in Request /\ Served(o)
    BY ApiAssumption DEF StoreInv
  <2>4. \A o \in Task : Served(o)'
    BY <2>2, <2>3, Kept
  <2>5. FreshOK' /\ OneConn'
    BY <2>1 DEF StoreInv, FreshOK, OneConn
  <2> QED BY <2>1, <2>4, <2>5 DEF StoreInv
<1>2. ASSUME NEW t \in Task,
             EnterBlock(t) \/ Statement(t) \/ UniqueViolation(t) \/ StatementFails(t) \/ Local(t)
               \/ LeaveBlock(t) \/ Breaks(t) \/ Answer(t)
      PROVE  StoreInv'
  <2>1. OneConn'
    BY <1>2, OneConnStep
  <2>2. FreshOK'
    BY <1>2, FreshStep
  <2>3. req' = req /\ DOMAIN rows' = Task /\ applied' \subseteq Task
    <3>1. UNCHANGED req /\ (applied' = applied \/ applied' = applied \cup {t})
      BY <1>2 DEF EnterBlock, Statement, UniqueViolation, StatementFails, Local, LeaveBlock, Answer,
                  Breaks, ConnectFails, CommitFails, Raises, Next1
    <3>2. rows' = rows \/ \E r : rows' = [rows EXCEPT ![t] = r]
      BY <1>2 DEF EnterBlock, Statement, UniqueViolation, StatementFails, Local, LeaveBlock, Answer,
                  Breaks, ConnectFails, CommitFails, Raises, Next1
    <3> QED BY <3>1, <3>2 DEF StoreInv
  <2>4. ASSUME NEW o \in Task \ {t} PROVE Served(o)'
    <3>1. Untouched(o)
      BY <1>2, OthersUntouched
    <3>2. req[o] \in Request /\ Served(o)
      BY ApiAssumption DEF StoreInv
    <3> QED BY <3>1, <3>2, Kept
  <2>5. Served(t)'
    <3>1. CASE Answer(t)
      <4>1. answer'[t] # NoError
        <5>1. answer'[t].status \in {200, 400, 404, 422, 500, 501}
          BY <3>1, Answers
        <5>2. NoError.status = 0
          BY DEF NoError
        <5> QED BY <5>1, <5>2
      <4> QED BY <4>1 DEF Served
    <3>2. CASE ~Answer(t) /\ req[t].op \notin Writers
      BY <1>2, <3>2, ReaderStep
    <3>3. CASE ~Answer(t) /\ req[t].op \in Writers
      <4>1. CASE EnterBlock(t)
        BY <3>3, <4>1, WriterEnters
      <4>2. CASE Statement(t)
        BY <3>3, <4>2, WriterExecutes
      <4>3. CASE UniqueViolation(t) \/ StatementFails(t)
        BY <3>3, <4>3, WriterRaises
      <4>4. CASE Local(t)
        <5>1. \/ Step(t).do = "raise"
              \/ Step(t).do = "found" /\ rows[t] = {}
              \/ Step(t).do = "found" /\ rows[t] # {}
              \/ Step(t).do = "orelse"
          BY <4>4 DEF Local
        <5> QED BY <3>3, <4>4, <5>1, WriterRaises, WriterGoesOn
      <4>5. CASE LeaveBlock(t)
        BY <3>3, <4>5, WriterLeaves
      <4>6. CASE Breaks(t)
        BY <3>3, <4>6, WriterBreaks
      <4> QED BY <1>2, <3>3, <4>1, <4>2, <4>3, <4>4, <4>5, <4>6
    <3> QED BY <3>1, <3>2, <3>3
  <2> QED BY <2>1, <2>2, <2>3, <2>4, <2>5 DEF StoreInv
<1> QED BY <1>1, <1>2 DEF Next, Breaks

-----------------------------------------------------------------------------
(* Each step is one of Store, or none of its business. *)
LEMMA StoreUntouched ==
    ASSUME UNCHANGED <<req, table, applied, answer>>
    PROVE  UNCHANGED Requested!storeVars
BY DEF Requested!storeVars

(* Leaving a block changes nothing that Store sees, or it is the one       *)
(* change of its request: a commit.                                        *)
LEMMA CommitIsApply ==
    ASSUME WholeRequests, ApiAndDb, StoreInv, NEW t \in Task, LeaveBlock(t)
    PROVE  Requested!Apply(t) \/ UNCHANGED <<req, table, applied, answer>>
<1>1. DbTypeOK /\ OneConn /\ Isolated /\ ApiInv /\ FreshOK /\ BlocksOwnWhatTheyOpened
  BY DEF ApiAndDb, ApiInv, StoreInv
<1>2. PICK f : f = Last(t)
  OBVIOUS
<1>3. /\ answer[t] = NoError
      /\ table' = IF f.began /\ error[t] = NoError THEN View(<<t, 1>>) ELSE table
      /\ applied' = IF error[t] = NoError /\ f.began /\ ~Nil(t) THEN applied \cup {t} ELSE applied
      /\ UNCHANGED <<req, answer>>
  BY <1>1, <1>2, BlockEnds
<1>4. CASE ~(error[t] = NoError /\ f.began /\ ~Nil(t))
  <2>1. Nil(t) => View(<<t, 1>>) = table
    BY <1>1 DEF Nil, Pending, NoWrites, View, DbTypeOK
  <2> QED BY <1>3, <1>4, <2>1
<1>5. CASE error[t] = NoError /\ f.began /\ ~Nil(t)
  <2>1. req[t] \in Request
    BY ApiAssumption DEF StoreInv
  <2>2. req[t].op \in Writers
    BY <1>3, <1>5 DEF StoreInv, Served, Reading
  <2>3. t \notin applied /\ Whole(t)
    BY <1>1, <1>2, <1>5, <2>2, WriterLeaves
  <2>4. View(<<t, 1>>) \in Requested!Outcomes(t, table)
    BY <1>1, <2>1, <2>2, <2>3, CommitApplies DEF Writes
  <2>5. table' = View(<<t, 1>>) /\ applied' = applied \cup {t}
    BY <1>3, <1>5
  <2>6. [o \in Task |-> answer[o].status][t] = 0
    BY <1>3 DEF NoError
  <2> QED BY <1>3, <2>3, <2>4, <2>5, <2>6 DEF Requested!Apply
<1> QED BY <1>4, <1>5

(* An answer says success only after the change was made, and an error     *)
(* only when none was.                                                     *)
LEMMA AnswerIsReply ==
    ASSUME WholeRequests, 200 \notin StatusCodes, ApiAndDb, StoreInv, NEW t \in Task, Answer(t)
    PROVE  \E status \in Requested!Statuses : Requested!Reply(t, status)
<1>1. DbTypeOK /\ ApiInv /\ BlocksOwnWhatTheyOpened /\ req[t] \in Request /\ req[t] \in Requests
  BY ApiAssumption DEF ApiAndDb, ApiInv, StoreInv
<1>0. PICK status : status = answer'[t].status
  OBVIOUS
<1>2. /\ answer[t] = NoError /\ todo[t] # <<>>
      /\ \A o \in Task \ {t} : answer'[o] = answer[o]
      /\ UNCHANGED <<table, req, applied>>
      /\ status \in {200, 400, 404, 422, 500, 501}
      /\ error[t] # NoError => status = error[t].status
      /\ error[t] = NoError =>
           \/ Head(todo[t]) = <<>> /\ status = 200
           \/ Running(t) /\ Step(t).do = "return" /\ status = 500
  BY <1>0, <1>1, Answers
<1>3. frames[t] = <<>>
  BY DEF Answer
<1>4. /\ status < 400 => t \in applied \/ Requested!MayChangeNothing(req[t])
      /\ status >= 400 /\ status # 501 => t \notin applied
  <2>1. CASE error[t] # NoError
    <3>1. error[t] \in Exceptions
      BY <1>1, <2>1 DEF ApiInv
    <3>2. JsonError(error[t]).status = error[t].status
          /\ JsonError(error[t]) \in [status : {400, 404, 422, 500, 501}, json : BOOLEAN]
      BY <3>1, JsonErrorIs
    <3>3. \A A, B, r : r \in [status : A, json : B] => r.status \in A
      OBVIOUS
    <3>4. JsonError(error[t]).status \in {400, 404, 422, 500, 501}
      BY <3>2, <3>3, Zenon
    <3>5. status \in {400, 404, 422, 500, 501}
      BY <1>2, <2>1, <3>2, <3>4
    <3>6. t \in applied => status = 501
      BY <1>2, <2>1 DEF StoreInv, Served, Writing, Reading
    <3> QED BY <3>5, <3>6
  <2>2. CASE error[t] = NoError /\ Running(t) /\ Step(t).do = "return" /\ status = 500
    <3>1. req[t].op \notin Writers
      BY <1>1, <2>2, WriterSteps
    <3>2. t \notin applied
      BY <1>2, <3>1 DEF StoreInv, Served, Reading
    <3> QED BY <2>2, <3>2
  <2>3. CASE error[t] = NoError /\ Head(todo[t]) = <<>> /\ status = 200
    <3>1. CASE req[t].op \notin Writers
      <4>1. req[t].op \in {"get_list", "get", "touch", "missing"}
        BY <1>1, <3>1 DEF Request, Writers
      <4>2. req[t].op # "missing"
        BY <1>2, <2>3, <3>1 DEF StoreInv, Served, Reading, Missing
      <4> QED BY <2>3, <4>1, <4>2 DEF Requested!MayChangeNothing
    <3>2. CASE req[t].op \in Writers
      <4>1. BeforeBlock(t) \/ InMethod(t) \/ InHelper(t) \/ AfterBlock(t)
        BY <1>2, <2>3, <3>2 DEF StoreInv, Served, Writing
      <4>2. ~BeforeBlock(t)
        <5>1. ASSUME NEW line, todo[t] = <<line>> PROVE Head(todo[t]) = line
          BY <5>1
        <5>2. \A line : Refused(line) => line # <<>>
          BY DEF Refused
        <5>3. \A w : <<w>> # <<>>
          OBVIOUS
        <5> QED BY <2>3, <5>1, <5>2, <5>3, Zenon DEF BeforeBlock
      <4>3. ~InHelper(t)
        <5>1. Len(frames[t]) = 0
          BY <1>3
        <5> QED BY <5>1 DEF InHelper
      <4>4. InMethod(t) => t \in applied \/ req[t].op = "delete_list"
        <5>1. Nil(t)
          BY <1>1, <1>3, Idle
        <5>2. ~Whole(t)
          BY <1>1, <3>2, <5>1, DoneIsWritten DEF Writes
        <5> QED BY <1>1, <2>3, <3>2, <5>2, MethodEnds
      <4>5. AfterBlock(t) => t \in applied \/ req[t].op = "delete_list"
        BY DEF AfterBlock
      <4> QED BY <2>3, <4>1, <4>2, <4>3, <4>4, <4>5 DEF Requested!MayChangeNothing
    <3> QED BY <3>1, <3>2
  <2> QED BY <1>2, <2>1, <2>2, <2>3
<1>5. [o \in Task |-> answer[o].status][t] = 0
  BY <1>2 DEF NoError
<1>6. [o \in Task |-> answer'[o].status]
        = [[o \in Task |-> answer[o].status] EXCEPT ![t] = status]
  <2>1. \A o \in Task : answer'[o].status = IF o = t THEN status ELSE answer[o].status
    BY <1>0, <1>2
  <2> QED BY <2>1
<1>7. Requested!Reply(t, status)
  BY <1>2, <1>4, <1>5, <1>6 DEF Requested!Reply
<1>8. status \in Requested!Statuses
  BY <1>2 DEF Requested!Statuses
<1> QED BY <1>7, <1>8

(* Every step is one of Store, or a stutter. *)
LEMMA StoreNext ==
    ASSUME WholeRequests, 200 \notin StatusCodes, ApiAndDb, StoreInv, [Next]_vars
    PROVE  [Requested!Next]_(Requested!storeVars)
<1>1. CASE UNCHANGED vars \/ Shutdown
  BY <1>1, StoreUntouched DEF vars, dbVars, apiVars, Shutdown, Close
<1>2. ASSUME NEW t \in Task,
             EnterBlock(t) \/ Statement(t) \/ UniqueViolation(t) \/ StatementFails(t) \/ Local(t)
      PROVE  UNCHANGED Requested!storeVars
  <2>1. UNCHANGED <<req, applied, answer>>
    BY <1>2 DEF EnterBlock, Statement, UniqueViolation, StatementFails, Local, Raises, Next1
  <2>2. UNCHANGED table
    <3>1. CASE EnterBlock(t)
      <4>1. ApiInv /\ DbTypeOK /\ OneConn
        BY DEF ApiAndDb, ApiInv, StoreInv
      <4>2. CASE frames[t] = <<>>
        <5>1. PICK begin \in BOOLEAN : Checkout(t, begin)
          BY <3>1, <4>1, <4>2, Enters
        <5> QED BY <5>1 DEF Checkout
      <4>3. CASE frames[t] # <<>>
        BY <3>1, <4>1, <4>3, Enters, Joins
      <4> QED BY <4>2, <4>3
    <3>2. CASE ~EnterBlock(t)
      BY <1>2, <3>2 DEF Statement, Execute, UniqueViolation, StatementFails, Local, dbVars
    <3> QED BY <3>1, <3>2
  <2> QED BY <2>1, <2>2, StoreUntouched
<1>3. ASSUME NEW t \in Task, LeaveBlock(t) PROVE [Requested!Next]_(Requested!storeVars)
  BY <1>3, CommitIsApply, StoreUntouched DEF Requested!Next
<1>4. ASSUME NEW t \in Task, Answer(t) PROVE Requested!Next
  BY <1>4, AnswerIsReply DEF Requested!Next
<1>5. ASSUME NEW t \in Task, Breaks(t) PROVE UNCHANGED Requested!storeVars
  <2>1. ApiInv /\ OneConn
    BY DEF ApiAndDb, StoreInv
  <2>2. UNCHANGED <<req, table, applied, answer>>
    BY <1>5, <2>1, Broken
  <2> QED BY <2>2, StoreUntouched
<1> QED BY <1>1, <1>2, <1>3, <1>4, <1>5 DEF Next, Breaks

(* Whatever meets whatever, and whatever fails, a request changes the      *)
(* table in one step or not at all, and its answer tells which: SqlApi     *)
(* implements Store.                                                       *)
THEOREM RequestsAreAtomic == Spec => Implements
<1>0. WholeRequests /\ FreshRows /\ 200 \notin StatusCodes
  BY StoreAssumption, ApiAssumption DEF WholeRequests, FreshRows, Request, Writers
<1>1. ApiInit => StoreInv
  BY <1>0, StoreStart
<1>2. StoreInv /\ ApiAndDb /\ [Next]_vars => StoreInv'
  BY <1>0, StoreStep
<1>3. ApiInit => Requested!Init
  BY DEF ApiInit, Init, Requested!Init, NoError
<1>4. StoreInv /\ ApiAndDb /\ [Next]_vars => [Requested!Next]_(Requested!storeVars)
  BY <1>0, StoreNext
<1>5. ApiInv /\ BlocksOwnWhatTheyOpened /\ Isolated => ApiAndDb
  BY DEF ApiAndDb
<1> QED BY <1>1, <1>2, <1>3, <1>4, <1>5, ApiInvariant, DatabaseUnderEndpoints, PTL
        DEF Spec, Implements, Requested!Spec
=============================================================================
