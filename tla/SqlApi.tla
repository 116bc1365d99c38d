------------------------------- MODULE SqlApi -------------------------------
(***************************************************************************)
(* The endpoints of openapi/db/path.py and openapi/db/dbmodel.py on top of *)
(* Database, and the answer openapi/middleware.py makes of what they       *)
(* return or raise.  A handler is the list of what it does, in order: a    *)
(* block (async with) has a body of its own.  A task takes one step for    *)
(* each await.                                                             *)
(***************************************************************************)
EXTENDS Database

CONSTANTS Requests,     \* what clients may ask
          StatusCodes   \* the errors the middleware turns into JSON

Request == [op : {"get_list", "get", "create", "create_list", "update", "touch", "delete",
                  "delete_list", "upsert", "replace", "missing"},
            id : Ids, title : Titles, other : Titles,
            block : {"none", "connection", "transaction"},
            raises : BOOLEAN,
            bad : {"none", "json", "body", "query", "path", "list", "schema", "container"},
            schema : BOOLEAN]   \* of the response

ASSUME ApiAssumption ==
    /\ Requests \subseteq Request
    /\ Task \X {1, 2} \subseteq Ids      \* the rows that requests insert
    /\ {404, 500} \subseteq StatusCodes

VARIABLES
    req,      \* for each task, the request it serves
    todo,     \* what is left of each open block, the innermost first
    rows,     \* the ids the last statement of a task returned
    error,    \* the exception a task is raising, or NoError
    applied,  \* the tasks that have committed rows
    answer    \* what was sent to the client, NoError before

apiVars == <<req, todo, rows, error, applied, answer>>
vars == <<dbVars, apiVars>>

NoError == [status |-> 0, json |-> FALSE]
Http(status) == [status |-> status, json |-> status \in {400, 422}]  \* web.HTTPException
Failure == [status |-> 500, json |-> FALSE]                          \* any other exception

-----------------------------------------------------------------------------
(* What a handler consists of. *)
With(block, given, body) == [do |-> "with", block |-> block, given |-> given, body |-> body]
Ensure(conn, statement) == With("ensure", conn, <<statement>>)
Raise(exception) == [do |-> "raise", error |-> exception]
Found == [do |-> "found"]              \* 404 when the last statement returned no row
OrElse(step) == [do |-> "orelse", step |-> step]   \* a step for when it returned none
Return(status) == [do |-> "return", status |-> status]

Everything == [by |-> "all", value |-> None]
ById(i) == [by |-> "id", value |-> i]
ByTitle(v) == [by |-> "title", value |-> v]

Select(filter) == [do |-> "select", filter |-> filter]
Update(filter, v, unique) == [do |-> "update", filter |-> filter, title |-> v, unique |-> unique]
Delete(filter) == [do |-> "delete", filter |-> filter]
(* unique: what a violation of the unique constraint ends up as. *)
Insert(titles, unique) == [do |-> "insert", titles |-> titles, unique |-> unique]

(* The checks before the statement: the body is JSON, there is a schema of *)
(* the request and the body is valid for it, the path is valid for its     *)
(* own, and the query too.                                                 *)
Refuse(q, what, status) == IF q.bad = what THEN <<Raise(Http(status))>> ELSE <<>>
JsonData(q) == Refuse(q, "json", 400)
Schema(q) == Refuse(q, "schema", 501)
Cleaned(q) == Schema(q) \o Refuse(q, "body", 422)
Path(q) == Refuse(q, "path", 404)
InsertData(q) == Cleaned(q) \o Path(q)
(* No schema of the query will do for get_filters, but not for what makes  *)
(* a pagination of its values.                                             *)
GetFilters(q) == Refuse(q, "query", 422) \o Path(q)
GetPagSearchFilters(q) == GetFilters(q) \o Schema(q)
Dump(q) == IF q.schema THEN <<>> ELSE <<Raise(Http(501))>>   \* get_schema

(* CrudDB.  conn says whether the caller gives its connection. *)
DbSelect(filter, conn) == Ensure(conn, Select(filter))
DbDelete(filter, conn) == Ensure(conn, Delete(filter))
DbCount(filter, conn) == Ensure(conn, Select(filter))
DbInsert(titles, conn) == Ensure(conn, Insert(titles, Failure))
DbUpdate(filter, v, unique, conn) == Ensure(conn, Update(filter, v, unique))
\* Mutant: the count has a connection of its own.
PaginateAndCountApart(filter, conn) ==
    With("ensure", conn, <<DbCount(filter, FALSE), Select(filter)>>)

DbPaginate(filter, conn) == With("ensure", conn, <<DbCount(filter, TRUE), Select(filter)>>)
DbUpsert(v, conn) ==
    <<DbUpdate(ByTitle(v), v, Failure, conn), OrElse(DbInsert(<<v>>, conn))>>

(* SqlApiPath.  A handler that gives its connection gives the data too. *)
GetList(q, conn) == GetPagSearchFilters(q) \o <<DbPaginate(Everything, conn)>> \o Dump(q)
\* Mutant: the connection of the caller is not passed on.
CreateOneApart(q, conn) ==
    (IF conn THEN <<>> ELSE JsonData(q) \o InsertData(q))
    \o <<Ensure(FALSE, Insert(<<q.title>>, Http(422)))>> \o Dump(q)

CreateOne(q, conn) ==
    (IF conn THEN <<>> ELSE JsonData(q) \o InsertData(q))
    \o <<Ensure(conn, Insert(<<q.title>>, Http(422)))>> \o Dump(q)
CreateList(q, conn) ==
    JsonData(q) \o Refuse(q, "list", 400) \o Schema(q) \o Refuse(q, "container", 500) \o InsertData(q)
    \o <<DbInsert(<<q.title, q.other>>, conn)>> \o Dump(q)
GetOne(q, conn) == GetFilters(q) \o <<DbSelect(ById(q.id), conn), Found>> \o Dump(q)
UpdateOne(q, conn) ==
    (IF conn THEN <<>> ELSE JsonData(q) \o Cleaned(q)) \o GetFilters(q)
    \o <<IF q.op = "touch" THEN DbSelect(ById(q.id), conn)
         ELSE DbUpdate(ById(q.id), q.title, Http(422), conn), Found>> \o Dump(q)
DeleteOne(q, conn) == GetFilters(q) \o <<DbDelete(ById(q.id), conn), Found>>
DeleteList(q, conn) == GetPagSearchFilters(q) \o <<DbDelete(Everything, conn)>>

Method(q, conn) ==
    CASE q.op = "get_list" -> GetList(q, conn)
      [] q.op = "get" -> GetOne(q, conn)
      [] q.op = "create" -> CreateOne(q, conn)
      [] q.op = "create_list" -> CreateList(q, conn)
      [] q.op \in {"update", "touch"} -> UpdateOne(q, conn)
      [] q.op = "delete" -> DeleteOne(q, conn)
      [] q.op = "delete_list" -> DeleteList(q, conn)
      [] q.op = "upsert" -> DbUpsert(q.title, conn)
      [] q.op = "replace" -> DeleteOne(q, conn) \o CreateOne(q, conn)
      [] q.op = "missing" -> <<Return(404)>>   \* a handler that returns an error

(* An endpoint calls its method, or reads the body and calls it with the   *)
(* connection of a block of its own, and may raise before that block ends. *)
Handler(q) ==
    IF q.block = "none" THEN Method(q, FALSE)
    ELSE (IF q.op \in {"create", "update", "delete", "replace"} THEN JsonData(q) ELSE <<>>)
         \o <<With(q.block, FALSE, Method(q, TRUE)
                \o (IF q.raises THEN <<Raise([Failure EXCEPT !.json = TRUE])>> ELSE <<>>))>>

-----------------------------------------------------------------------------
ApiInit ==
    /\ Init
    /\ req \in [Task -> Requests]
    /\ todo = [t \in Task |-> <<Handler(req[t])>>]
    /\ rows = [t \in Task |-> {}]
    /\ error = [t \in Task |-> NoError]
    /\ applied = {}
    /\ answer = [t \in Task |-> NoError]

Running(t) == answer[t] = NoError /\ error[t] = NoError /\ todo[t] # <<>> /\ Head(todo[t]) # <<>>
Step(t) == Head(Head(todo[t]))
Rest(t) == <<Tail(Head(todo[t]))>> \o Tail(todo[t])
Next1(t) == todo' = [todo EXCEPT ![t] = Rest(t)]

(* What runs without an await runs before anything else does. *)
AtLocal(t) ==
    \/ Running(t) /\ Step(t).do \in {"raise", "found", "orelse", "return"}
    \/ Running(t) /\ Step(t).do = "with" /\ Step(t).block = "ensure" /\ Step(t).given
       /\ Current(t) \in tx
    \/ answer[t] = NoError /\ frames[t] = <<>> /\ (error[t] # NoError \/ todo[t] = <<<<>>>>)
MayRun(t) == AtLocal(t) \/ \A o \in Task : ~AtLocal(o)

(* Enter a block. *)
EnterBlock(t) ==
    /\ MayRun(t) /\ Running(t) /\ Step(t).do = "with"
    /\ CASE Step(t).block = "connection" -> Connection(t)
         [] Step(t).block = "transaction" -> Transaction(t)
         [] Step(t).block = "ensure" -> EnsureTransaction(t, Step(t).given)
    /\ todo' = [todo EXCEPT ![t] = <<Step(t).body>> \o Rest(t)]
    /\ UNCHANGED <<req, rows, error, applied, answer>>

(* The block that a task is about to open a connection for: one of its own *)
(* or that of a helper which was given none.                               *)
NeedsConnection(t) ==
    Running(t) /\ Step(t).do = "with" /\ ~(Step(t).block = "ensure" /\ Step(t).given)

Matches(filter, i, v) ==
    /\ v # None
    /\ CASE filter.by = "all" -> TRUE
         [] filter.by = "id" -> i = filter.value
         [] filter.by = "title" -> v = filter.value

IsStatement(s) == s.do \in {"select", "insert", "update", "delete"}

(* The rows a statement writes in the view of its transaction. *)
Written(t, s) ==
    LET view == View(Current(t))
        found == {i \in Ids : Matches(s.filter, i, view[i])} IN
    CASE s.do = "select" -> [i \in {} |-> None]
      [] s.do = "update" -> [i \in found |-> s.title]
      [] s.do = "delete" -> [i \in found |-> None]
      [] s.do = "insert" -> [i \in {<<t, n>> : n \in DOMAIN s.titles} |-> s.titles[i[2]]]

Returned(t, s) ==
    IF s.do = "select" THEN {i \in Ids : Matches(s.filter, i, View(Current(t))[i])}
    ELSE DOMAIN Written(t, s)

AtStatement(t) == Running(t) /\ IsStatement(Step(t))

Statement(t) ==
    /\ MayRun(t) /\ AtStatement(t)
    /\ Execute(t, Written(t, Step(t)))
    /\ rows' = [rows EXCEPT ![t] = Returned(t, Step(t))]
    /\ Next1(t)
    /\ UNCHANGED <<req, error, applied, answer>>

Raises(t, exception) ==
    /\ error' = [error EXCEPT ![t] = exception]
    /\ UNCHANGED <<req, todo, rows, applied, answer>>

(* IntegrityError, and handle_unique_violation where the code calls it. *)
UniqueViolation(t) ==
    /\ MayRun(t) /\ AtStatement(t) /\ Step(t).do \in {"insert", "update"}
    /\ Blockers(Current(t), Written(t, Step(t))) = {}
    /\ Clashes(Current(t), Written(t, Step(t)))
    /\ Raises(t, Step(t).unique)
    /\ UNCHANGED dbVars

(* The statement fails for a reason of the server: the connection is lost, *)
(* the statement is cancelled, the transaction is the victim of a deadlock.*)
StatementFails(t) ==
    /\ MayRun(t) /\ AtStatement(t)
    /\ Raises(t, Failure)
    /\ UNCHANGED dbVars

(* A block that needs a connection gets none. *)
ConnectFails(t) ==
    /\ MayRun(t) /\ NeedsConnection(t)
    /\ NoConnection
    /\ Raises(t, Failure)

(* What a handler does without the database. *)
Local(t) ==
    /\ MayRun(t) /\ Running(t)
    /\ LET s == Step(t) IN
        \/ s.do = "raise" /\ Raises(t, s.error)
        \/ s.do = "found" /\ rows[t] = {} /\ Raises(t, Http(404))
        \/ /\ s.do = "found" /\ rows[t] # {}
           /\ Next1(t) /\ UNCHANGED <<req, rows, error, applied, answer>>
        \/ /\ s.do = "orelse"
           /\ todo' = [todo EXCEPT ![t] =
                <<(IF rows[t] = {} THEN <<s.step>> ELSE <<>>) \o Tail(Head(@))>> \o Tail(@)]
           /\ UNCHANGED <<req, rows, error, applied, answer>>
    /\ UNCHANGED dbVars

(* The end of a block, by running off its body or by an exception. *)
LeaveBlock(t) ==
    /\ MayRun(t) /\ answer[t] = NoError /\ frames[t] # <<>>
    /\ error[t] # NoError \/ Head(todo[t]) = <<>>
    /\ Leave(t, error[t] = NoError)
    /\ todo' = [todo EXCEPT ![t] = Tail(@)]
    /\ applied' = IF /\ error[t] = NoError /\ Last(t).began
                     /\ writes[Current(t)] # NoWrites
                  THEN applied \cup {t} ELSE applied
    /\ UNCHANGED <<req, rows, error, answer>>

(* The server does not commit, and the block ends as by any exception.     *)
CommitFails(t) ==
    /\ MayRun(t) /\ answer[t] = NoError /\ frames[t] # <<>>
    /\ error[t] = NoError /\ Head(todo[t]) = <<>> /\ Last(t).began
    /\ Leave(t, FALSE)
    /\ todo' = [todo EXCEPT ![t] = Tail(@)]
    /\ error' = [error EXCEPT ![t] = Failure]
    /\ UNCHANGED <<req, rows, applied, answer>>

\* Mutant: only what the server did wrong is turned into JSON.
JsonErrorOfServer(exception) ==
    [exception EXCEPT !.json = @ \/ exception.status \in StatusCodes \ {400, 404, 405}]

(* json_error: an exception is answered as JSON when its status is in the  *)
(* set.  A returned response whose status is in the set has no attribute   *)
(* message: the middleware itself fails, and answers that.                 *)
JsonError(exception) == [exception EXCEPT !.json = @ \/ exception.status \in StatusCodes]

Response(t) ==
    LET status == IF Head(todo[t]) = <<>> THEN 200 ELSE Step(t).status IN
    IF status \in StatusCodes THEN JsonError(Failure) ELSE [status |-> status, json |-> TRUE]

Answer(t) ==
    /\ MayRun(t) /\ answer[t] = NoError /\ frames[t] = <<>>
    /\ error[t] = NoError /\ Head(todo[t]) # <<>> => Step(t).do = "return"
    /\ answer' = [answer EXCEPT ![t] = IF error[t] # NoError THEN JsonError(error[t])
                                       ELSE Response(t)]
    /\ todo' = [todo EXCEPT ![t] = <<>>]
    /\ UNCHANGED <<dbVars, req, rows, error, applied>>

Shutdown == Close /\ UNCHANGED apiVars

Next ==
    \/ \E t \in Task : EnterBlock(t)
    \/ \E t \in Task : Statement(t)
    \/ \E t \in Task : UniqueViolation(t)
    \/ \E t \in Task : StatementFails(t)
    \/ \E t \in Task : ConnectFails(t)
    \/ \E t \in Task : Local(t)
    \/ \E t \in Task : LeaveBlock(t)
    \/ \E t \in Task : CommitFails(t)
    \/ \E t \in Task : Answer(t)
    \/ Shutdown

Spec == ApiInit /\ [][Next]_vars

-----------------------------------------------------------------------------
WaitsFor(t) == {o[1] : o \in Blockers(Current(t), Written(t, Step(t)))}

(* PostgreSQL ends a deadlock by failing a statement of it. *)
BreakDeadlock ==
    \E S \in SUBSET Task \ {{}} :
        /\ \A t \in S : AtStatement(t) /\ WaitsFor(t) \cap S # {}
        /\ \E t \in S : StatementFails(t)

Progress(t) ==
    Local(t) \/ Answer(t) \/ LeaveBlock(t) \/ EnterBlock(t) \/ Statement(t) \/ UniqueViolation(t)

(* The event loop and the server go on while there is something to do. *)
Fairness == WF_vars((\E t \in Task : Progress(t)) \/ BreakDeadlock)

FairSpec == Spec /\ Fairness

-----------------------------------------------------------------------------
(* A task that waits for the pool holds no connection, so that tasks never *)
(* wait for each other with the pool empty: every helper passes on the     *)
(* connection it was given (dbmodel.py:193, path.py:87).                   *)
WaitsHoldNothing ==
    \A t \in Task : NeedsConnection(t) => \A i \in DOMAIN frames[t] : ~frames[t][i].opened

(* Whatever went wrong, the client can read it: every error is JSON, but   *)
(* for 501, which the middleware does not know.                            *)
EveryErrorIsJson ==
    \A t \in Task : answer[t].status >= 400 /\ answer[t].status # 501 => answer[t].json

(* What atomicity needs of the requests: a handler that writes twice does   *)
(* so in a transaction of its own; in a block of Database.connection, where *)
(* every helper commits by itself, nothing is raised after a write; and the *)
(* rows that requests insert are new.  No error has the status of success.  *)
ASSUME StoreAssumption ==
    /\ \A q \in Requests :
        /\ q.op = "replace" => q.block = "transaction"
        /\ q.block = "connection" /\ q.raises => q.op \in {"get_list", "get", "touch", "missing"}
    /\ \A t \in Task, n \in {1, 2} : Initial[<<t, n>>] = None
    /\ 200 \notin StatusCodes

(* Requests change the table in one step or not at all, and the answer     *)
(* tells which, whatever fails in between: see Store.                      *)
Requested == INSTANCE Store WITH
    done <- applied, answer <- [t \in Task |-> answer[t].status]

Implements == Requested!Spec

(* Every request is answered, with the pool full and rows locked, when the *)
(* server breaks its deadlocks.                                            *)
EveryRequestIsAnswered == <>(\A t \in Task : answer[t] # NoError)

=============================================================================
