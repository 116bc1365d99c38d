------------------------------- MODULE Store --------------------------------
(***************************************************************************)
(* What the endpoints of a table promise: a request changes the table in   *)
(* one step or not at all, and its answer tells which.  How rows are       *)
(* locked, and when a statement runs, is left to Database and SqlApi.      *)
(***************************************************************************)
EXTENDS Naturals, Sequences

CONSTANTS Task, Ids, Titles, Initial, None, Requests

VARIABLES req,      \* the request of each task
          table,    \* the rows
          done,     \* the tasks whose request has changed the table
          answer    \* the status sent to the client, 0 before

storeVars == <<req, table, done, answer>>

Has(T, v) == \E i \in Ids : T[i] = v
With(T, i, v) == [T EXCEPT ![i] = v]

(* The rows of a request are <<task, 1>>, <<task, 2>>, ... *)
Create(T, t, v) == IF Has(T, v) THEN {} ELSE {With(T, <<t, 1>>, v)}
Delete(T, i) == IF T[i] = None THEN {} ELSE {With(T, i, None)}

(* The tables that the request of t may leave. *)
Outcomes(t, T) ==
    LET q == req[t] IN
    CASE q.op = "create" -> Create(T, t, q.title)
      [] q.op = "create_list" ->
            UNION {IF Has(U, q.other) THEN {} ELSE {With(U, <<t, 2>>, q.other)} :
                     U \in Create(T, t, q.title)}
      [] q.op = "update" ->
            IF T[q.id] = None \/ \E i \in Ids \ {q.id} : T[i] = q.title
            THEN {} ELSE {With(T, q.id, q.title)}
      [] q.op = "delete" -> Delete(T, q.id)
      [] q.op = "delete_list" ->
            {[i \in Ids |-> IF i \in S THEN None ELSE T[i]] : S \in SUBSET {i \in Ids : T[i] # None}}
      [] q.op = "upsert" -> IF Has(T, q.title) THEN {T} ELSE Create(T, t, q.title)
      [] q.op = "replace" -> UNION {Create(U, t, q.title) : U \in Delete(T, q.id)}
      [] OTHER -> {}

MayChangeNothing(q) == q.op \in {"get", "get_list", "touch", "delete_list"}

Init ==
    /\ req \in [Task -> Requests]
    /\ table = Initial /\ done = {} /\ answer = [t \in Task |-> 0]

Apply(t) ==
    /\ t \notin done /\ answer[t] = 0
    /\ table' \in Outcomes(t, table)
    /\ done' = done \cup {t}
    /\ UNCHANGED <<req, answer>>

(* 501 says that there is no schema for the answer, and nothing about the rows. *)
Reply(t, status) ==
    /\ answer[t] = 0
    /\ status < 400 => t \in done \/ MayChangeNothing(req[t])
    /\ status >= 400 /\ status # 501 => t \notin done
    /\ answer' = [answer EXCEPT ![t] = status]
    /\ UNCHANGED <<req, table, done>>

Statuses == {200, 400, 404, 422, 500, 501}

Next == \E t \in Task : Apply(t) \/ \E status \in Statuses : Reply(t, status)

Spec == Init /\ [][Next]_storeVars
=============================================================================
