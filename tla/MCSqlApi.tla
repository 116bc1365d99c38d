------------------------------ MODULE MCSqlApi ------------------------------
(* Constants of SqlApi for TLC. *)
EXTENDS SqlApi

CONSTANTS u, v, w, o1, o2

MCTask == 1..3
MCIds == {o1, o2} \cup (MCTask \X {1, 2})
MCTitles == {u, v, w}
MCInitial == [i \in MCIds |-> CASE i = o1 -> u [] i = o2 -> v [] OTHER -> None]

Plain(op, title) ==
    [op |-> op, id |-> o1, title |-> title, other |-> u, block |-> "none",
     raises |-> FALSE, bad |-> "none", schema |-> TRUE]
In(block, q) == [q EXCEPT !.block = block]

(* Requests that meet each other: about the rows o1 and o2, and the titles *)
(* u, v (taken) and w (free).                                              *)
Catalogue == <<
    In("transaction", Plain("replace", v)),
    In("transaction", [Plain("replace", u) EXCEPT !.id = o2]),
    In("transaction", Plain("create_list", w)),
    Plain("delete_list", u),
    Plain("upsert", w),
    [In("transaction", Plain("create", w)) EXCEPT !.raises = TRUE],
    [In("connection", Plain("create", w)) EXCEPT !.schema = FALSE],
    Plain("update", w),
    In("transaction", Plain("get_list", u)), Plain("touch", u), Plain("get", u),
    [Plain("create", w) EXCEPT !.bad = "body"], [Plain("create_list", w) EXCEPT !.bad = "container"],
    Plain("missing", u)>>

MCRequests == {Catalogue[n] : n \in DOMAIN Catalogue}

(* The first task is one of those that change several rows, the third     *)
(* makes an upsert of w, and the second takes any request that does not    *)
(* repeat a pair.                                                          *)
Place(q) == CHOOSE n \in DOMAIN Catalogue : Catalogue[n] = q
MCInit ==
    /\ ApiInit
    /\ Place(req[1]) <= 4 /\ Place(req[1]) <= Place(req[2])
    /\ req[3] = Plain("upsert", w)
MCSpec == MCInit /\ [][Next]_vars /\ Fairness
=============================================================================
