------------------------------ MODULE Database ------------------------------
(***************************************************************************)
(* openapi/db/container.py: the lazily built engine, its pool, and the     *)
(* blocks (async with) in which a task uses a connection.  SQLAlchemy and  *)
(* PostgreSQL are external: a connection is in a transaction from its      *)
(* first begin or statement on, other transactions see what is committed,  *)
(* a row that is written is locked, and a title is unique.                 *)
(***************************************************************************)
EXTENDS Naturals, Sequences, FiniteSets

CONSTANTS Task,       \* the requests that are being served
          Ids,        \* the rows the table may have
          Titles,     \* the values of its unique column
          Initial,    \* the table when the service starts
          None,       \* no row
          Same,       \* a row the transaction has not written
          PoolSize,   \* pool_size + max_overflow
          MaxDepth,   \* blocks open in one task at once
          MaxCloses   \* bound: how often close is called

ASSUME DatabaseAssumption ==
    /\ None \notin Titles /\ Same \notin Titles \cup {None}
    /\ Initial \in [Ids -> Titles \cup {None}]
    /\ PoolSize \in Nat \ {0} /\ MaxDepth \in Nat \ {0} /\ MaxCloses \in Nat

ASSUME InitialAssumption ==     \* a title is unique
    \A i, j \in Ids : i # j /\ Initial[i] = Initial[j] => Initial[i] = None

VARIABLES
    table,    \* the committed rows: the title of each id, or None
    writes,   \* for each connection, what its transaction has written
    tx,       \* the connections that are in a transaction
    frames,   \* for each task, the blocks it is in, the innermost last
    engine,   \* Database._engine, 0 for None
    built,    \* the engines created so far
    closes    \* the calls of close so far

dbVars == <<table, writes, tx, frames, engine, built, closes>>

Conn == Task \X (1..MaxDepth)      \* named by the task and the depth that opened it
NoWrites == [i \in Ids |-> Same]
Frame == [conn : 1..MaxDepth, opened : BOOLEAN, began : BOOLEAN, engine : Nat]

Init ==
    /\ table = Initial
    /\ writes = [c \in Conn |-> NoWrites]
    /\ tx = {}
    /\ frames = [t \in Task |-> <<>>]
    /\ engine = 0 /\ built = 0 /\ closes = 0

-----------------------------------------------------------------------------
(* PostgreSQL, isolation level READ COMMITTED. *)

View(c) == [i \in Ids |-> IF writes[c][i] = Same THEN table[i] ELSE writes[c][i]]

(* Transaction o gives the title v to a row, or takes it from one. *)
Changes(o, v) == \E i \in Ids : writes[o][i] # Same /\ (writes[o][i] = v) # (table[i] = v)

(* The transactions that a statement which writes w has to wait for. *)
Blockers(c, w) ==
    {o \in Conn \ {c} : \E i \in DOMAIN w :
        \/ writes[o][i] # Same
        \/ w[i] # None /\ Changes(o, w[i])}

(* The rows of w would break the unique constraint. *)
Clashes(c, w) ==
    \E i \in DOMAIN w : \E j \in Ids \ {i} :
        /\ w[i] # None
        /\ w[i] = IF j \in DOMAIN w THEN w[j] ELSE View(c)[j]

-----------------------------------------------------------------------------
(* The connections that are checked out of the pool of an engine. *)
OpenConns == {c \in Conn : c[2] \in DOMAIN frames[c[1]] /\ frames[c[1]][c[2]].opened}
ConnsOf(e) == {c \in OpenConns : frames[c[1]][c[2]].engine = e}

Last(t) == frames[t][Len(frames[t])]
Current(t) == <<t, Last(t).conn>>

\* Mutant: every connection has an engine of its own.
EngineEachTime == built + 1

Engine == IF engine = 0 THEN built + 1 ELSE engine

Enter(t, frame) == frames' = [frames EXCEPT ![t] = Append(@, frame)]

(* engine.connect() and engine.begin(): wait for a free place in the pool. *)
Checkout(t, begin) ==
    LET depth == Len(frames[t]) + 1 IN
    /\ depth <= MaxDepth
    /\ Cardinality(ConnsOf(Engine)) < PoolSize
    /\ engine' = Engine /\ built' = Engine
    /\ Enter(t, [conn |-> depth, opened |-> TRUE, began |-> begin, engine |-> Engine])
    /\ tx' = IF begin THEN tx \cup {<<t, depth>>} ELSE tx
    /\ UNCHANGED <<table, writes, closes>>

(* No connection can be made, or the pool has had none to give for too     *)
(* long: there is an engine by then.                                       *)
NoConnection ==
    /\ engine' = Engine /\ built' = Engine
    /\ UNCHANGED <<table, writes, tx, frames, closes>>

Connection(t) == Checkout(t, FALSE)
Transaction(t) == Checkout(t, TRUE)

\* Mutant: every helper begins, and so ends, the transaction it is in.
EnsureAndBegin(t, given) ==
    \/ ~given /\ Transaction(t)
    \/ /\ given /\ frames[t] # <<>> /\ Len(frames[t]) < MaxDepth
       /\ Enter(t, [conn |-> Last(t).conn, opened |-> FALSE, began |-> TRUE, engine |-> 0])
       /\ tx' = tx \cup {Current(t)}
       /\ UNCHANGED <<table, writes, engine, built, closes>>

(* The caller's connection is used when it is given; the transaction it is *)
(* in is used too, and one is begun when there is none.                    *)
EnsureTransaction(t, given) ==
    \/ ~given /\ Transaction(t)
    \/ /\ given /\ frames[t] # <<>> /\ Len(frames[t]) < MaxDepth
       /\ Enter(t, [conn |-> Last(t).conn, opened |-> FALSE,
                    began |-> Current(t) \notin tx, engine |-> 0])
       /\ tx' = tx \cup {Current(t)}
       /\ UNCHANGED <<table, writes, engine, built, closes>>

(* A statement that writes the rows of w, none for a SELECT. *)
Execute(t, w) ==
    LET c == Current(t) IN
    /\ frames[t] # <<>>
    /\ Blockers(c, w) = {} /\ ~Clashes(c, w)
    /\ writes' = [writes EXCEPT ![c] = [i \in Ids |-> IF i \in DOMAIN w THEN w[i] ELSE @[i]]]
    /\ tx' = tx \cup {c}
    /\ UNCHANGED <<table, frames, engine, built, closes>>

\* Mutants: the commit forgets the rows that were not written; every block
\* that ends well commits.
LeaveWithWritesOnly(t, normally) ==
    LET c == Current(t)
        ends == Last(t).began \/ Last(t).opened IN
    /\ frames[t] # <<>>
    /\ frames' = [frames EXCEPT ![t] = SubSeq(@, 1, Len(@) - 1)]
    /\ table' = IF Last(t).began /\ normally THEN writes[c] ELSE table
    /\ tx' = IF ends THEN tx \ {c} ELSE tx
    /\ writes' = IF ends THEN [writes EXCEPT ![c] = NoWrites] ELSE writes
    /\ UNCHANGED <<engine, built, closes>>

LeaveAndCommit(t, normally) ==
    /\ frames[t] # <<>>
    /\ frames' = [frames EXCEPT ![t] = SubSeq(@, 1, Len(@) - 1)]
    /\ table' = IF normally THEN View(Current(t)) ELSE table
    /\ tx' = tx \ {Current(t)}
    /\ writes' = [writes EXCEPT ![Current(t)] = NoWrites]
    /\ UNCHANGED <<engine, built, closes>>

(* The end of a block.  A block that began the transaction commits it, or  *)
(* rolls it back when it is left by an exception; one that opened the      *)
(* connection returns it to the pool, which rolls back what is left.       *)
Leave(t, normally) ==
    LET f == Last(t)
        c == Current(t)
        ends == f.began \/ f.opened IN
    /\ frames[t] # <<>>
    /\ frames' = [frames EXCEPT ![t] = SubSeq(@, 1, Len(@) - 1)]
    /\ table' = IF f.began /\ normally THEN View(c) ELSE table
    /\ tx' = IF ends THEN tx \ {c} ELSE tx
    /\ writes' = IF ends THEN [writes EXCEPT ![c] = NoWrites] ELSE writes
    /\ UNCHANGED <<engine, built, closes>>

(* close swaps the engine before it awaits: what is checked out lives on,  *)
(* and the next request builds an engine of its own.                       *)
Close ==
    /\ engine # 0 /\ closes < MaxCloses
    /\ engine' = 0 /\ closes' = closes + 1
    /\ UNCHANGED <<table, writes, tx, frames, built>>

(* What an application may do with a Database: its handlers nest blocks    *)
(* and execute statements as they like.                                    *)
DbNext ==
    \/ \E t \in Task :
        \/ Connection(t) \/ Transaction(t)
        \/ \E given \in BOOLEAN : EnsureTransaction(t, given)
        \/ \E S \in SUBSET Ids : \E w \in [S -> Titles \cup {None}] : Execute(t, w)
        \/ \E normally \in BOOLEAN : Leave(t, normally)
    \/ NoConnection
    \/ Close

DbSpec == Init /\ [][DbNext]_dbVars

-----------------------------------------------------------------------------
DbTypeOK ==
    /\ table \in [Ids -> Titles \cup {None}]
    /\ writes \in [Conn -> [Ids -> Titles \cup {None, Same}]]
    /\ tx \subseteq Conn
    /\ frames \in [Task -> Seq(Frame)]
    /\ \A t \in Task : Len(frames[t]) <= MaxDepth
    /\ engine \in Nat /\ built \in Nat /\ closes \in Nat

(* The blocks of a task, and what each of them has to end. *)
FramesOwn(t) ==
    \A i \in 1..Len(frames[t]) :
        /\ frames[t][i].conn \in 1..i
        /\ frames[t][i].opened <=> frames[t][i].conn = i
        /\ frames[t][frames[t][i].conn].opened
        /\ frames[t][i].began => <<t, frames[t][i].conn>> \in tx
        /\ \A j \in 1..Len(frames[t]) :
            frames[t][i].conn = frames[t][j].conn /\ frames[t][i].began /\ frames[t][j].began => i = j

(* Whoever opened a connection or began a transaction is still in the      *)
(* block that will end it: a connection is used by the task that holds it, *)
(* a transaction has an owner and only one, and uncommitted rows belong to *)
(* a transaction (ensure_transaction, container.py:90).                    *)
BlocksOwnWhatTheyOpened ==
    /\ \A t \in Task : FramesOwn(t)
    /\ tx \subseteq OpenConns
    /\ \A c \in Conn : writes[c] # NoWrites => c \in tx

(* An engine is built only when there is none, so that a service has one   *)
(* pool, and one more for each close under requests (container.py:47).     *)
OneEngine == built <= closes + 1 /\ engine \in {0, built}

(* A block that did not begin the transaction it runs in never commits or  *)
(* ends it: what a helper does with the connection it was given stays      *)
(* undecided until the caller's block ends.                                *)
CallerDecides ==
    [][\A t \in Task :
        /\ Len(frames'[t]) < Len(frames[t])
        /\ \E i \in 1..(Len(frames[t]) - 1) : frames[t][i].began /\ frames[t][i].conn = Last(t).conn
        => UNCHANGED <<table, tx, writes>>]_dbVars

=============================================================================
