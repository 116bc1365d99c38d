-------------------------- MODULE Database_proofs --------------------------
(***************************************************************************)
(* Theorems about Database for any tasks, rows and bounds: an application  *)
(* may nest its blocks as it likes (DbSpec), and the endpoints of SqlApi   *)
(* are one such application.                                               *)
(***************************************************************************)
EXTENDS SqlApi, SequenceTheorems, TLAPS

USE DatabaseAssumption

(* A task inside a block: its innermost frame and the connection it uses. *)
LEMMA FrameOfTop ==
    ASSUME DbTypeOK, NEW t \in Task, frames[t] # <<>>
    PROVE  /\ Len(frames[t]) \in 1..MaxDepth
           /\ Last(t) \in Frame
           /\ Current(t) \in Conn
<1>1. frames[t] \in Seq(Frame) /\ Len(frames[t]) <= MaxDepth
  BY DEF DbTypeOK
<1>2. Len(frames[t]) \in 1..MaxDepth
  BY <1>1
<1>3. Last(t) \in Frame
  BY <1>1, <1>2 DEF Last
<1>4. Last(t).conn \in 1..MaxDepth
  BY <1>3 DEF Frame
<1> QED BY <1>2, <1>3, <1>4 DEF Current, Conn

(* What a task is in after it leaves its innermost block. *)
LEMMA FramesLeft ==
    ASSUME NEW s \in Seq(Frame), s # <<>>
    PROVE  LET front == SubSeq(s, 1, Len(s) - 1) IN
           /\ front \in Seq(Frame) /\ Len(front) = Len(s) - 1
           /\ DOMAIN front = 1..(Len(s) - 1)
           /\ \A i \in 1..(Len(s) - 1) : front[i] = s[i]
<1>1. Len(s) - 1 \in Nat /\ \A i \in 1..(Len(s) - 1) : s[i] \in Frame
  OBVIOUS
<1>2. /\ SubSeq(s, 1, Len(s) - 1) \in Seq(Frame)
      /\ Len(SubSeq(s, 1, Len(s) - 1)) = IF 1 <= Len(s) - 1 THEN (Len(s) - 1) - 1 + 1 ELSE 0
      /\ \A i \in 1..((Len(s) - 1) - 1 + 1) : SubSeq(s, 1, Len(s) - 1)[i] = s[1 + i - 1]
  <2>1. Len(s) - 1 \in Int /\ 1 \in Int
    BY <1>1
  <2> QED BY <1>1, <2>1, SubSeqProperties
<1>3. Len(SubSeq(s, 1, Len(s) - 1)) = Len(s) - 1
  <2>1. \A n \in Nat : (IF 1 <= n THEN n - 1 + 1 ELSE 0) = n
    OBVIOUS
  <2> QED BY <1>1, <1>2, <2>1
<1>4. DOMAIN SubSeq(s, 1, Len(s) - 1) = 1..(Len(s) - 1)
  <2>1. \A q \in Seq(Frame) : DOMAIN q = 1..Len(q)
    OBVIOUS
  <2> QED BY <1>2, <1>3, <2>1
<1>5. ASSUME NEW i \in 1..(Len(s) - 1)
      PROVE  SubSeq(s, 1, Len(s) - 1)[i] = s[i]
  <2>1. i \in 1..((Len(s) - 1) - 1 + 1) /\ 1 + i - 1 = i
    BY <1>1
  <2> QED BY <1>2, <2>1
<1> QED BY <1>2, <1>3, <1>4, <1>5

(* A view, and what a statement makes of the writes, have their types. *)
LEMMA ViewType ==
    ASSUME DbTypeOK, NEW c \in Conn
    PROVE  View(c) \in [Ids -> Titles \cup {None}]
BY DEF DbTypeOK, View

(* Whatever a handler does next with a Database keeps it well typed. *)
LEMMA DbTypeStep == DbTypeOK /\ [DbNext]_dbVars => DbTypeOK'
<1> SUFFICES ASSUME DbTypeOK, [DbNext]_dbVars PROVE DbTypeOK'
  OBVIOUS
<1>1. ASSUME NEW t \in Task, NEW b \in BOOLEAN, Checkout(t, b) PROVE DbTypeOK'
  <2> DEFINE depth == Len(frames[t]) + 1
             f == [conn |-> depth, opened |-> TRUE, began |-> b, engine |-> Engine]
  <2>1. depth \in 1..MaxDepth /\ Engine \in Nat
    BY <1>1 DEF DbTypeOK, Checkout, Engine
  <2>2. f \in Frame
    BY <2>1 DEF Frame
  <2>3. /\ frames' = [frames EXCEPT ![t] = Append(@, f)]
        /\ engine' = Engine /\ built' = Engine
        /\ tx' = IF b THEN tx \cup {<<t, depth>>} ELSE tx
        /\ UNCHANGED <<table, writes, closes>>
    BY <1>1 DEF Checkout, Enter
  <2>4. /\ frames' \in [Task -> Seq(Frame)]
        /\ \A u \in Task : Len(frames'[u]) <= MaxDepth
    <3> HIDE DEF f
    <3> QED BY <2>1, <2>2, <2>3 DEF DbTypeOK
  <2>5. tx' \subseteq Conn
    BY <2>1, <2>3 DEF DbTypeOK, Conn
  <2> QED BY <2>1, <2>3, <2>4, <2>5 DEF DbTypeOK
<1>2. ASSUME NEW t \in Task, NEW given \in BOOLEAN, EnsureTransaction(t, given) PROVE DbTypeOK'
  <2>1. CASE ~given /\ Transaction(t)
    BY <1>1, <2>1 DEF Transaction
  <2>2. CASE given /\ ~Transaction(t)
    <3> DEFINE f == [conn |-> Last(t).conn, opened |-> FALSE,
                     began |-> Current(t) \notin tx, engine |-> 0]
    <3>1. frames[t] # <<>> /\ Len(frames[t]) < MaxDepth
      BY <1>2, <2>2 DEF EnsureTransaction
    <3>2. f \in Frame /\ Current(t) \in Conn
      BY <3>1, FrameOfTop DEF Frame
    <3>3. /\ frames' = [frames EXCEPT ![t] = Append(@, f)]
          /\ tx' = tx \cup {Current(t)}
          /\ UNCHANGED <<table, writes, engine, built, closes>>
      BY <1>2, <2>2 DEF EnsureTransaction, Enter
    <3>4. /\ frames' \in [Task -> Seq(Frame)]
          /\ \A u \in Task : Len(frames'[u]) <= MaxDepth
      <4> HIDE DEF f
      <4> QED BY <3>1, <3>2, <3>3 DEF DbTypeOK
    <3> QED BY <3>2, <3>3, <3>4 DEF DbTypeOK
  <2>3. CASE given /\ Transaction(t)
    BY <1>1, <2>3 DEF Transaction
  <2> QED BY <1>2, <2>1, <2>2, <2>3 DEF EnsureTransaction
<1>3. ASSUME NEW t \in Task, NEW S \in SUBSET Ids, NEW w \in [S -> Titles \cup {None}],
             Execute(t, w)
      PROVE  DbTypeOK'
  <2>1. frames[t] # <<>> /\ Current(t) \in Conn
    BY <1>3, FrameOfTop DEF Execute
  <2>2. /\ writes' = [writes EXCEPT ![Current(t)] =
                        [i \in Ids |-> IF i \in DOMAIN w THEN w[i] ELSE @[i]]]
        /\ tx' = tx \cup {Current(t)}
        /\ UNCHANGED <<table, frames, engine, built, closes>>
    BY <1>3 DEF Execute
  <2>3. writes' \in [Conn -> [Ids -> Titles \cup {None, Same}]]
    BY <2>1, <2>2 DEF DbTypeOK
  <2> QED BY <2>1, <2>2, <2>3 DEF DbTypeOK
<1>4. ASSUME NEW t \in Task, NEW normally \in BOOLEAN, Leave(t, normally) PROVE DbTypeOK'
  <2>1. /\ frames[t] # <<>> /\ Current(t) \in Conn /\ Len(frames[t]) \in 1..MaxDepth
        /\ Last(t) \in Frame
    BY <1>4, FrameOfTop DEF Leave
  <2>2. View(Current(t)) \in [Ids -> Titles \cup {None}]
    BY <2>1, ViewType
  <2>3. /\ frames' = [frames EXCEPT ![t] = SubSeq(@, 1, Len(@) - 1)]
        /\ table' \in {table, View(Current(t))}
        /\ tx' \subseteq tx
        /\ writes' \in {writes, [writes EXCEPT ![Current(t)] = NoWrites]}
        /\ UNCHANGED <<engine, built, closes>>
    BY <1>4 DEF Leave
  <2>4. /\ SubSeq(frames[t], 1, Len(frames[t]) - 1) \in Seq(Frame)
        /\ Len(SubSeq(frames[t], 1, Len(frames[t]) - 1)) = Len(frames[t]) - 1
    BY <2>1, FramesLeft DEF DbTypeOK
  <2>5. /\ frames' \in [Task -> Seq(Frame)]
        /\ \A u \in Task : Len(frames'[u]) <= MaxDepth
    BY <2>1, <2>3, <2>4 DEF DbTypeOK
  <2>6. writes' \in [Conn -> [Ids -> Titles \cup {None, Same}]]
    BY <2>1, <2>3 DEF DbTypeOK, NoWrites
  <2> QED BY <2>2, <2>3, <2>5, <2>6 DEF DbTypeOK
<1>5. CASE Close
  BY <1>5 DEF Close, DbTypeOK
<1>6. CASE NoConnection
  BY <1>6 DEF NoConnection, Engine, DbTypeOK
<1>7. CASE UNCHANGED dbVars
  BY <1>7 DEF dbVars, DbTypeOK
<1> QED BY <1>1, <1>2, <1>3, <1>4, <1>5, <1>6, <1>7 DEF DbNext, Connection, Transaction

(* The type invariant of Database, for every application of it. *)
THEOREM DbTypeCorrect == DbSpec => []DbTypeOK
<1>1. Init => DbTypeOK
  BY DEF Init, DbTypeOK, NoWrites, Conn, Frame
<1> QED BY <1>1, DbTypeStep, PTL DEF DbSpec

-----------------------------------------------------------------------------
(* A connection that was checked out is the one of the frame at its depth. *)
LEMMA OpenIsFrame ==
    ASSUME DbTypeOK, NEW t \in Task, NEW n \in 1..MaxDepth
    PROVE  <<t, n>> \in OpenConns <=> n <= Len(frames[t]) /\ frames[t][n].opened
<1>1. DOMAIN frames[t] = 1..Len(frames[t]) /\ Len(frames[t]) \in Nat
  BY DEF DbTypeOK
<1> QED BY <1>1 DEF OpenConns, Conn

(* Blocks end what they opened and nothing else (container.py:90), however *)
(* an application nests them.                                              *)
THEOREM BlocksOwn == DbSpec => []BlocksOwnWhatTheyOpened
<1>1. Init => BlocksOwnWhatTheyOpened
  BY DEF Init, BlocksOwnWhatTheyOpened, FramesOwn, NoWrites
<1>2. DbTypeOK /\ DbTypeOK' /\ BlocksOwnWhatTheyOpened /\ [DbNext]_dbVars => BlocksOwnWhatTheyOpened'
  <2> SUFFICES ASSUME DbTypeOK, DbTypeOK', BlocksOwnWhatTheyOpened, [DbNext]_dbVars
               PROVE  BlocksOwnWhatTheyOpened'
    OBVIOUS
  <2>a. \A t \in Task : FramesOwn(t)
    BY DEF BlocksOwnWhatTheyOpened
  <2>b. \A t \in Task : /\ frames[t] \in Seq(Frame) /\ DOMAIN frames[t] = 1..Len(frames[t])
                         /\ Len(frames[t]) \in Nat
    BY DEF DbTypeOK
  <2>d. \A t \in Task : \A i \in 1..Len(frames[t]) :
          /\ frames[t][i].conn \in 1..i /\ frames[t][i].conn \in 1..Len(frames[t])
          /\ frames[t][i].opened <=> frames[t][i].conn = i
          /\ frames[t][frames[t][i].conn].opened
          /\ frames[t][i].began => <<t, frames[t][i].conn>> \in tx
    BY <2>a, <2>b DEF FramesOwn
  <2>e. \A t \in Task : \A i, j \in 1..Len(frames[t]) :
          frames[t][i].conn = frames[t][j].conn /\ frames[t][i].began /\ frames[t][j].began => i = j
    BY <2>a DEF FramesOwn
  <2>c. /\ tx \subseteq OpenConns
        /\ \A c \in Conn : writes[c] # NoWrites => c \in tx
    BY DEF BlocksOwnWhatTheyOpened
  <2>1. ASSUME NEW t \in Task, NEW b \in BOOLEAN, Checkout(t, b) PROVE BlocksOwnWhatTheyOpened'
    <3> DEFINE depth == Len(frames[t]) + 1
               f == [conn |-> depth, opened |-> TRUE, began |-> b, engine |-> Engine]
    <3>1. /\ frames' = [frames EXCEPT ![t] = Append(@, f)]
          /\ tx' = IF b THEN tx \cup {<<t, depth>>} ELSE tx
          /\ writes' = writes /\ depth \in 1..MaxDepth
      BY <2>1, <2>b DEF Checkout, Enter
    <3>2. /\ frames'[t] = Append(frames[t], f)
          /\ Len(frames'[t]) = depth /\ frames'[t][depth] = f
          /\ DOMAIN frames'[t] = 1..depth
          /\ \A i \in 1..Len(frames[t]) : frames'[t][i] = frames[t][i]
          /\ \A u \in Task \ {t} : frames'[u] = frames[u]
      <4> HIDE DEF f
      <4> QED BY <3>1, <2>b DEF DbTypeOK
    <3>3. FramesOwn(t)'
      <4>1. \A i \in 1..depth : i = depth \/ i \in 1..Len(frames[t])
        BY <2>b
      <4>2. f.conn = depth /\ f.opened /\ f.began = b
        OBVIOUS
      <4>3. b => <<t, depth>> \in tx'
        BY <3>1
      <4>4. \A i \in 1..Len(frames[t]) : frames'[t][i].conn # depth /\ i # depth
        <5> SUFFICES ASSUME NEW i \in 1..Len(frames[t])
                     PROVE  frames'[t][i].conn # depth /\ i # depth
          OBVIOUS
        <5>1. frames'[t][i] = frames[t][i] /\ frames[t][i].conn \in 1..Len(frames[t])
          BY <2>d, <3>2
        <5>2. depth \notin 1..Len(frames[t])
          BY <2>b
        <5> QED BY <5>1, <5>2
      <4>5. tx \subseteq tx'
        BY <3>1
      <4> HIDE DEF f
      <4>6. \A i \in 1..depth :
              /\ frames'[t][i].conn \in 1..i
              /\ frames'[t][i].opened <=> frames'[t][i].conn = i
              /\ frames'[t][frames'[t][i].conn].opened
              /\ frames'[t][i].began => <<t, frames'[t][i].conn>> \in tx'
        BY <2>d, <3>1, <3>2, <4>1, <4>2, <4>3, <4>5
      <4>7. \A i, j \in 1..depth :
              frames'[t][i].conn = frames'[t][j].conn /\ frames'[t][i].began /\ frames'[t][j].began => i = j
        BY <2>e, <3>2, <4>1, <4>2, <4>4
      <4> QED BY <3>2, <4>6, <4>7 DEF FramesOwn
    <3>4. \A u \in Task \ {t} : FramesOwn(u)'
      <4>1. \A u \in Task \ {t} : \A k : <<u, k>> \in tx => <<u, k>> \in tx'
        BY <3>1
      <4> QED BY <4>1, <2>a, <3>2 DEF FramesOwn
    <3>5. tx' \subseteq OpenConns' /\ OpenConns \subseteq OpenConns'
      <4>1. OpenConns \subseteq OpenConns'
        BY <2>b, <3>2 DEF OpenConns, Conn
      <4>2. <<t, depth>> \in OpenConns'
        BY <3>1, <3>2 DEF OpenConns, Conn
      <4> QED BY <2>c, <3>1, <4>1, <4>2
    <3>6. \A c \in Conn : writes'[c] # NoWrites => c \in tx'
      BY <2>c, <3>1
    <3> QED BY <3>3, <3>4, <3>5, <3>6 DEF BlocksOwnWhatTheyOpened
  <2>2. ASSUME NEW t \in Task, frames[t] # <<>>, EnsureTransaction(t, TRUE), ~Transaction(t)
        PROVE  BlocksOwnWhatTheyOpened'
    <3> DEFINE n == Len(frames[t])
               c0 == Last(t).conn
               f == [conn |-> c0, opened |-> FALSE, began |-> Current(t) \notin tx, engine |-> 0]
    <3>1. /\ frames' = [frames EXCEPT ![t] = Append(@, f)]
          /\ tx' = tx \cup {<<t, c0>>} /\ writes' = writes
      BY <2>2 DEF EnsureTransaction, Enter, Current
    <3>2. /\ Len(frames'[t]) = n + 1 /\ frames'[t][n + 1] = f /\ DOMAIN frames'[t] = 1..(n + 1)
          /\ \A i \in 1..n : frames'[t][i] = frames[t][i]
          /\ \A u \in Task \ {t} : frames'[u] = frames[u]
      <4> HIDE DEF f
      <4> QED BY <3>1, <2>b DEF DbTypeOK
    <3>3. /\ n \in 1..MaxDepth /\ frames[t][n] = Last(t)
          /\ c0 \in 1..n /\ frames[t][c0].opened /\ <<t, c0>> \in OpenConns
      <4>1. n \in 1..MaxDepth /\ frames[t][n] = Last(t) /\ Last(t) \in Frame
        BY <2>2, FrameOfTop DEF Last
      <4>3. n \in 1..n
        BY <4>1
      <4>2. c0 \in 1..n /\ frames[t][c0].opened
        BY <4>1, <4>3, <2>d
      <4> QED BY <4>1, <4>2, OpenIsFrame
    <3>4. FramesOwn(t)'
      <4>1. \A i \in 1..(n + 1) : i = n + 1 \/ i \in 1..n
        BY <3>3
      <4>2. f.conn = c0 /\ ~f.opened /\ (f.began <=> <<t, c0>> \notin tx)
        BY DEF Current
      <4>3. \A i \in 1..n : frames[t][i].conn = c0 /\ frames[t][i].began => <<t, c0>> \in tx
        BY <2>d
      <4>4. n + 1 \notin 1..n /\ c0 # n + 1 /\ c0 \in 1..(n + 1) /\ n \in Nat
        BY <3>3
      <4>5. tx \subseteq tx' /\ <<t, c0>> \in tx'
        BY <3>1
      <4> HIDE DEF f, c0, n
      <4>6. \A i \in 1..(n + 1) :
              /\ frames'[t][i].conn \in 1..i
              /\ frames'[t][i].opened <=> frames'[t][i].conn = i
              /\ frames'[t][frames'[t][i].conn].opened
              /\ frames'[t][i].began => <<t, frames'[t][i].conn>> \in tx'
        <5>1. ASSUME NEW i \in 1..n
              PROVE  /\ frames'[t][i] = frames[t][i]
                     /\ frames'[t][i].conn \in 1..i
                     /\ frames'[t][i].opened <=> frames'[t][i].conn = i
                     /\ frames'[t][frames'[t][i].conn].opened
                     /\ frames'[t][i].began => <<t, frames'[t][i].conn>> \in tx'
          <6>1. frames'[t][i] = frames[t][i]
            BY <3>2
          <6>2. frames[t][i].conn \in 1..n
            BY <2>d DEF n
          <6>3. frames'[t][frames[t][i].conn] = frames[t][frames[t][i].conn]
            BY <3>2, <6>2
          <6> QED BY <2>d, <4>5, <6>1, <6>3 DEF n
        <5>2. /\ frames'[t][n + 1].conn = c0 /\ ~frames'[t][n + 1].opened
              /\ frames'[t][c0].opened /\ c0 # n + 1
          BY <3>2, <3>3, <4>2, <4>4
        <5> QED BY <4>1, <4>4, <4>5, <5>1, <5>2
      <4>7. \A i, j \in 1..(n + 1) :
              frames'[t][i].conn = frames'[t][j].conn /\ frames'[t][i].began /\ frames'[t][j].began => i = j
        BY <2>e, <3>2, <4>1, <4>2, <4>3, <4>4 DEF n
      <4> QED BY <3>2, <4>6, <4>7 DEF FramesOwn
    <3>5. \A u \in Task \ {t} : FramesOwn(u)'
      <4>1. \A u \in Task \ {t} : \A k : <<u, k>> \in tx => <<u, k>> \in tx'
        BY <3>1
      <4> QED BY <4>1, <2>a, <3>2 DEF FramesOwn
    <3>6. tx' \subseteq OpenConns'
      <4>1. OpenConns \subseteq OpenConns'
        BY <2>b, <3>2 DEF OpenConns, Conn
      <4> QED BY <2>c, <3>1, <3>3, <4>1
    <3>7. \A c \in Conn : writes'[c] # NoWrites => c \in tx'
      BY <2>c, <3>1
    <3> QED BY <3>4, <3>5, <3>6, <3>7 DEF BlocksOwnWhatTheyOpened
  <2>3. ASSUME NEW t \in Task, NEW S \in SUBSET Ids, NEW w \in [S -> Titles \cup {None}],
               Execute(t, w)
        PROVE  BlocksOwnWhatTheyOpened'
    <3>1. /\ frames' = frames /\ tx' = tx \cup {Current(t)}
          /\ \A c \in Conn : writes'[c] # writes[c] => c = Current(t)
      BY <2>3 DEF Execute, DbTypeOK
    <3>2. Current(t) \in OpenConns
      <4>1. /\ Len(frames[t]) \in 1..MaxDepth /\ Last(t) \in Frame
            /\ Last(t) = frames[t][Len(frames[t])]
        BY <2>3, FrameOfTop DEF Execute, Last
      <4>3. Len(frames[t]) \in 1..Len(frames[t])
        BY <4>1
      <4>2. Last(t).conn \in 1..Len(frames[t]) /\ frames[t][Last(t).conn].opened
        BY <4>1, <4>3, <2>d
      <4> QED BY <4>1, <4>2, OpenIsFrame DEF Current
    <3>3. \A u \in Task : FramesOwn(u)'
      BY <2>a, <3>1 DEF FramesOwn
    <3>4. OpenConns' = OpenConns
      BY <3>1 DEF OpenConns
    <3>5. \A c \in Conn : writes'[c] # NoWrites => c \in tx'
      BY <2>c, <3>1
    <3> QED BY <2>c, <3>1, <3>2, <3>3, <3>4, <3>5 DEF BlocksOwnWhatTheyOpened
  <2>4. ASSUME NEW t \in Task, NEW normally \in BOOLEAN, Leave(t, normally)
        PROVE  BlocksOwnWhatTheyOpened'
    <3> DEFINE n == Len(frames[t])
               f == Last(t)
               c == <<t, f.conn>>
               ends == f.began \/ f.opened
    <3>1. /\ n \in 1..MaxDepth /\ f \in Frame /\ f = frames[t][n] /\ c \in Conn /\ c = Current(t)
      BY <2>4, FrameOfTop DEF Leave, Last, Current, Conn, Frame
    <3>2. /\ Len(frames'[t]) = n - 1 /\ DOMAIN frames'[t] = 1..(n - 1)
          /\ \A i \in 1..(n - 1) : frames'[t][i] = frames[t][i]
          /\ \A u \in Task \ {t} : frames'[u] = frames[u]
      <4>1. frames' = [frames EXCEPT ![t] = SubSeq(@, 1, Len(@) - 1)] /\ frames[t] # <<>>
        BY <2>4 DEF Leave
      <4>2. frames'[t] = SubSeq(frames[t], 1, n - 1) /\ \A u \in Task \ {t} : frames'[u] = frames[u]
        BY <4>1 DEF DbTypeOK
      <4> QED BY <4>1, <4>2, <2>b, FramesLeft
    <3>3. tx' = (IF ends THEN tx \ {c} ELSE tx)
      BY <2>4, <3>1 DEF Leave
    <3>4. writes' = (IF ends THEN [writes EXCEPT ![c] = NoWrites] ELSE writes)
      BY <2>4, <3>1 DEF Leave
    <3>5. \A i \in 1..(n - 1) : /\ i \in 1..n /\ i # n
                                /\ frames[t][i].conn \in 1..(n - 1) /\ frames[t][i].conn # n
      <4> SUFFICES ASSUME NEW i \in 1..(n - 1)
                   PROVE  /\ i \in 1..n /\ i # n
                          /\ frames[t][i].conn \in 1..(n - 1) /\ frames[t][i].conn # n
        OBVIOUS
      <4>1. i \in 1..n /\ i # n
        BY <3>1
      <4>2. frames[t][i].conn \in 1..i
        BY <4>1, <2>d
      <4> QED BY <3>1, <4>1, <4>2
    <3>6. n \in 1..n /\ (f.opened <=> f.conn = n)
      <4>1. n \in 1..n
        BY <3>1
      <4> QED BY <4>1, <3>1, <2>d
    <3>7. FramesOwn(t)'
      <4>1. \A i \in 1..(n - 1) : frames[t][i].began => <<t, frames[t][i].conn>> \in tx'
        <5> SUFFICES ASSUME NEW i \in 1..(n - 1), frames[t][i].began
                     PROVE  <<t, frames[t][i].conn>> \in tx'
          OBVIOUS
        <5>1. <<t, frames[t][i].conn>> \in tx
          BY <2>d, <3>5
        <5>2. frames[t][i].conn = f.conn => ~f.began /\ ~f.opened
          BY <2>e, <3>1, <3>5, <3>6
        <5> QED BY <5>1, <5>2, <3>3
      <4> HIDE DEF f, n, c, ends
      <4>2. \A i \in 1..(n - 1) :
              /\ frames'[t][i].conn \in 1..i
              /\ frames'[t][i].opened <=> frames'[t][i].conn = i
              /\ frames'[t][frames'[t][i].conn].opened
              /\ frames'[t][i].began => <<t, frames'[t][i].conn>> \in tx'
        <5> SUFFICES ASSUME NEW i \in 1..(n - 1)
                     PROVE  /\ frames'[t][i].conn \in 1..i
                            /\ frames'[t][i].opened <=> frames'[t][i].conn = i
                            /\ frames'[t][frames'[t][i].conn].opened
                            /\ frames'[t][i].began => <<t, frames'[t][i].conn>> \in tx'
          OBVIOUS
        <5>1. frames'[t][i] = frames[t][i] /\ i \in 1..n
          BY <3>2, <3>5
        <5>2. frames'[t][frames[t][i].conn] = frames[t][frames[t][i].conn]
          BY <3>2, <3>5
        <5> QED BY <2>d, <4>1, <5>1, <5>2 DEF n
      <4>3. \A i, j \in 1..(n - 1) :
              frames'[t][i].conn = frames'[t][j].conn /\ frames'[t][i].began /\ frames'[t][j].began => i = j
        BY <2>e, <3>2, <3>5 DEF n
      <4> QED BY <3>2, <4>2, <4>3 DEF FramesOwn
    <3>8. \A u \in Task \ {t} : FramesOwn(u)'
      <4>1. \A u \in Task \ {t} : \A k : <<u, k>> \in tx => <<u, k>> \in tx'
        BY <3>3
      <4> QED BY <4>1, <2>a, <3>2 DEF FramesOwn
    <3>9. tx' \subseteq OpenConns'
      <4> SUFFICES ASSUME NEW u \in Task, NEW k \in 1..MaxDepth, <<u, k>> \in tx'
                   PROVE  <<u, k>> \in OpenConns'
        BY DEF DbTypeOK, Conn
      <4>1. <<u, k>> \in OpenConns /\ <<u, k>> \in Conn
        BY <2>c, <3>3 DEF Conn
      <4>2. k \in 1..Len(frames[u]) /\ frames[u][k].opened
        BY <4>1, OpenIsFrame
      <4>3. CASE u # t
        BY <4>1, <4>3, <3>2 DEF OpenConns
      <4>4. CASE u = t /\ k < n
        BY <4>1, <4>2, <4>4, <3>2, <2>b DEF OpenConns
      <4>5. CASE u = t /\ k = n
        <5>1. f.opened /\ f.conn = n
          BY <4>2, <4>5, <3>1, <3>6
        <5> QED BY <5>1, <4>5, <3>3
      <4> QED BY <4>2, <4>3, <4>4, <4>5, <2>b
    <3>10. \A d \in Conn : writes'[d] # NoWrites => d \in tx'
      BY <2>c, <3>1, <3>3, <3>4 DEF DbTypeOK
    <3> QED BY <3>7, <3>8, <3>9, <3>10 DEF BlocksOwnWhatTheyOpened
  <2>5. CASE UNCHANGED <<tx, writes, frames>>
    <3>1. OpenConns' = OpenConns
      BY <2>5 DEF OpenConns
    <3> QED BY <2>5, <3>1, <2>a, <2>c DEF BlocksOwnWhatTheyOpened, FramesOwn
  <2>6. ASSUME NEW t \in Task, NEW given \in BOOLEAN, EnsureTransaction(t, given)
        PROVE  BlocksOwnWhatTheyOpened'
    <3>1. CASE Transaction(t)
      BY <2>1, <3>1 DEF Transaction
    <3>2. CASE ~Transaction(t)
      <4>1. given /\ frames[t] # <<>>
        BY <2>6, <3>2 DEF EnsureTransaction
      <4> QED BY <2>2, <2>6, <3>2, <4>1
    <3> QED BY <3>1, <3>2
  <2> QED BY <2>1, <2>3, <2>4, <2>5, <2>6 DEF DbNext, Connection, Transaction, NoConnection, Close, dbVars
<1> QED BY <1>1, <1>2, DbTypeCorrect, PTL DEF DbSpec

-----------------------------------------------------------------------------
(* A service has one engine, and one more for each close (container.py:47, *)
(* 106).  OneEngine alone does not survive a close: what does is that every *)
(* engine but the one in use was closed.                                   *)
THEOREM OneEngineAtATime == DbSpec => []OneEngine
<1> DEFINE Counted == /\ engine \in {0, built}
                      /\ built = IF engine = 0 THEN closes ELSE closes + 1
<1>1. Init => Counted
  BY DEF Init
<1>2. DbTypeOK /\ Counted /\ [DbNext]_dbVars => Counted'
  <2> SUFFICES ASSUME DbTypeOK, Counted, [DbNext]_dbVars PROVE Counted'
    OBVIOUS
  <2>1. engine \in Nat /\ built \in Nat /\ closes \in Nat
    BY DEF DbTypeOK
  <2>2. ASSUME NEW t \in Task, NEW b \in BOOLEAN, Checkout(t, b) PROVE Counted'
    <3>1. engine' = Engine /\ built' = Engine /\ closes' = closes
      BY <2>2 DEF Checkout
    <3> QED BY <2>1, <3>1 DEF Engine
  <2>3. ASSUME NEW t \in Task, NEW given \in BOOLEAN, EnsureTransaction(t, given) PROVE Counted'
    <3>1. CASE Transaction(t)
      BY <2>2, <3>1 DEF Transaction
    <3>2. CASE UNCHANGED <<engine, built, closes>>
      BY <3>2
    <3> QED BY <2>3, <3>1, <3>2 DEF EnsureTransaction
  <2>4. CASE Close
    BY <2>1, <2>4 DEF Close
  <2>5. CASE UNCHANGED <<engine, built, closes>>
    BY <2>5
  <2>6. CASE NoConnection
    BY <2>1, <2>6 DEF NoConnection, Engine
  <2> QED BY <2>2, <2>3, <2>4, <2>5, <2>6 DEF DbNext, Connection, Transaction, Execute, Leave, dbVars
<1>3. DbTypeOK /\ Counted => OneEngine
  BY DEF DbTypeOK, OneEngine
<1> QED BY <1>1, <1>2, <1>3, DbTypeCorrect, PTL DEF DbSpec

-----------------------------------------------------------------------------
(* What a helper does on the connection of its caller is decided by the    *)
(* caller's block (ensure_transaction, container.py:90): only the end of a *)
(* block shortens a task's blocks, and by BlocksOwnWhatTheyOpened the      *)
(* block that began the transaction is the only one that ends it.          *)
THEOREM CallerHasTheLastWord == DbSpec => CallerDecides
<1> DEFINE Helper(t) ==
      /\ Len(frames'[t]) < Len(frames[t])
      /\ \E i \in 1..(Len(frames[t]) - 1) : frames[t][i].began /\ frames[t][i].conn = Last(t).conn
<1>1. DbTypeOK /\ BlocksOwnWhatTheyOpened /\ [DbNext]_dbVars
        => [\A t \in Task : Helper(t) => UNCHANGED <<table, tx, writes>>]_dbVars
  <2> SUFFICES ASSUME DbTypeOK, BlocksOwnWhatTheyOpened, DbNext,
                      NEW t \in Task, Helper(t)
               PROVE  UNCHANGED <<table, tx, writes>>
    OBVIOUS
  <2>1. \A u \in Task : frames[u] \in Seq(Frame) /\ Len(frames[u]) \in Nat
    BY DEF DbTypeOK
  <2>2. ASSUME NEW u \in Task, NEW f, frames' = [frames EXCEPT ![u] = Append(@, f)] PROVE FALSE
    <3>1. CASE u = t
      <4>1. frames'[t] = Append(frames[t], f)
        BY <2>2, <3>1 DEF DbTypeOK
      <4>2. Len(Append(frames[t], f)) = Len(frames[t]) + 1
        BY <2>1
      <4> QED BY <2>1, <4>1, <4>2
    <3>2. CASE u # t
      <4>1. frames'[t] = frames[t]
        BY <2>2, <3>2 DEF DbTypeOK
      <4> QED BY <2>1, <4>1
    <3> QED BY <3>1, <3>2
  <2>3. ASSUME frames' = frames PROVE FALSE
    BY <2>1, <2>3
  <2>4. PICK u \in Task, normally \in BOOLEAN : Leave(u, normally)
    BY <2>2, <2>3 DEF DbNext, Connection, Transaction, Checkout, EnsureTransaction, Enter,
       Execute, NoConnection, Close
  <2>5. u = t
    <3>1. CASE u # t
      <4>1. frames'[t] = frames[t]
        BY <2>4, <3>1 DEF Leave, DbTypeOK
      <4> QED BY <2>1, <4>1
    <3> QED BY <3>1
  <2>6. ~Last(t).began /\ ~Last(t).opened
    <3>1. /\ Len(frames[t]) \in 1..MaxDepth /\ Last(t) \in Frame
          /\ Last(t) = frames[t][Len(frames[t])]
      BY <2>4, <2>5, FrameOfTop DEF Leave, Last
    <3>2. PICK i \in 1..(Len(frames[t]) - 1) : frames[t][i].began /\ frames[t][i].conn = Last(t).conn
      OBVIOUS
    <3>3. /\ i \in 1..Len(frames[t]) /\ Len(frames[t]) \in 1..Len(frames[t])
          /\ i # Len(frames[t]) /\ Len(frames[t]) \notin 1..i
      BY <3>1
    <3>4. \A m, k \in 1..Len(frames[t]) :
            /\ frames[t][m].conn \in 1..m
            /\ frames[t][m].opened <=> frames[t][m].conn = m
            /\ frames[t][m].conn = frames[t][k].conn /\ frames[t][m].began /\ frames[t][k].began => m = k
      BY DEF BlocksOwnWhatTheyOpened, FramesOwn
    <3>5. frames[t][i].conn \in 1..i
      BY <3>3, <3>4
    <3> QED BY <3>1, <3>2, <3>3, <3>4, <3>5
  <2> QED BY <2>4, <2>5, <2>6 DEF Leave
<1> QED BY <1>1, DbTypeCorrect, BlocksOwn, PTL DEF DbSpec, CallerDecides


-----------------------------------------------------------------------------
(* No two rows have the same title. *)
Distinct(rowsOf) == \A i, j \in Ids : i # j /\ rowsOf[i] = rowsOf[j] => rowsOf[i] = None

(* A row is written by one transaction at a time, and so is whether a title *)
(* is taken.                                                               *)
RowLocks == \A c, o \in Conn, i \in Ids : c # o => writes[c][i] = Same \/ writes[o][i] = Same
TitleLocks ==
    \A c, o \in Conn, i \in Ids : c # o /\ writes[c][i] \notin {Same, None} => ~Changes(o, writes[c][i])

(* What transactions see of each other. *)
Isolated ==
    /\ Distinct(table) /\ \A c \in Conn : Distinct(View(c))
    /\ RowLocks /\ TitleLocks

(* A statement waits for whoever has the row, or the title, before it      *)
(* takes them.                                                             *)
LEMMA ExecuteIsolated ==
    ASSUME DbTypeOK, Isolated, NEW t \in Task, NEW S \in SUBSET Ids, NEW w \in [S -> Titles \cup {None}],
           Execute(t, w)
    PROVE  Isolated'
<1> DEFINE c == Current(t)
<1>1. /\ c \in Conn /\ Blockers(c, w) = {} /\ ~Clashes(c, w)
      /\ writes' = [writes EXCEPT ![c] = [i \in Ids |-> IF i \in DOMAIN w THEN w[i] ELSE @[i]]]
      /\ table' = table
  BY FrameOfTop DEF Execute
<1>2. DOMAIN w = S /\ \A i \in S : i \in Ids /\ w[i] \in Titles \cup {None} /\ w[i] # Same
  OBVIOUS
<1>3. /\ \A i \in Ids : writes'[c][i] = IF i \in S THEN w[i] ELSE writes[c][i]
      /\ \A o \in Conn \ {c} : writes'[o] = writes[o]
  BY <1>1, <1>2 DEF DbTypeOK
<1>4. \A o \in Conn \ {c}, i \in S : writes[o][i] = Same /\ (w[i] # None => ~Changes(o, w[i]))
  BY <1>1, <1>2 DEF Blockers
<1>5. \A i \in S, j \in Ids : i # j /\ w[i] # None => w[i] # IF j \in S THEN w[j] ELSE View(c)[j]
  BY <1>1, <1>2, Zenon DEF Clashes
<1>6. /\ \A i \in Ids : View(c)[i] = IF writes[c][i] = Same THEN table[i] ELSE writes[c][i]
      /\ \A o \in Conn, i \in Ids : View(o)[i] = IF writes[o][i] = Same THEN table[i] ELSE writes[o][i]
      /\ \A o \in Conn, i \in Ids : View(o)'[i] = IF writes'[o][i] = Same THEN table[i] ELSE writes'[o][i]
  BY <1>1 DEF View
<1>7. /\ Distinct(table) /\ \A o \in Conn : Distinct(View(o))
      /\ RowLocks /\ TitleLocks
  BY DEF Isolated
<1> HIDE DEF c
<1>8. Distinct(table)'
  BY <1>1, <1>7 DEF Distinct
<1>9. ASSUME NEW o \in Conn PROVE Distinct(View(o))'
  <2>1. CASE o # c
    <3>1. \A i \in Ids : View(o)'[i] = View(o)[i]
      BY <1>3, <1>6, <2>1
    <3> QED BY <1>7, <3>1 DEF Distinct
  <2>2. CASE o = c
    <3>1. \A i \in Ids : View(o)'[i] = IF i \in S THEN w[i] ELSE View(c)[i]
      BY <1>1, <1>2, <1>3, <1>6, <2>2
    <3>2. SUFFICES ASSUME NEW i \in Ids, NEW j \in Ids, i # j, View(o)'[i] = View(o)'[j],
                          View(o)'[i] # None
                   PROVE  FALSE
      BY <2>2 DEF Distinct
    <3>3. CASE i \in S
      BY <1>5, <3>1, <3>2, <3>3
    <3>4. CASE j \in S
      BY <1>5, <3>1, <3>2, <3>4
    <3>5. CASE i \notin S /\ j \notin S
      BY <1>1, <1>7, <3>1, <3>2, <3>5 DEF Distinct
    <3> QED BY <3>3, <3>4, <3>5
  <2> QED BY <2>1, <2>2
<1>10. RowLocks'
  <2> SUFFICES ASSUME NEW p \in Conn, NEW o \in Conn, NEW i \in Ids, p # o
               PROVE  writes'[p][i] = Same \/ writes'[o][i] = Same
    BY DEF RowLocks
  <2>1. writes[p][i] = Same \/ writes[o][i] = Same
    BY <1>7 DEF RowLocks
  <2> QED BY <1>1, <1>3, <1>4, <2>1
<1>11. TitleLocks'
  <2> SUFFICES ASSUME NEW p \in Conn, NEW o \in Conn, NEW i \in Ids, p # o,
                      writes'[p][i] \notin {Same, None}, NEW k \in Ids, writes'[o][k] # Same,
                      (writes'[o][k] = writes'[p][i]) # (table[k] = writes'[p][i])
               PROVE  FALSE
    BY <1>1 DEF TitleLocks, Changes
  <2>1. CASE p = c /\ i \in S
    BY <1>3, <1>4, <2>1 DEF Changes
  <2>2. CASE o # c /\ ~(p = c /\ i \in S)
    <3>1. writes'[p][i] = writes[p][i] /\ writes'[o] = writes[o]
      BY <1>3, <2>2
    <3> QED BY <1>7, <3>1 DEF TitleLocks, Changes
  <2>3. CASE o = c
    <3>1. p # c /\ writes'[p] = writes[p]
      BY <1>3, <2>3
    <3> DEFINE v == writes[p][i]
    <3>2. CASE k \notin S
      <4>1. writes'[o][k] = writes[o][k]
        BY <1>3, <2>3, <3>2
      <4> QED BY <1>7, <3>1, <4>1 DEF TitleLocks, Changes
    <3>3. CASE k \in S /\ w[k] = v
      <4>1. writes'[o][k] = v /\ table[k] # v
        BY <1>3, <2>3, <3>1, <3>3
      <4>2. ~Changes(p, v)
        BY <1>4, <3>1, <3>3
      <4>3. table[i] = v
        BY <3>1, <4>2 DEF Changes
      <4>4. writes[c][i] = Same /\ i \notin S
        BY <1>1, <1>4, <1>7, <3>1 DEF RowLocks
      <4>5. i # k /\ View(c)[i] = v
        BY <1>6, <3>3, <4>3, <4>4
      <4> QED BY <1>5, <3>1, <3>3, <4>4, <4>5
    <3>4. CASE k \in S /\ w[k] # v
      <4>1. table[k] = v
        BY <1>3, <2>3, <3>1, <3>4
      <4>2. writes[p][k] = Same
        BY <1>4, <3>1, <3>4
      <4>3. k # i /\ View(p)[k] = v /\ View(p)[i] = v
        BY <1>6, <3>1, <4>1, <4>2
      <4> QED BY <1>7, <3>1, <4>3 DEF Distinct
    <3> QED BY <3>2, <3>3, <3>4
  <2> QED BY <2>1, <2>2, <2>3
<1> QED BY <1>8, <1>9, <1>10, <1>11 DEF Isolated

(* Other transactions see a commit of rows and titles that they have not   *)
(* written themselves.                                                     *)
LEMMA LeaveIsolated ==
    ASSUME DbTypeOK, Isolated, NEW t \in Task, NEW normally \in BOOLEAN, Leave(t, normally)
    PROVE  Isolated'
<1> DEFINE c == Current(t)
<1>1. c \in Conn
  BY FrameOfTop DEF Leave
<1>2. \/ table' = View(c) /\ writes' = [writes EXCEPT ![c] = NoWrites]
      \/ table' = table /\ writes' = [writes EXCEPT ![c] = NoWrites]
      \/ table' = table /\ writes' = writes
  BY DEF Leave
<1>3. /\ \A o \in Conn, i \in Ids : View(o)[i] = IF writes[o][i] = Same THEN table[i] ELSE writes[o][i]
      /\ \A o \in Conn, i \in Ids : View(o)'[i] = IF writes'[o][i] = Same THEN table'[i] ELSE writes'[o][i]
  BY DEF View
<1>4. /\ Distinct(table) /\ \A o \in Conn : Distinct(View(o))
      /\ RowLocks /\ TitleLocks
  BY DEF Isolated
<1>5. CASE writes' = [writes EXCEPT ![c] = NoWrites] /\ table' \in {table, View(c)}
  <2>1. /\ \A i \in Ids : writes'[c][i] = Same
        /\ \A o \in Conn \ {c} : writes'[o] = writes[o]
    BY <1>1, <1>5 DEF DbTypeOK, NoWrites
  <2> HIDE DEF c
  <2>2. \A i \in Ids : writes[c][i] = Same => table'[i] = table[i]
    BY <1>1, <1>3, <1>5
  <2>3. Distinct(table)'
    BY <1>1, <1>4, <1>5 DEF Distinct
  <2>4. ASSUME NEW o \in Conn PROVE Distinct(View(o))'
    <3>1. CASE o = c
      BY <1>3, <2>1, <2>3, <3>1 DEF Distinct
    <3>2. CASE o # c /\ table' = table
      <4>1. \A i \in Ids : View(o)'[i] = View(o)[i]
        BY <1>3, <2>1, <3>2
      <4> QED BY <1>4, <4>1 DEF Distinct
    <3>3. CASE o # c /\ table' = View(c)
      <4> SUFFICES ASSUME NEW i \in Ids, NEW j \in Ids, i # j, View(o)'[i] = View(o)'[j],
                          View(o)'[i] # None
                   PROVE  FALSE
        BY DEF Distinct
      <4>1. \A k \in Ids : View(o)'[k] = IF writes[o][k] = Same THEN View(c)[k] ELSE writes[o][k]
        BY <1>3, <2>1, <3>3
      <4>2. ASSUME NEW x \in Ids, NEW y \in Ids, x # y, View(o)'[x] = View(o)'[y],
                   View(o)'[x] # None, writes[o][x] # Same, writes[o][y] = Same
            PROVE  FALSE
        <5> DEFINE v == writes[o][x]
        <5>1. View(c)[y] = v /\ v \notin {Same, None}
          BY <4>1, <4>2
        <5>2. writes[c][x] = Same
          BY <1>1, <1>4, <3>3, <4>2 DEF RowLocks
        <5>3. CASE writes[c][y] = Same
          <6>1. View(o)[x] = v /\ View(o)[y] = v
            BY <1>1, <1>3, <4>2, <5>1, <5>3
          <6> QED BY <1>4, <4>2, <5>1, <6>1 DEF Distinct
        <5>4. CASE writes[c][y] # Same
          <6>1. writes[c][y] = v
            BY <1>1, <1>3, <5>1, <5>4
          <6>2. ~Changes(o, v)
            BY <1>1, <1>4, <3>3, <5>1, <6>1 DEF TitleLocks
          <6>3. table[x] = v
            BY <4>2, <6>2 DEF Changes
          <6>4. View(c)[x] = v
            BY <1>1, <1>3, <5>2, <6>3
          <6> QED BY <1>1, <1>4, <4>2, <5>1, <6>4 DEF Distinct
        <5> QED BY <5>3, <5>4
      <4>3. CASE writes[o][i] = Same /\ writes[o][j] = Same
        BY <1>1, <1>4, <4>1, <4>3 DEF Distinct
      <4>4. CASE writes[o][i] # Same /\ writes[o][j] # Same
        BY <1>3, <1>4, <4>1, <4>4 DEF Distinct
      <4> QED BY <4>2, <4>3, <4>4
    <3> QED BY <1>5, <3>1, <3>2, <3>3
  <2>5. RowLocks'
    BY <1>1, <1>4, <2>1 DEF RowLocks
  <2>6. TitleLocks'
    <3> SUFFICES ASSUME NEW p \in Conn, NEW o \in Conn, NEW i \in Ids, p # o,
                        NEW v, v = writes'[p][i], v \notin {Same, None},
                        NEW k \in Ids, writes'[o][k] # Same,
                        (writes'[o][k] = v) # (table'[k] = v)
                 PROVE  FALSE
      BY DEF TitleLocks, Changes
    <3>1. p # c /\ writes'[p] = writes[p] /\ ~Changes(o, v)
      BY <1>4, <2>1 DEF TitleLocks
    <3>2. \A n \in Ids : writes'[o][n] # Same =>
            writes'[o][n] = writes[o][n] /\ table'[n] = table[n]
      <4>1. \A n \in Ids : writes'[o][n] # Same =>
              o # c /\ writes'[o] = writes[o] /\ writes[c][n] = Same
        BY <1>1, <1>4, <2>1 DEF RowLocks
      <4> QED BY <2>2, <4>1
    <3>3. writes[o][k] # Same /\ (writes[o][k] = v) # (table[k] = v)
      BY <3>2
    <3> QED BY <3>1, <3>3 DEF Changes
  <2> QED BY <2>3, <2>4, <2>5, <2>6 DEF Isolated
<1>6. CASE table' = table /\ writes' = writes
  BY <1>4, <1>6 DEF Isolated, Distinct, View, RowLocks, TitleLocks, Changes
<1> QED BY <1>2, <1>5, <1>6


(* Under any application the titles that are committed, and those that a   *)
(* transaction sees, are unique, and the rows it has written are its own   *)
(* until its block ends.                                                   *)
THEOREM TitlesStayUnique == DbSpec => []Isolated
<1>1. Init => Isolated
  <2> SUFFICES ASSUME Init PROVE Isolated
    OBVIOUS
  <2>1. table = Initial /\ \A c \in Conn, i \in Ids : writes[c][i] = Same
    BY DEF Init, NoWrites
  <2>2. Distinct(table)
    BY <2>1, InitialAssumption DEF Distinct
  <2>3. \A c \in Conn, i \in Ids : View(c)[i] = table[i]
    BY <2>1 DEF View
  <2> QED BY <2>1, <2>2, <2>3 DEF Isolated, Distinct, RowLocks, TitleLocks, Changes
<1>2. DbTypeOK /\ Isolated /\ [DbNext]_dbVars => Isolated'
  <2> SUFFICES ASSUME DbTypeOK, Isolated, [DbNext]_dbVars PROVE Isolated'
    OBVIOUS
  <2>1. ASSUME table' = table, writes' = writes PROVE Isolated'
    BY <2>1 DEF Isolated, Distinct, View, RowLocks, TitleLocks, Changes
  <2>2. ASSUME NEW t \in Task,
               Connection(t) \/ Transaction(t) \/ \E given \in BOOLEAN : EnsureTransaction(t, given)
        PROVE  Isolated'
    BY <2>1, <2>2 DEF Connection, Transaction, EnsureTransaction, Checkout
  <2>3. CASE NoConnection \/ Close \/ UNCHANGED dbVars
    BY <2>1, <2>3 DEF NoConnection, Close, dbVars
  <2> QED BY <2>2, <2>3, ExecuteIsolated, LeaveIsolated DEF DbNext
<1> QED BY <1>1, <1>2, DbTypeCorrect, PTL DEF DbSpec

=============================================================================
