--------------------------- MODULE WsServer_proofs ---------------------------
(***************************************************************************)
(* Theorems about the websocket server, for any number of clients, channel *)
(* names, patterns, events and messages, and a shutdown that may start and *)
(* clear the registry at any moment the event loop is free.                *)
(***************************************************************************)
EXTENDS WsServer, Channels_proofs

\* The server's own part of the invariant: a handler that ended had arrived,
\* the connected set holds sockets that arrived and whose handler runs, only a
\* gather has callbacks to wait for, a worker that left its loop was idle,
\* close returns after every worker has left, and what a worker is given to
\* dispatch is a message.
ServerInv ==
  /\ arrived \subseteq Sockets
  /\ sockets \subseteq arrived
  /\ \A w \in Sockets : pc[w] = "ended" => w \in arrived
  /\ \A w \in sockets : pc[w] # "ended"
  /\ \A k \in Workers : running[k] # {} => pc[k] = "gathering"
  /\ \A k \in Workers : k \in exited => pc[k] = "ready"
  /\ broker = "closed" => exited = Workers
  /\ broker = "serving" => queue \in Seq(Names \X Events)

\* Until the shutdown, no socket that can carry a frame is forgotten.
NobodyForgotten ==
  broker = "serving" => \A w \in open : pc[w] # "ended" => w \in sockets

WsInv == LoopInv /\ ServerInv /\ NobodyForgotten /\ WorkerSurvives

-----------------------------------------------------------------------------
\* The only steps of the server that are no step of the registry open or close
\* a socket, or clear the registry while no task holds the loop.
LEMMA WsSteps ==
  ASSUME ServerInv, [WsNext]_wsVars
  PROVE  \/ [Next]_vars
         \/ /\ UNCHANGED <<registry, loop, pc, request, dispatch>>
            /\ open' \subseteq open \cup Sockets
         \/ /\ loop = None
            /\ channels' = [n \in Names |-> None]
            /\ UNCHANGED <<object, backend, open, loop, pc, request, dispatch>>
<1>1. ASSUME NEW w \in Sockets, Connect(w) \/ CloseSocket(w)
      PROVE  /\ UNCHANGED <<registry, loop, pc, request, dispatch>>
             /\ open' \subseteq open \cup Sockets
  BY <1>1 DEF Connect, CloseSocket
<1>2. ASSUME NEW w \in Sockets,
             \/ Rpc(w) \/ ConnectionLost(w)
             \/ \E n \in Names, e \in Events : Publish(w, n, e)
      PROVE  [Next]_vars
  BY <1>2 DEF Rpc, ConnectionLost, Publish, Next
<1>3. ASSUME NEW k \in Workers, Get(k) \/ Break(k) \/ WorkerRuns(k)
                                \/ \E c \in Sockets : WorkerFails(k, c)
      PROVE  [Next]_vars
  <2>1. CASE Get(k)
    <3>1. CASE UNCHANGED vars
      BY <3>1
    <3>2. CASE Dispatch(k, Head(queue)[1], Head(queue)[2])
      <4>1. queue \in Seq(Names \X Events) /\ queue # <<>>
        BY <2>1 DEF Get, Idle, Stopped, ServerInv
      <4>2. Head(queue) \in Names \X Events
        BY <4>1
      <4>3. Head(queue)[1] \in Names /\ Head(queue)[2] \in Events
        BY <4>2
      <4>4. QED
        BY <3>2, <4>3 DEF Next
    <3>3. QED
      BY <2>1, <3>1, <3>2 DEF Get
  <2>2. CASE Break(k)
    BY <2>2 DEF Break
  <2>3. CASE WorkerRuns(k) \/ \E c \in Sockets : WorkerFails(k, c)
    BY <2>3 DEF WorkerRuns, WorkerFails, WorkerStep, Next
  <2>4. QED
    BY <1>3, <2>1, <2>2, <2>3
<1>4. ASSUME CloseStart \/ CloseReturn
      PROVE  \/ UNCHANGED vars
             \/ /\ loop = None
                /\ channels' = [n \in Names |-> None]
                /\ UNCHANGED <<object, backend, open, loop, pc, request, dispatch>>
  BY <1>4 DEF CloseStart, CloseReturn, Clear
<1>5. ASSUME Join
      PROVE  UNCHANGED vars
  BY <1>5 DEF Join
<1>6. CASE UNCHANGED wsVars
  BY <1>6 DEF wsVars
<1>7. QED
  BY <1>1, <1>2, <1>3, <1>4, <1>5, <1>6 DEF WsNext, Work

\* What TypeOK says of the tasks.
LEMMA WsTyped ==
  ASSUME TypeOK
  PROVE  /\ pc \in [Tasks -> SocketPc \cup WorkerPc]
         /\ running \in [Workers -> SUBSET Sockets]
         /\ open \subseteq Sockets
         /\ \A w \in Sockets : pc[w] \in SocketPc /\ w \in Tasks /\ w \notin Workers
         /\ \A k \in Workers : pc[k] \in WorkerPc /\ k \in Tasks /\ k \notin Sockets
  BY ChannelsAssumption DEF TypeOK, TaskType, DispatchType, Tasks

\* The types and the invariant of the tasks survive the shutdown: it clears the
\* registry only while nobody is in the middle of a request or of a sweep.
LEMMA WsTypeStep ==
  ASSUME TypeOK, ServerInv, [WsNext]_wsVars
  PROVE  TypeOK'
<1>1. CASE [Next]_vars
  BY <1>1, TypeStep
<1>2. CASE /\ UNCHANGED <<registry, loop, pc, request, dispatch>>
           /\ open' \subseteq open \cup Sockets
  BY <1>2 DEF TypeOK, RegistryType, TaskType, DispatchType, registry, request, dispatch
<1>3. CASE /\ loop = None
           /\ channels' = [n \in Names |-> None]
           /\ UNCHANGED <<object, backend, open, loop, pc, request, dispatch>>
  BY <1>3 DEF TypeOK, RegistryType, TaskType, DispatchType, request, dispatch
<1>4. QED
  BY <1>1, <1>2, <1>3, WsSteps

\* What holds of the tasks in the registry alone holds under the server.
LEMMA WsLoopStep ==
  ASSUME TypeOK, LoopInv, ServerInv, [WsNext]_wsVars
  PROVE  LoopInv'
<1>1. CASE [Next]_vars
  BY <1>1, LoopStep, WsServerAssumption
<1>2. CASE /\ UNCHANGED <<registry, loop, pc, request, dispatch>>
           /\ open' \subseteq open \cup Sockets
  BY <1>2 DEF LoopInv, HoldsTheLoop, SnapshotIsFresh, NameIsAsFound, Registered, ChannelOf,
     registry, request, dispatch
<1>3. CASE /\ loop = None
           /\ channels' = [n \in Names |-> None]
           /\ UNCHANGED <<object, backend, open, loop, pc, request, dispatch>>
  <2>1. UNCHANGED <<loop, pc, target, todo>>
    BY <1>3 DEF request, dispatch
  <2>2. \A t \in Tasks : pc[t] \notin HeldPc
    BY <1>3, ChannelsAssumption DEF LoopInv, HoldsTheLoop
  <2>3. \A k \in Workers, n \in Names, o \in Objects : <<n, o>> \notin todo[k]
    BY <1>3, ChannelsAssumption DEF LoopInv, SnapshotIsFresh, Tasks
  <2>4. QED
    BY <2>1, <2>2, <2>3 DEF LoopInv, HoldsTheLoop, SnapshotIsFresh, NameIsAsFound, HeldPc,
       SubscribePc, UnsubscribePc
<1>4. QED
  BY <1>1, <1>2, <1>3, WsSteps

\* A step of a handler moves that handler only, and is taken by one that runs.
LEMMA RpcStep ==
  ASSUME TypeOK, NEW w \in Sockets, Rpc(w)
  PROVE  /\ \A u \in Tasks \ {w} : pc'[u] = pc[u]
         /\ UNCHANGED running
         /\ open' \subseteq open
         /\ pc[w] # "ended"
<1> USE WsTyped
<1>1. ASSUME NEW n \in Names, NEW p \in Patterns, Request(w, n, p)
      PROVE  /\ \A u \in Tasks \ {w} : pc'[u] = pc[u]
             /\ UNCHANGED running
             /\ open' \subseteq open
             /\ pc[w] # "ended"
  BY <1>1 DEF Request, RegisterExisting, RegisterBadPattern, RegisterMissing, UnregisterCall,
     RemoveChannel, UnregisterBadPattern, Crash, Goto, Reads, dispatch
<1>2. ASSUME HandlerStep(w)
      PROVE  /\ \A u \in Tasks \ {w} : pc'[u] = pc[u]
             /\ UNCHANGED running
             /\ open' \subseteq open
             /\ pc[w] # "ended"
  BY <1>2 DEF HandlerStep, BackendSubscribe, BackendRefuses, RegisterResume, RegisterReturn,
     BackendUnsubscribe, UnregisterReturn, Pop, UnregisterKeyError, KeyError, Leave, Crash,
     Goto, dispatch
<1>3. QED
  BY <1>1, <1>2 DEF Rpc

\* A step of a worker moves that worker only.
LEMMA WorkStep ==
  ASSUME TypeOK, NEW k \in Workers, Work(k)
  PROVE  /\ \A u \in Tasks \ {k} : pc'[u] = pc[u]
         /\ \A j \in Workers \ {k} : running'[j] = running[j]
         /\ open' \subseteq open
         /\ sockets' \subseteq sockets
         /\ \A w \in open' : w \in sockets => w \in sockets'
         /\ UNCHANGED <<arrived, broker>>
<1> USE WsTyped
<1>1. CASE Get(k)
  BY <1>1 DEF Get, Dispatch, Goto, vars, dispatch
<1>2. CASE Break(k)
  BY <1>2 DEF Break, vars, dispatch
<1>3. CASE \E c \in Sockets : WorkerFails(k, c)
  BY <1>3 DEF WorkerFails, DeliveryFails
<1>4. CASE WorkerRuns(k)
  BY <1>4 DEF WorkerRuns, Deliver, GatherReturns, DispatchReturns, SweepNext, SweepChannel,
     RemoveChannel, BackendUnsubscribe, SweepReturn, SweepKeyError, Goto, serverVars, dispatch
<1>5. QED
  BY <1>1, <1>2, <1>3, <1>4 DEF Work

\* A worker waits only in a gather, leaves its loop only when it is idle, and is
\* never killed by a name that is gone.
LEMMA WorkerStays ==
  ASSUME TypeOK, LoopInv, ServerInv, WorkerSurvives, NEW k \in Workers, Work(k)
  PROVE  /\ running'[k] # {} => pc'[k] = "gathering"
         /\ k \in exited' => pc'[k] = "ready"
         /\ pc'[k] # "dead"
         /\ \A j \in Workers \ {k} : j \in exited' => j \in exited
<1> USE WsTyped
<1>0. /\ running[k] # {} => pc[k] = "gathering"
      /\ k \in exited => pc[k] = "ready"
      /\ pc[k] # "dead"
  BY DEF ServerInv, WorkerSurvives
<1>1. CASE Get(k)
  BY <1>0, <1>1 DEF Get, Idle, Dispatch, Goto, vars, dispatch
<1>2. CASE Break(k)
  BY <1>0, <1>2 DEF Break, Idle, vars, dispatch
<1>3. ASSUME NEW c \in Sockets, Deliver(k, c) \/ DeliveryFails(k, c), UNCHANGED exited
      PROVE  /\ running'[k] # {} => pc'[k] = "gathering"
             /\ k \in exited' => pc'[k] = "ready"
             /\ pc'[k] # "dead"
  BY <1>0, <1>3 DEF Deliver, DeliveryFails
<1>4. CASE GatherReturns(k) /\ UNCHANGED exited
  BY <1>0, <1>4 DEF GatherReturns, Goto
<1>5. CASE (DispatchReturns(k) \/ SweepNext(k) \/ SweepChannel(k)) /\ UNCHANGED exited
  <2>1. pc[k] = "sweeping" /\ running[k] = {} /\ UNCHANGED running
    BY <1>0, <1>5 DEF DispatchReturns, SweepNext, SweepChannel
  <2>2. pc'[k] \in {"ready", "sweeping", "unsubscribing"}
    BY <1>5, <2>1 DEF DispatchReturns, SweepNext, SweepChannel, RemoveChannel, Goto
  <2>3. QED
    BY <1>0, <1>5, <2>1, <2>2
<1>6. CASE (BackendUnsubscribe(k) \/ SweepReturn(k)) /\ UNCHANGED exited
  <2>1. pc[k] \in UnsubscribePc /\ running[k] = {} /\ UNCHANGED running
    BY <1>0, <1>6 DEF BackendUnsubscribe, SweepReturn, Pop, UnsubscribePc, dispatch
  <2>2. pc'[k] \in {"unsubscribed", "sweeping"}
    BY <1>6 DEF BackendUnsubscribe, SweepReturn, Goto
  <2>3. QED
    BY <1>0, <1>6, <2>1, <2>2 DEF UnsubscribePc
<1>7. CASE SweepKeyError(k)
  BY <1>7 DEF SweepKeyError, KeyError, LoopInv, NameIsAsFound, UnsubscribePc
<1>8. CASE WorkerRuns(k)
  BY <1>3, <1>4, <1>5, <1>6, <1>7, <1>8 DEF WorkerRuns, serverVars
<1>9. CASE \E c \in Sockets : WorkerFails(k, c)
  BY <1>3, <1>9 DEF WorkerFails
<1>10. QED
  BY <1>1, <1>2, <1>8, <1>9 DEF Work

\* Every step keeps the server's own part of the invariant: who is connected, what
\* the shutdown has ended, and what is written after it.
LEMMA ServerStep ==
  ASSUME TypeOK, WsInv, [WsNext]_wsVars
  PROVE  ServerInv' /\ NobodyForgotten' /\ WorkerSurvives'
<1> USE WsTyped DEF WsInv
<1>1. ASSUME NEW w \in Sockets, Connect(w)
      PROVE  ServerInv' /\ NobodyForgotten' /\ WorkerSurvives'
  BY <1>1 DEF Connect, dispatch, ServerInv, NobodyForgotten, WorkerSurvives
<1>2. ASSUME NEW w \in Sockets, Rpc(w)
      PROVE  ServerInv' /\ NobodyForgotten' /\ WorkerSurvives'
  <2>1. /\ w \in arrived
        /\ sockets' = IF pc'[w] = "ended" THEN sockets \ {w} ELSE sockets
        /\ UNCHANGED <<arrived, queue, broker, exited>>
    BY <1>2 DEF Rpc, Finally
  <2>2. /\ \A u \in Tasks \ {w} : pc'[u] = pc[u]
        /\ UNCHANGED running
        /\ open' \subseteq open
        /\ pc[w] # "ended"
    BY <1>2, RpcStep
  <2>3. QED
    BY <2>1, <2>2 DEF ServerInv, NobodyForgotten, WorkerSurvives
<1>3. ASSUME NEW w \in Sockets, ConnectionLost(w) \/ CloseSocket(w)
      PROVE  ServerInv' /\ NobodyForgotten' /\ WorkerSurvives'
  <2>1. /\ UNCHANGED <<pc, running, arrived, sockets, queue, broker, exited>>
        /\ open' \subseteq open
    BY <1>3 DEF ConnectionLost, Disconnect, CloseSocket, serverVars, dispatch
  <2>2. QED
    BY <2>1 DEF ServerInv, NobodyForgotten, WorkerSurvives
<1>4. ASSUME NEW w \in Sockets, NEW n \in Names, NEW e \in Events, Publish(w, n, e)
      PROVE  ServerInv' /\ NobodyForgotten' /\ WorkerSurvives'
  <2>1. /\ UNCHANGED <<pc, running, open, arrived, sockets, broker, exited>>
        /\ queue' = Append(queue, <<n, e>>)
    BY <1>4 DEF Publish, vars, dispatch
  <2>2. queue \in Seq(Names \X Events) => queue' \in Seq(Names \X Events)
    BY <2>1
  <2>3. QED
    BY <2>1, <2>2 DEF ServerInv, NobodyForgotten, WorkerSurvives
<1>5. ASSUME NEW k \in Workers, Work(k)
      PROVE  ServerInv' /\ NobodyForgotten' /\ WorkerSurvives'
  <2>1. /\ \A u \in Tasks \ {k} : pc'[u] = pc[u]
        /\ \A j \in Workers \ {k} : running'[j] = running[j]
        /\ open' \subseteq open
        /\ sockets' \subseteq sockets
        /\ \A w \in open' : w \in sockets => w \in sockets'
        /\ UNCHANGED <<arrived, broker>>
    BY <1>5, WorkStep
  <2>2. /\ running'[k] # {} => pc'[k] = "gathering"
        /\ k \in exited' => pc'[k] = "ready"
        /\ pc'[k] # "dead"
        /\ \A j \in Workers \ {k} : j \in exited' => j \in exited
    BY <1>5, WorkerStays
  <2>3. \A w \in Sockets : pc'[w] = pc[w]
    BY <2>1
  <2>4. broker' = "serving" => queue' \in Seq(Names \X Events)
    <3>1. CASE UNCHANGED queue
      BY <2>1, <3>1 DEF ServerInv
    <3>2. CASE queue' = Tail(queue) /\ queue # <<>>
      BY <2>1, <3>2 DEF ServerInv
    <3>3. QED
      BY <1>5, <3>1, <3>2 DEF Work, Get, Break, Idle, WorkerFails, WorkerRuns, serverVars
  <2>5. broker' = "closed" => exited' = Workers
    BY <1>5, <2>1 DEF Work, Get, Break, WorkerFails, WorkerRuns, serverVars, ServerInv, Idle
  <2>6. ServerInv'
    BY <2>1, <2>2, <2>3, <2>4, <2>5 DEF ServerInv
  <2>7. NobodyForgotten'
    BY <2>1, <2>3 DEF NobodyForgotten
  <2>8. WorkerSurvives'
    BY <2>1, <2>2 DEF WorkerSurvives
  <2>9. QED
    BY <2>6, <2>7, <2>8
<1>6. ASSUME CloseStart \/ CloseReturn \/ Join
      PROVE  ServerInv' /\ NobodyForgotten' /\ WorkerSurvives'
  <2>1. UNCHANGED <<pc, running, arrived, exited>>
    BY <1>6 DEF CloseStart, CloseReturn, Join, Clear, vars, dispatch
  <2>2. /\ sockets' \subseteq sockets
        /\ broker' # "serving"
        /\ broker' = "closed" => exited = Workers
    BY <1>6 DEF CloseStart, CloseReturn, Join, Clear
  <2>3. QED
    BY <2>1, <2>2 DEF ServerInv, NobodyForgotten, WorkerSurvives
<1>7. CASE UNCHANGED wsVars
  BY <1>7 DEF wsVars, vars, serverVars, dispatch, ServerInv, NobodyForgotten, WorkerSurvives
<1>8. QED
  BY <1>1, <1>2, <1>3, <1>4, <1>5, <1>6, <1>7 DEF WsNext

\* The invariant of the server is inductive.
THEOREM WsInvariant == WsSpec => [](TypeOK /\ WsInv)
<1>1. WsInit => TypeOK /\ WsInv
  <2> SUFFICES ASSUME WsInit
               PROVE  TypeOK /\ WsInv
    OBVIOUS
  <2> USE ChannelsAssumption DEF WsInit, InitIdle, Tasks
  <2>1. TypeOK
    BY NewChannelType DEF TypeOK, RegistryType, TaskType, DispatchType, SocketPc, WorkerPc,
       SubscribePc, UnsubscribePc
  <2>2. LoopInv
    BY DEF LoopInv, HoldsTheLoop, SnapshotIsFresh, NameIsAsFound, HeldPc, SubscribePc,
       UnsubscribePc
  <2>3. ServerInv /\ NobodyForgotten /\ WorkerSurvives
    BY DEF ServerInv, NobodyForgotten, WorkerSurvives
  <2>4. QED
    BY <2>1, <2>2, <2>3 DEF WsInv
<1>2. TypeOK /\ WsInv /\ [WsNext]_wsVars => (TypeOK /\ WsInv)'
  BY WsTypeStep, WsLoopStep, ServerStep DEF WsInv
<1>3. QED
  BY <1>1, <1>2, PTL DEF WsSpec

\* Until the shutdown the connected set holds every socket that can carry a frame
\* and whose handler runs, and at no time one whose handler has ended.
THEOREM ConnectedSet == WsSpec => []ConnectedSetIsRight
<1>1. WsInv => ConnectedSetIsRight
  BY DEF WsInv, ServerInv, NobodyForgotten, ConnectedSetIsRight
<1>2. QED
  BY <1>1, WsInvariant, PTL

\* When close has returned every worker is idle: nothing is written to a
\* websocket and no channel is swept after it.
THEOREM CloseIsQuiet == WsSpec => []QuietAfterClose
<1>1. TypeOK /\ WsInv => QuietAfterClose
  BY WsTyped DEF WsInv, ServerInv, QuietAfterClose
<1>2. QED
  BY <1>1, WsInvariant, PTL

\* The worker is never killed, whatever the shutdown takes out of the registry.
THEOREM WorkerIsNeverKilled == WsSpec => []WorkerSurvives
<1>1. WsInv => WorkerSurvives
  BY DEF WsInv
<1>2. QED
  BY <1>1, WsInvariant, PTL

=============================================================================
