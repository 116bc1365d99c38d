------------------------------ MODULE WsServer ------------------------------
(***************************************************************************)
(* A websocket server: the connections (ws/path.py), the SocketsManager    *)
(* that knows them (ws/manager.py) and the LocalBroker that queues what    *)
(* they publish (tests/example/ws.py), on top of the registry of Channels. *)
(*                                                                         *)
(* Every step of Channels that the server takes is a step here together    *)
(* with what it does to the connected set; the server adds connections,    *)
(* the queue between publish and dispatch, and the shutdown, which runs    *)
(* while handlers and the worker go on.                                    *)
(***************************************************************************)
EXTENDS Channels, Sequences, Naturals

CONSTANT MaxPublished   \* bound on the messages published in a run

ASSUME WsServerAssumption ==
  /\ \E k \in Workers : Workers = {k}   \* LocalBroker.worker
  /\ ~Yields                            \* its subscribe and unsubscribe never suspend
  /\ MaxPublished \in Nat

VARIABLES
  arrived,    \* the websockets whose handshake is done, gone or not
  sockets,    \* SocketsManager.sockets, the connected set
  queue,      \* LocalBroker.messages and its call_later timers, in order
  published,  \* how many messages were published, for the bound
  broker,     \* the phases of LocalBroker.close
  closing,    \* the responses the gather of close_sockets still waits for
  exited      \* the worker, once its task is done

serverVars == <<arrived, sockets, queue, published, broker, closing, exited>>
wsVars == <<vars, serverVars>>

WsInit ==
  /\ InitIdle
  /\ open = {}
  /\ arrived = {}
  /\ sockets = {}
  /\ queue = <<>>
  /\ published = 0
  /\ broker = "serving"
  /\ closing = {}
  /\ exited = {}

-----------------------------------------------------------------------------
(* The connections: WsPathMixin.get                                         *)

\* The handshake is done and the socket joins the connected set.  Nothing keeps
\* a connection out while the server shuts down.
Connect(w) ==
  /\ loop = None
  /\ w \notin arrived
  /\ broker # "closed"
  /\ arrived' = arrived \cup {w}
  /\ open' = open \cup {w}
  /\ sockets' = sockets \cup {w}
  /\ UNCHANGED <<registry, loop, pc, request, dispatch, queue, published, broker, closing, exited>>

\* Mutant: get has no `finally`.
FinallyMissing(w) == UNCHANGED sockets

\* The `finally` of get: a handler that ends leaves the connected set.
Finally(w) == sockets' = IF pc'[w] = "ended" THEN sockets \ {w} ELSE sockets

\* on_message takes a subscribe or unsubscribe request, or goes on with one.
Rpc(w) ==
  /\ w \in arrived
  /\ \/ \E n \in Names, p \in Patterns : Request(w, n, p)
     \/ HandlerStep(w)
  /\ Finally(w)
  /\ UNCHANGED <<arrived, queue, published, broker, closing, exited>>

\* ws_rpc_publish: the broker queues the message.
Publish(w, n, e) ==
  /\ Reads(w)
  /\ n \notin Refused
  /\ published < MaxPublished
  /\ published' = published + 1
  /\ queue' = Append(queue, <<n, e>>)
  /\ UNCHANGED <<vars, arrived, sockets, broker, closing, exited>>

ConnectionLost(w) ==
  /\ Disconnect(w)
  /\ UNCHANGED serverVars

-----------------------------------------------------------------------------
(* The worker: LocalBroker._work                                            *)

\* _stop is set before close_sockets is awaited.
Stopped == broker # "serving"

Idle(k) == pc[k] = "ready" /\ k \notin exited /\ loop = None /\ queue # <<>>

\* A message is taken from the queue and given to channels(channel, body).
Get(k) ==
  /\ Idle(k)
  /\ ~Stopped
  /\ queue' = Tail(queue)
  /\ LET n == Head(queue)[1]
         e == Head(queue)[2]
     IN  \/ Dispatch(k, n, e)
         \/ Audience(n, e) = {} /\ UNCHANGED vars
  /\ UNCHANGED <<arrived, sockets, published, broker, closing, exited>>

\* Whatever it is taken, the worker breaks out of its loop once _stop is set.
Break(k) ==
  /\ Idle(k)
  /\ Stopped
  /\ queue' = Tail(queue)
  /\ exited' = exited \cup {k}
  /\ UNCHANGED <<vars, arrived, sockets, published, broker, closing>>

\* ChannelCallback.__call__ closes a websocket it cannot write to, and close
\* takes it out of the connected set.
WorkerFails(k, c) ==
  /\ DeliveryFails(k, c)
  /\ sockets' = sockets \ {c}
  /\ UNCHANGED <<arrived, queue, published, broker, closing, exited>>

WorkerRuns(k) ==
  /\ \/ \E c \in Sockets : Deliver(k, c)
     \/ GatherReturns(k) \/ DispatchReturns(k)
     \/ SweepNext(k) \/ SweepChannel(k)
     \/ BackendUnsubscribe(k) \/ SweepReturn(k) \/ SweepKeyError(k)
  /\ UNCHANGED serverVars

Work(k) ==
  \/ Get(k) \/ Break(k)
  \/ \E c \in Sockets : WorkerFails(k, c)
  \/ WorkerRuns(k)

-----------------------------------------------------------------------------
(* LocalBroker.close, run by on_shutdown, and SocketsManager.close_sockets  *)

\* Mutant: the worker is not woken up.
ClearSilently ==
  /\ broker' = "joining"
  /\ sockets' = {}
  /\ channels' = [n \in Names |-> None]
  /\ UNCHANGED <<object, backend, open, loop, pc, request, dispatch, arrived, published, exited,
                 queue>>

\* After the gather: the connected set and the registry are cleared, and the
\* worker is woken up.
Clear ==
  /\ broker' = "joining"
  /\ sockets' = {}
  /\ channels' = [n \in Names |-> None]
  /\ queue' = Append(queue, None)
  /\ UNCHANGED <<object, backend, open, loop, pc, request, dispatch, arrived, published, exited>>

\* gather starts response.close() on every socket connected at this moment.  A
\* gather of nothing does not suspend.
CloseStart ==
  /\ broker = "serving"
  /\ loop = None
  /\ closing' = sockets
  /\ \/ /\ sockets # {}
        /\ broker' = "closing"
        /\ UNCHANGED <<vars, arrived, sockets, queue, published, exited>>
     \/ /\ sockets = {}
        /\ Clear

\* One closing handshake is over.
CloseSocket(w) ==
  /\ loop = None
  /\ w \in closing
  /\ closing' = closing \ {w}
  /\ open' = open \ {w}
  /\ UNCHANGED <<registry, loop, pc, request, dispatch,
                 arrived, sockets, queue, published, broker, exited>>

\* They all are: close_sockets returns.
CloseReturn ==
  /\ broker = "closing"
  /\ closing = {}
  /\ loop = None
  /\ Clear
  /\ UNCHANGED closing

\* Mutant: close does not wait for the worker.
JoinAtOnce ==
  /\ broker = "joining"
  /\ loop = None
  /\ broker' = "closed"
  /\ UNCHANGED <<vars, arrived, sockets, queue, published, closing, exited>>

\* await self.worker
Join ==
  /\ broker = "joining"
  /\ loop = None
  /\ exited = Workers
  /\ broker' = "closed"
  /\ UNCHANGED <<vars, arrived, sockets, queue, published, closing, exited>>

WsNext ==
  \/ \E w \in Sockets :
       \/ Connect(w) \/ Rpc(w) \/ ConnectionLost(w) \/ CloseSocket(w)
       \/ \E n \in Names, e \in Events : Publish(w, n, e)
  \/ \E k \in Workers : Work(k)
  \/ CloseStart \/ CloseReturn \/ Join

WsSpec == WsInit /\ [][WsNext]_wsVars

\* The event loop resumes tasks in the order they became ready: a task that is
\* ready again and again gets the loop, however busy the others keep it, which
\* is strong fairness.  The broker's coroutines return, and a write to a
\* websocket ends one way or the other.  A closing handshake is over after at
\* most the timeout of aiohttp.
WsFairness ==
  /\ \A w \in Sockets :
       /\ SF_wsVars(HandlerStep(w) /\ Rpc(w))
       /\ SF_wsVars(CloseSocket(w))
  /\ \A k \in Workers : SF_wsVars(Work(k))
  /\ SF_wsVars(CloseReturn)
  /\ SF_wsVars(Join)

WsFairSpec == WsSpec /\ WsFairness

-----------------------------------------------------------------------------
\* Until the shutdown the connected set is right: a socket that can carry a
\* frame and whose handler is running is in it, so that close_sockets will find
\* it, and it holds no socket whose handler has ended (path.py, get and close).
ConnectedSetIsRight ==
  /\ broker = "serving" => \A w \in open : pc[w] # "ended" => w \in sockets
  /\ \A w \in sockets : pc[w] # "ended"

\* Once close has returned no dispatch is under way: it waited for the worker,
\* so nothing is written to a websocket and no channel is swept after it.
QuietAfterClose ==
  broker = "closed" => \A k \in Workers : pc[k] = "ready" /\ running[k] = {}

\* The worker is never killed, not even by a registry cleared under its feet
\* in the middle of a dispatch (LocalBroker._work, Channels.clear).
WorkerSurvives == \A k \in Workers : pc[k] # "dead"

\* A callback that failed is forgotten by every channel (Channels.__call__).
FailedIsForgotten ==
  \A k \in Workers, c \in Sockets : c \in closed[k] ~> SubsOf(c) = {}

\* A queued message is taken, unless the server is shut down.
MessagesAreTaken == queue # <<>> ~> (queue = <<>> \/ Stopped)

\* The shutdown ends, whatever the clients and the worker are doing.
ShutdownEnds == broker = "closing" ~> broker = "closed"

=============================================================================
