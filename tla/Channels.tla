------------------------------ MODULE Channels ------------------------------
(***************************************************************************)
(* openapi.ws.channels.Channels: the registry of channels, shared by the   *)
(* RPC handlers of all the websockets and by the tasks that dispatch the   *)
(* messages of the broker.                                                 *)
(*                                                                         *)
(* Everything runs on one asyncio event loop, so a handler runs alone      *)
(* between two suspension points.  An action below is the stretch of code  *)
(* between two awaits.  `loop` is the task that holds the event loop when  *)
(* it has passed an await without being suspended, None otherwise.         *)
(*                                                                         *)
(* An await that suspends may let any other task run.  `Suspends` is also   *)
(* written where the code may find its next input ready and go on at once: *)
(* that is the case where no other task runs in between.                   *)
(*                                                                         *)
(* Whether an await of the broker (SocketsManager.subscribe, unsubscribe,  *)
(* subscribe_to_event) suspends is up to the broker: the ones of the       *)
(* repository never do (Yields = FALSE), one that talks to a server does   *)
(* (Yields = TRUE).  The broker itself is external: it is modelled by the  *)
(* set of channels it is subscribed to.                                    *)
(***************************************************************************)
EXTENDS Channel

CONSTANTS Names,          \* channel names
          Refused,        \* names for which the broker raises CannotSubscribe
          BadPatterns,    \* event names whose pattern does not compile
          Untranslatable, \* event names that redis_to_py_pattern rejects
          Events,         \* event names of published messages
          Matches,        \* Matches[e]: the patterns that match event e
          Workers,        \* tasks that call channels(name, message)
          Objects,        \* identities of the Channel objects of a name
          Yields,         \* do the broker's coroutines suspend their caller?
          None            \* Python's None

Tasks == Sockets \cup Workers

ASSUME ChannelsAssumption ==
  /\ Refused \subseteq Names
  /\ Untranslatable \subseteq BadPatterns
  /\ BadPatterns \subseteq Patterns
  /\ Matches \in [Events -> SUBSET (Patterns \ BadPatterns)]
  /\ Yields \in BOOLEAN
  /\ Sockets \cap Workers = {}
  /\ None \notin Tasks \cup Names \cup Patterns \cup Objects

VARIABLES
  channels,  \* Channels._channels: the object registered under each name
  object,    \* object[n][o]: the Channel object o, created for name n
  backend,   \* the channel names the broker is subscribed to
  open,      \* the websockets that can still carry a frame
  loop,      \* the task that holds the event loop, or None
  pc,        \* where each task is
  target,    \* the channel name a task is subscribing or unsubscribing
  pattern,   \* the event pattern of a socket's register call
  running,   \* callbacks a worker's gather still waits for
  closed,    \* callbacks that raised: what Channel.__call__ returns
  left,      \* callbacks of `closed` still to be swept
  current,   \* `websocket`, the callback being swept
  todo       \* the rest of the snapshot `tuple(self._channels.items())`

registry == <<channels, object, backend>>
request  == <<target, pattern>>
dispatch == <<running, closed, left, current, todo>>
vars     == <<registry, open, loop, pc, request, dispatch>>

\* A task at one of these labels knows which channel it is about.
SubscribePc   == {"subscribing", "subscribed"}
UnsubscribePc == {"unsubscribing", "unsubscribed"}

SocketPc == SubscribePc \cup UnsubscribePc \cup {"ready", "hooking", "ended"}
WorkerPc == UnsubscribePc \cup {"ready", "gathering", "sweeping", "dead"}

RegistryType ==
  /\ channels \in [Names -> Objects \cup {None}]
  /\ object \in [Names -> [Objects -> Channel]]
  /\ backend \subseteq Names

TaskType ==
  /\ open \subseteq Sockets
  /\ loop \in Tasks \cup {None}
  /\ pc \in [Tasks -> SocketPc \cup WorkerPc]
  /\ \A w \in Sockets : pc[w] \in SocketPc
  /\ \A k \in Workers : pc[k] \in WorkerPc
  /\ target \in [Tasks -> Names \cup {None}]
  /\ pattern \in [Sockets -> Patterns \cup {None}]
  /\ \A t \in Tasks : pc[t] \in SubscribePc \cup UnsubscribePc => target[t] \in Names
  /\ \A w \in Sockets : pc[w] \in SubscribePc => pattern[w] \in Patterns

DispatchType ==
  /\ running \in [Workers -> SUBSET Sockets]
  /\ closed \in [Workers -> SUBSET Sockets]
  /\ left \in [Workers -> SUBSET Sockets]
  /\ current \in [Workers -> Sockets \cup {None}]
  /\ todo \in [Workers -> SUBSET (Names \X Objects)]

TypeOK == RegistryType /\ TaskType /\ DispatchType

-----------------------------------------------------------------------------
\* get: the channel is in the registry.
Registered(n) == channels[n] # None

\* The Channel object registered under n, when there is one.
ChannelOf(n) == object[n][channels[n]]

\* Registered(n) and truthy: the channel has an event.
Active(n) == Registered(n) /\ ~IsEmpty(ChannelOf(n))

\* An identity for a new Channel object that nothing refers to.
Fresh(n) == {o \in Objects : o # channels[n] /\ \A k \in Workers : <<n, o>> \notin todo[k]}

\* Task t may run: it holds the loop, or the loop is free to resume it.
Runs(t) == loop \in {None, t}

\* Mutant: the broker suspends its caller, whatever Yields says.
AwaitsElsewhere(t) == loop' = None

\* t awaits a coroutine of the broker.
Awaits(t) == loop' = IF Yields THEN None ELSE t

\* t awaits something that suspends it, or ends.
Suspends == loop' = None

Goto(t, label) == pc' = [pc EXCEPT ![t] = label]

\* No channel, and every task idle.
InitIdle ==
  /\ channels = [n \in Names |-> None]
  /\ object = [n \in Names |-> [o \in Objects |-> NewChannel]]
  /\ backend = {}
  /\ loop = None
  /\ pc = [t \in Tasks |-> "ready"]
  /\ target = [t \in Tasks |-> None]
  /\ pattern = [w \in Sockets |-> None]
  /\ running = [k \in Workers |-> {}]
  /\ closed = [k \in Workers |-> {}]
  /\ left = [k \in Workers |-> {}]
  /\ current = [k \in Workers |-> None]
  /\ todo = [k \in Workers |-> {}]

Init == InitIdle /\ open = Sockets

-----------------------------------------------------------------------------
(* An exception that is no protocol error leaves on_message and get: the    *)
(* handler ends and aiohttp drops the connection.                           *)
Crash(w) ==
  /\ Goto(w, "ended")
  /\ open' = open \ {w}
  /\ target' = [target EXCEPT ![w] = None]
  /\ pattern' = [pattern EXCEPT ![w] = None]
  /\ Suspends

\* A request is taken from an open websocket whose handler is idle.
Reads(w) == pc[w] = "ready" /\ w \in open /\ loop = None

-----------------------------------------------------------------------------
(* Channels.register, called by ws_rpc_subscribe                            *)

\* The channel exists: register on it, then await subscribe_to_event.
RegisterExisting(w, n, p) ==
  /\ Reads(w)
  /\ Registered(n)
  /\ p \notin BadPatterns
  /\ object' = [object EXCEPT ![n][channels[n]] = Register(@, p, w)]
  /\ Goto(w, "hooking")
  /\ Awaits(w)
  /\ UNCHANGED <<channels, backend, open, request, dispatch>>

\* The channel exists but the pattern cannot be compiled.
RegisterBadPattern(w, n, p) ==
  /\ Reads(w)
  /\ Registered(n)
  /\ p \in BadPatterns
  /\ Crash(w)
  /\ UNCHANGED <<registry, dispatch>>

\* The channel does not exist: await sockets.subscribe.
RegisterMissing(w, n, p) ==
  /\ Reads(w)
  /\ ~Registered(n)
  /\ target' = [target EXCEPT ![w] = n]
  /\ pattern' = [pattern EXCEPT ![w] = p]
  /\ Goto(w, "subscribing")
  /\ Awaits(w)
  /\ UNCHANGED <<registry, open, dispatch>>

\* The broker subscribes to the channel.
BackendSubscribe(w) ==
  /\ pc[w] = "subscribing"
  /\ target[w] \notin Refused
  /\ backend' = backend \cup {target[w]}
  /\ Goto(w, "subscribed")
  /\ UNCHANGED <<channels, object, open, loop, request, dispatch>>

\* The broker raises CannotSubscribe: the client gets "Invalid channel".
BackendRefuses(w) ==
  /\ pc[w] = "subscribing"
  /\ target[w] \in Refused
  /\ Runs(w)
  /\ Goto(w, "ready")
  /\ target' = [target EXCEPT ![w] = None]
  /\ pattern' = [pattern EXCEPT ![w] = None]
  /\ Suspends
  /\ UNCHANGED <<registry, open, dispatch>>

\* Back from sockets.subscribe: a new Channel is stored under the name, over
\* whatever is there by now, and only then is the pattern compiled.
RegisterResume(w) ==
  /\ pc[w] = "subscribed"
  /\ Runs(w)
  /\ LET n == target[w]
         p == pattern[w]
     IN  \E o \in Fresh(n) :
           /\ channels' = [channels EXCEPT ![n] = o]
           /\ \/ /\ p \notin BadPatterns
                 /\ object' = [object EXCEPT ![n][o] = Register(NewChannel, p, w)]
                 /\ Goto(w, "hooking")
                 /\ target' = [target EXCEPT ![w] = None]
                 /\ pattern' = [pattern EXCEPT ![w] = None]
                 /\ Awaits(w)
                 /\ UNCHANGED open
              \/ /\ p \in BadPatterns
                 /\ object' = [object EXCEPT ![n][o] = NewChannel]
                 /\ Crash(w)
  /\ UNCHANGED <<backend, dispatch>>

\* Back from subscribe_to_event: the handler replies and reads on.
RegisterReturn(w) ==
  /\ pc[w] = "hooking"
  /\ Runs(w)
  /\ Goto(w, "ready")
  /\ Suspends
  /\ UNCHANGED <<registry, open, request, dispatch>>

-----------------------------------------------------------------------------
(* Channels.unregister, called by ws_rpc_unsubscribe                        *)

\* Mutants: the broker is not told; the channel is not removed.
RemoveSilently(t, n) ==
  /\ target' = [target EXCEPT ![t] = n]
  /\ Goto(t, "unsubscribed")
  /\ Awaits(t)

RemoveNever(t, n) == Suspends /\ UNCHANGED <<pc, target>>

\* _maybe_remove_channel, on a channel without events: await
\* sockets.unsubscribe before the name is popped.
RemoveChannel(t, n) ==
  /\ target' = [target EXCEPT ![t] = n]
  /\ Goto(t, "unsubscribing")
  /\ Awaits(t)

\* unregister on a channel that is not registered changes nothing: the client
\* gets "Invalid channel".  Otherwise the callback is removed, and the channel
\* with it when that was its last one.
UnregisterCall(w, n, p) ==
  /\ Reads(w)
  /\ Registered(n)
  /\ p \notin Untranslatable
  /\ LET ch == Unregister(ChannelOf(n), p, w)
     IN  /\ object' = [object EXCEPT ![n][channels[n]] = ch]
         /\ \/ /\ IsEmpty(ch)
               /\ RemoveChannel(w, n)
            \/ /\ ~IsEmpty(ch)
               /\ Suspends
               /\ UNCHANGED <<pc, target>>
  /\ UNCHANGED <<channels, backend, open, pattern, dispatch>>

UnregisterBadPattern(w, n, p) ==
  /\ Reads(w)
  /\ Registered(n)
  /\ p \in Untranslatable
  /\ Crash(w)
  /\ UNCHANGED <<registry, dispatch>>

\* The broker drops the channel, for a handler or for a sweeping worker.
BackendUnsubscribe(t) ==
  /\ pc[t] = "unsubscribing"
  /\ backend' = backend \ {target[t]}
  /\ Goto(t, "unsubscribed")
  /\ UNCHANGED <<channels, object, open, loop, request, dispatch>>

\* _channels.pop(channel.name)
Pop(t) ==
  /\ pc[t] = "unsubscribed"
  /\ Runs(t)
  /\ Registered(target[t])
  /\ channels' = [channels EXCEPT ![target[t]] = None]
  /\ target' = [target EXCEPT ![t] = None]

\* The name is not there any more: _channels.pop raises KeyError.
KeyError(t) ==
  /\ pc[t] = "unsubscribed"
  /\ Runs(t)
  /\ ~Registered(target[t])

UnregisterReturn(w) ==
  /\ Pop(w)
  /\ Goto(w, "ready")
  /\ Suspends
  /\ UNCHANGED <<object, backend, open, pattern, dispatch>>

UnregisterKeyError(w) ==
  /\ KeyError(w)
  /\ Crash(w)
  /\ UNCHANGED <<registry, dispatch>>

-----------------------------------------------------------------------------
(* Channels.__call__: a worker dispatches a message                         *)

\* Who is sent a message: with no channel or an empty one, nobody.
Audience(n, e) == IF Active(n) THEN Recipients(ChannelOf(n), Matches[e]) ELSE {}

\* The callbacks of the first event that matches are gathered.  With nobody to
\* send the message to the call returns at once and changes nothing.
Dispatch(k, n, e) ==
  /\ pc[k] = "ready"
  /\ loop = None
  /\ Audience(n, e) # {}
  /\ running' = [running EXCEPT ![k] = Audience(n, e)]
  /\ Goto(k, "gathering")
  /\ UNCHANGED <<registry, open, loop, request, closed, left, current, todo>>

\* A callback writes the message to its websocket.
Deliver(k, c) ==
  /\ c \in running[k]
  /\ loop = None
  /\ c \in open
  /\ running' = [running EXCEPT ![k] = @ \ {c}]
  /\ UNCHANGED <<registry, open, loop, pc, request, closed, left, current, todo>>

\* A callback fails, on a lost connection or on the message itself: it closes
\* its websocket and raises, and gather collects it.
DeliveryFails(k, c) ==
  /\ c \in running[k]
  /\ loop = None
  /\ open' = open \ {c}
  /\ running' = [running EXCEPT ![k] = @ \ {c}]
  /\ closed' = [closed EXCEPT ![k] = @ \cup {c}]
  /\ UNCHANGED <<registry, loop, pc, request, left, current, todo>>

\* gather returns the callbacks that failed.
GatherReturns(k) ==
  /\ pc[k] = "gathering"
  /\ running[k] = {}
  /\ Runs(k)
  /\ loop' = k
  /\ Goto(k, "sweeping")
  /\ left' = [left EXCEPT ![k] = closed[k]]
  /\ UNCHANGED <<registry, open, request, running, closed, current, todo>>

\* Mutants: the loop never ends; it ends after the first callback.
NextClosedAgain(k) ==
  \E c \in left[k] : current' = [current EXCEPT ![k] = c] /\ UNCHANGED left

NextClosedOnly(k) ==
  \E c \in left[k] :
    /\ current' = [current EXCEPT ![k] = c]
    /\ left' = [left EXCEPT ![k] = {}]

\* for websocket in closed
NextClosed(k) ==
  \E c \in left[k] :
    /\ current' = [current EXCEPT ![k] = c]
    /\ left' = [left EXCEPT ![k] = @ \ {c}]

\* Mutant: names that are gone are in the snapshot.
SnapshotOfAllNames == {<<n, channels[n]>> : n \in Names}

\* tuple(self._channels.items()).  In which order it lists the channels makes
\* no difference.
Snapshot == {<<n, channels[n]>> : n \in {m \in Names : Registered(m)}}

\* The next callback is swept from the channels registered at this moment.
SweepNext(k) ==
  /\ pc[k] = "sweeping"
  /\ Runs(k)
  /\ todo[k] = {}
  /\ NextClosed(k)
  /\ todo' = [todo EXCEPT ![k] = Snapshot]
  /\ loop' = k
  /\ UNCHANGED <<registry, open, pc, request, running, closed>>

\* for channel_name, channel in the snapshot: the callback is removed, and
\* the channel when it has no event left.
SweepChannel(k) ==
  /\ pc[k] = "sweeping"
  /\ Runs(k)
  /\ \E n \in Names, o \in Objects :
       /\ <<n, o>> \in todo[k]
       /\ todo' = [todo EXCEPT ![k] = @ \ {<<n, o>>}]
       /\ LET ch == RemoveCallback(object[n][o], current[k])
          IN  /\ object' = [object EXCEPT ![n][o] = ch]
              /\ \/ /\ IsEmpty(ch)
                    /\ RemoveChannel(k, n)
                 \/ /\ ~IsEmpty(ch)
                    /\ loop' = k
                    /\ UNCHANGED <<pc, target>>
  /\ UNCHANGED <<channels, backend, open, pattern, running, closed, left, current>>

SweepReturn(k) ==
  /\ Pop(k)
  /\ Goto(k, "sweeping")
  /\ loop' = k
  /\ UNCHANGED <<object, backend, open, pattern, dispatch>>

\* KeyError leaves __call__ and ends the task that called it.
SweepKeyError(k) ==
  /\ KeyError(k)
  /\ Goto(k, "dead")
  /\ Suspends
  /\ target' = [target EXCEPT ![k] = None]
  /\ closed' = [closed EXCEPT ![k] = {}]
  /\ left' = [left EXCEPT ![k] = {}]
  /\ current' = [current EXCEPT ![k] = None]
  /\ todo' = [todo EXCEPT ![k] = {}]
  /\ UNCHANGED <<registry, open, pattern, running>>

\* Every callback of `closed` is swept: the worker is free again.
DispatchReturns(k) ==
  /\ pc[k] = "sweeping"
  /\ Runs(k)
  /\ left[k] = {}
  /\ todo[k] = {}
  /\ Goto(k, "ready")
  /\ Suspends
  /\ closed' = [closed EXCEPT ![k] = {}]
  /\ current' = [current EXCEPT ![k] = None]
  /\ UNCHANGED <<registry, open, request, running, left, todo>>

-----------------------------------------------------------------------------
\* The connection is lost.  The handler finds out when it reads again; the
\* callbacks of the socket stay where they are.
Disconnect(w) ==
  /\ loop = None
  /\ w \in open
  /\ open' = open \ {w}
  /\ UNCHANGED <<registry, loop, pc, request, dispatch>>

\* `async for msg in response` ends and get returns.
Leave(w) ==
  /\ pc[w] = "ready"
  /\ loop = None
  /\ w \notin open
  /\ Goto(w, "ended")
  /\ UNCHANGED <<registry, open, loop, request, dispatch>>

HandlerStep(w) ==
  \/ BackendSubscribe(w)
  \/ BackendRefuses(w)
  \/ RegisterResume(w)
  \/ RegisterReturn(w)
  \/ BackendUnsubscribe(w)
  \/ UnregisterReturn(w)
  \/ UnregisterKeyError(w)
  \/ Leave(w)

WorkerStep(k) ==
  \/ \E c \in Sockets : Deliver(k, c) \/ DeliveryFails(k, c)
  \/ GatherReturns(k)
  \/ SweepNext(k)
  \/ SweepChannel(k)
  \/ BackendUnsubscribe(k)
  \/ SweepReturn(k)
  \/ SweepKeyError(k)
  \/ DispatchReturns(k)

Request(w, n, p) ==
  \/ RegisterExisting(w, n, p)
  \/ RegisterBadPattern(w, n, p)
  \/ RegisterMissing(w, n, p)
  \/ UnregisterCall(w, n, p)
  \/ UnregisterBadPattern(w, n, p)

Next ==
  \/ \E w \in Sockets :
       \/ \E n \in Names, p \in Patterns : Request(w, n, p)
       \/ HandlerStep(w)
       \/ Disconnect(w)
  \/ \E k \in Workers :
       \/ \E n \in Names, e \in Events : Dispatch(k, n, e)
       \/ WorkerStep(k)

Spec == Init /\ [][Next]_vars

-----------------------------------------------------------------------------
\* What the clients can see: who is subscribed to what.
SubsOf(w) == {s \in Names \X Patterns :
                Registered(s[1]) /\ s[2] \in Subscribed(ChannelOf(s[1]), w)}

Subs == {s \in Sockets \X Names \X Patterns : <<s[2], s[3]>> \in SubsOf(s[1])}

\* Every channel the code ever made keeps an event only while somebody is
\* registered with it, and its events in the order they came (channel.py).
ChannelsOK ==
  \A n \in Names, o \in Objects :
    NoEmptyEvent(object[n][o]) /\ InsertionOrder(object[n][o])

\* Whenever the event loop is free the broker is subscribed to exactly the
\* registered channels: a subscription never leaks and a registered channel is
\* never deaf (channels.py, register and _maybe_remove_channel).
RegistryMatchesBackend ==
  loop = None => \A n \in Names : Registered(n) <=> n \in backend

\* The name a task is about to pop is in the registry, so _maybe_remove_channel
\* never raises KeyError ("Safely unregister a callback").
NoKeyError ==
  \A t \in Tasks : pc[t] = "unsubscribed" => Registered(target[t])

\* A registered channel without events is one that some task is unsubscribing:
\* no empty channel stays in the registry for good (_maybe_remove_channel).
Removing(t, n) == pc[t] \in UnsubscribePc /\ target[t] = n

NoZombieChannel ==
  \A n \in Names : Registered(n) /\ IsEmpty(ChannelOf(n)) => \E t \in Tasks : Removing(t, n)

\* While its connection is open, only its own unsubscribe takes a subscription
\* from a client, whatever the other clients and the dispatchers do.
SubscriptionsStay ==
  [][\A w \in open' :
       (\A n \in Names, p \in Patterns : ~UnregisterCall(w, n, p)) => SubsOf(w) \subseteq SubsOf(w)']_vars

\* When a dispatch returns, the callbacks that failed in it are registered with
\* no event of any channel (Channels.__call__).
FailedLeavesNoTrace ==
  [][\A k \in Workers : DispatchReturns(k) => \A c \in closed[k] : SubsOf(c)' = {}]_vars

\* The registry implements the abstract specification.
Abstract == INSTANCE PubSub WITH subs <- Subs, live <- open

Implements == Abstract!Spec

=============================================================================
