---------------------------- MODULE PubSub_proofs ----------------------------
(***************************************************************************)
(* The registry of channels keeps the promise of PubSub: theorems for a    *)
(* broker whose coroutines do not suspend their caller, any number of      *)
(* sockets, workers, channel names, patterns and events, and clients that  *)
(* may fail, leave or send a pattern that does not compile at any time.    *)
(***************************************************************************)
EXTENDS Channels_proofs

(***************************************************************************)
(* What the operations of a Channel do to the subscriptions in it.         *)
(***************************************************************************)

\* A channel without events has no subscription.
LEMMA SubscribedEmpty ==
  ASSUME NEW ch, IsEmpty(ch), NEW c
  PROVE  Subscribed(ch, c) = {}
  BY DEF IsEmpty, Subscribed

\* register adds one subscription, of the callback it is given.
LEMMA SubscribedAfterRegister ==
  ASSUME NEW ch, NEW p, NEW cb, NEW c
  PROVE  Subscribed(Register(ch, p, cb), c) =
           Subscribed(ch, c) \cup (IF c = cb THEN {p} ELSE {})
<1> DEFINE f == [q \in EventsOf(ch) \cup {p} |->
                   CallbacksOf(ch, q) \cup (IF q = p THEN {cb} ELSE {})]
<1>1. Register(ch, p, cb).callbacks = f
  BY DEF Register
<1>2. EventsOf(Register(ch, p, cb)) = EventsOf(ch) \cup {p}
  BY <1>1 DEF EventsOf
<1>3. \A q \in EventsOf(ch) \cup {p} :
        Register(ch, p, cb).callbacks[q] = CallbacksOf(ch, q) \cup (IF q = p THEN {cb} ELSE {})
  BY <1>1
<1>4. QED
  BY <1>2, <1>3 DEF Subscribed, CallbacksOf

\* Removing a callback from the events of P takes its own subscriptions to
\* them, and those of no other callback.
LEMMA SubscribedAfterRemove ==
  ASSUME NEW ch, NEW P, NEW cb, NEW c
  PROVE  Subscribed(RemoveEventCallback(ch, P, cb), c) =
           IF c = cb THEN Subscribed(ch, c) \ P ELSE Subscribed(ch, c)
<1> DEFINE Left(q) == IF q \in P THEN ch.callbacks[q] \ {cb} ELSE ch.callbacks[q]
           kept == {q \in EventsOf(ch) : q \in P => Left(q) # {}}
           new == RemoveEventCallback(ch, P, cb)
<1>1. new.callbacks = [q \in kept |-> Left(q)]
  BY DEF RemoveEventCallback
<1>2. EventsOf(new) = kept /\ \A q \in kept : new.callbacks[q] = Left(q)
  BY <1>1 DEF EventsOf
<1>3. \A q : q \in Subscribed(new, c) <=> q \in kept /\ c \in Left(q)
  <2> HIDE DEF new, kept, Left
  <2>1. QED
    BY <1>2 DEF Subscribed
<1>4. QED
  BY <1>3 DEF Subscribed

\* c is registered, under channel n, with the events of pattern p.
Has(c, n, p) == Registered(n) /\ p \in Subscribed(ChannelOf(n), c)

\* That is what SubsOf and Subs collect.
LEMMA SubsAreHas ==
  ASSUME NEW c \in Sockets
  PROVE  /\ \A n \in Names, p \in Patterns : <<n, p>> \in SubsOf(c) <=> Has(c, n, p)
         /\ \A n \in Names, p \in Patterns : <<c, n, p>> \in Subs <=> Has(c, n, p)
         /\ SubsOf(c) \subseteq Names \X Patterns
  BY DEF SubsOf, Subs, Has

\* Two sets of subscriptions with the same members are the same.
LEMMA SameSubs ==
  ASSUME NEW S \in SUBSET (Sockets \X Names \X Patterns),
         NEW T \in SUBSET (Sockets \X Names \X Patterns),
         \A c \in Sockets, n \in Names, p \in Patterns : <<c, n, p>> \in S <=> <<c, n, p>> \in T
  PROVE  S = T
  OBVIOUS

\* A registered Channel object changes: nothing changes under the other names.
LEMMA HasAfterChange ==
  ASSUME TypeOK, NEW n \in Names, Registered(n), NEW ch,
         object' = [object EXCEPT ![n][channels[n]] = ch],
         UNCHANGED channels
  PROVE  \A c, m, p : m \in Names =>
           (Has(c, m, p)' <=> IF m = n THEN p \in Subscribed(ch, c) ELSE Has(c, m, p))
<1>1. channels[n] \in Objects /\ object \in [Names -> [Objects -> Channel]]
  BY DEF TypeOK, RegistryType, Registered
<1>2. ChannelOf(n)' = ch
  BY <1>1 DEF ChannelOf
<1>3. \A m \in Names : m # n => ChannelOf(m)' = ChannelOf(m)
  BY <1>1 DEF ChannelOf
<1>4. QED
  BY <1>2, <1>3 DEF Has, Registered

\* A new Channel object is stored under a name that had none.
LEMMA HasAfterStore ==
  ASSUME TypeOK, NEW n \in Names, NEW o \in Objects, NEW ch,
         channels' = [channels EXCEPT ![n] = o],
         object' = [object EXCEPT ![n][o] = ch]
  PROVE  \A c, m, p : m \in Names =>
           (Has(c, m, p)' <=> IF m = n THEN p \in Subscribed(ch, c) ELSE Has(c, m, p))
<1>1. channels \in [Names -> Objects \cup {None}] /\ object \in [Names -> [Objects -> Channel]]
  BY DEF TypeOK, RegistryType
<1>2. Registered(n)' /\ ChannelOf(n)' = ch
  BY <1>1, ChannelsAssumption DEF Registered, ChannelOf
<1>3. \A m \in Names : m # n => channels'[m] = channels[m] /\ ChannelOf(m)' = ChannelOf(m)
  BY <1>1 DEF ChannelOf
<1>4. QED
  BY <1>2, <1>3 DEF Has, Registered

\* A name whose channel has no event is popped: nobody loses anything.
LEMMA HasAfterPop ==
  ASSUME TypeOK, NEW n \in Names, IsEmpty(ChannelOf(n)),
         channels' = [channels EXCEPT ![n] = None],
         UNCHANGED object
  PROVE  \A c, m, p : m \in Names => (Has(c, m, p)' <=> Has(c, m, p))
<1>1. channels \in [Names -> Objects \cup {None}]
  BY DEF TypeOK, RegistryType
<1>2. ~Registered(n)' /\ \A c, p : ~Has(c, n, p)
  BY <1>1, SubscribedEmpty DEF Registered, Has
<1>3. \A m \in Names : m # n => channels'[m] = channels[m]
  BY <1>1
<1>4. QED
  BY <1>2, <1>3 DEF Has, Registered, ChannelOf

\* The registry is not touched.
LEMMA HasUnchanged ==
  ASSUME UNCHANGED <<channels, object>>
  PROVE  /\ \A c, m, p : Has(c, m, p)' <=> Has(c, m, p)
         /\ \A c : SubsOf(c)' = SubsOf(c)
         /\ Subs' = Subs
  BY DEF Has, SubsOf, Subs, Registered, ChannelOf

-----------------------------------------------------------------------------
(***************************************************************************)
(* The clients' side of the invariant.                                     *)
(***************************************************************************)

\* A client that is subscribing to a channel is still there: nothing else runs
\* until it has its answer.
RequesterIsOpen == \A w \in Sockets : pc[w] \in SubscribePc => w \in open

\* No channel has a name that the broker refuses.
NamesAreAccepted ==
  /\ \A n \in Names : Registered(n) => n \notin Refused
  /\ \A w \in Sockets : pc[w] = "subscribed" => target[w] \notin Refused

\* A callback that failed belongs to a socket that was closed, and the callbacks
\* being swept are some of those.
FailedAreGone ==
  \A k \in Workers :
    /\ closed[k] \cap open = {}
    /\ left[k] \subseteq closed[k]
    /\ current[k] \in closed[k] \cup {None}
    /\ todo[k] # {} => current[k] # None

\* A callback that was swept is registered with nothing, and the one being swept
\* with nothing but the channels that are still to be visited.
SweptLeaveNoTrace ==
  \A k \in Workers : pc[k] \in UnsubscribePc \cup {"sweeping"} =>
    \A c \in closed[k] \ left[k], n \in Names, p \in Patterns :
      Has(c, n, p) => c = current[k] /\ <<n, channels[n]>> \in todo[k]

ClientInv ==
  /\ RequesterIsOpen
  /\ NamesAreAccepted
  /\ FailedAreGone
  /\ SweptLeaveNoTrace

\* What TypeOK says of the variables, in the form the proofs below need it.
LEMMA Typed ==
  ASSUME TypeOK
  PROVE  /\ pc \in [Tasks -> SocketPc \cup WorkerPc]
         /\ target \in [Tasks -> Names \cup {None}]
         /\ channels \in [Names -> Objects \cup {None}]
         /\ object \in [Names -> [Objects -> Channel]]
         /\ open \subseteq Sockets
         /\ running \in [Workers -> SUBSET Sockets]
         /\ closed \in [Workers -> SUBSET Sockets]
         /\ left \in [Workers -> SUBSET Sockets]
         /\ current \in [Workers -> Sockets \cup {None}]
         /\ todo \in [Workers -> SUBSET (Names \X Objects)]
         /\ \A w \in Sockets : pc[w] \in SocketPc /\ w \in Tasks /\ w \notin Workers
         /\ \A k \in Workers : pc[k] \in WorkerPc /\ k \in Tasks /\ k \notin Sockets
  BY ChannelsAssumption DEF TypeOK, RegistryType, TaskType, DispatchType, Tasks

\* A socket that is gone stays gone.
LEMMA OpenShrinks ==
  ASSUME [Next]_vars
  PROVE  open' \subseteq open
<1>1. ASSUME NEW w \in Sockets, NEW n \in Names, NEW p \in Patterns, Request(w, n, p)
      PROVE  open' \subseteq open
  BY <1>1 DEF Request, RegisterExisting, RegisterBadPattern, RegisterMissing, UnregisterCall,
     UnregisterBadPattern, Crash
<1>2. ASSUME NEW w \in Sockets, HandlerStep(w) \/ Disconnect(w)
      PROVE  open' \subseteq open
  BY <1>2 DEF HandlerStep, BackendSubscribe, BackendRefuses, RegisterResume, RegisterReturn,
     BackendUnsubscribe, UnregisterReturn, UnregisterKeyError, Leave, Crash, Disconnect
<1>3. ASSUME NEW k \in Workers, WorkerStep(k) \/ \E n \in Names, e \in Events : Dispatch(k, n, e)
      PROVE  open' \subseteq open
  BY <1>3 DEF WorkerStep, Deliver, DeliveryFails, GatherReturns, SweepNext, SweepChannel,
     BackendUnsubscribe, SweepReturn, SweepKeyError, DispatchReturns, Dispatch
<1>4. QED
  BY <1>1, <1>2, <1>3 DEF Next, vars

\* A task in the middle of a request or of a sweep keeps the others from running:
\* a step that another task takes, or that needs the loop to be free, finds
\* nobody there.
LEMMA NobodyElse ==
  ASSUME LoopInv, NEW t \in Tasks, Runs(t)
  PROVE  \A u \in Tasks \ {t} : pc[u] \notin HeldPc
  BY ChannelsAssumption DEF LoopInv, HoldsTheLoop, Runs

\* A client is there while its request is answered: its socket is closed by its
\* own handler, or by a worker, and not while the request holds the loop.
LEMMA RequesterStep ==
  ASSUME ~Yields, TypeOK, LoopInv, ClientInv, [Next]_vars
  PROVE  RequesterIsOpen'
<1> USE Typed DEF SubscribePc, HeldPc
<1>1. ASSUME NEW t \in Tasks, Runs(t), \A u \in Tasks \ {t} : pc'[u] = pc[u],
             t \in Sockets => (pc'[t] \in SubscribePc => t \in open')
      PROVE  RequesterIsOpen'
  BY <1>1, NobodyElse DEF RequesterIsOpen
<1>2. ASSUME NEW w \in Sockets, NEW n \in Names, NEW p \in Patterns, Request(w, n, p)
      PROVE  RequesterIsOpen'
  <2>1. Runs(w) /\ w \in open
    BY <1>2 DEF Request, RegisterExisting, RegisterBadPattern, RegisterMissing, UnregisterCall,
       UnregisterBadPattern, Reads, Runs
  <2>2. \A u \in Tasks \ {w} : pc'[u] = pc[u]
    BY <1>2 DEF Request, RegisterExisting, RegisterBadPattern, RegisterMissing, UnregisterCall,
       RemoveChannel, UnregisterBadPattern, Crash, Goto
  <2>3. pc'[w] \in SubscribePc => UNCHANGED open
    BY <1>2 DEF Request, RegisterExisting, RegisterBadPattern, RegisterMissing, UnregisterCall,
       UnregisterBadPattern, Crash, Goto
  <2>4. QED
    BY <1>1, <2>1, <2>2, <2>3
<1>3. ASSUME NEW t \in Tasks, BackendUnsubscribe(t)
      PROVE  RequesterIsOpen'
  BY <1>3 DEF BackendUnsubscribe, Goto, ClientInv, RequesterIsOpen
<1>4. ASSUME NEW w \in Sockets, HandlerStep(w)
      PROVE  RequesterIsOpen'
  <2>1. CASE BackendSubscribe(w)
    BY <2>1 DEF BackendSubscribe, Goto, ClientInv, RequesterIsOpen
  <2>2. CASE \/ BackendRefuses(w) \/ RegisterResume(w) \/ RegisterReturn(w)
             \/ UnregisterReturn(w) \/ UnregisterKeyError(w) \/ Leave(w)
    <3>1. Runs(w)
      BY <2>2 DEF BackendRefuses, RegisterResume, RegisterReturn, UnregisterReturn, Pop,
         UnregisterKeyError, KeyError, Leave, Runs
    <3>2. pc'[w] \in {"ready", "hooking", "ended"} /\ \A u \in Tasks \ {w} : pc'[u] = pc[u]
      BY <2>2 DEF BackendRefuses, RegisterResume, RegisterReturn, UnregisterReturn,
         UnregisterKeyError, Leave, Crash, Goto
    <3>3. QED
      BY <1>1, <3>1, <3>2
  <2>3. QED
    BY <1>3, <1>4, <2>1, <2>2 DEF HandlerStep
<1>5. ASSUME NEW k \in Workers, WorkerStep(k) \/ \E n \in Names, e \in Events : Dispatch(k, n, e)
      PROVE  RequesterIsOpen'
  <2>1. ASSUME NEW c \in Sockets, DeliveryFails(k, c)
        PROVE  RequesterIsOpen'
    BY <2>1, <1>1 DEF DeliveryFails, Runs
  <2>2. CASE \/ \E c \in Sockets : Deliver(k, c)
             \/ GatherReturns(k) \/ SweepNext(k) \/ SweepChannel(k) \/ SweepReturn(k)
             \/ SweepKeyError(k) \/ DispatchReturns(k)
             \/ \E n \in Names, e \in Events : Dispatch(k, n, e)
    <3>1. UNCHANGED open /\ \A w \in Sockets : pc'[w] = pc[w]
      BY <2>2 DEF Deliver, GatherReturns, SweepNext, SweepChannel, RemoveChannel, SweepReturn,
         SweepKeyError, DispatchReturns, Dispatch, Goto
    <3>2. QED
      BY <3>1 DEF ClientInv, RequesterIsOpen
  <2>3. QED
    BY <1>3, <1>5, <2>1, <2>2 DEF WorkerStep
<1>6. ASSUME NEW w \in Sockets, Disconnect(w)
      PROVE  RequesterIsOpen'
  <2>1. Runs(w) /\ UNCHANGED pc /\ pc[w] \notin SubscribePc
    BY <1>6, ChannelsAssumption DEF Disconnect, Runs, LoopInv, HoldsTheLoop
  <2>2. QED
    BY <1>1, <2>1
<1>7. CASE UNCHANGED vars
  BY <1>7 DEF vars, ClientInv, RequesterIsOpen
<1>8. QED
  BY <1>2, <1>4, <1>5, <1>6, <1>7 DEF Next

\* No refused name reaches the registry: a channel is stored after the broker has
\* accepted its name.
LEMMA NamesStep ==
  ASSUME TypeOK, ClientInv, [Next]_vars
  PROVE  NamesAreAccepted'
<1> USE Typed
<1> DEFINE Kept ==
             /\ \A n \in Names : Registered(n)' => Registered(n)
             /\ \A w \in Sockets : pc'[w] = "subscribed" =>
                  pc[w] = "subscribed" /\ target'[w] = target[w]
<1>1. Kept => NamesAreAccepted'
  BY DEF ClientInv, NamesAreAccepted
<1>2. ASSUME NEW w \in Sockets, NEW n \in Names, NEW p \in Patterns, Request(w, n, p)
      PROVE  NamesAreAccepted'
  <2>1. UNCHANGED channels
    BY <1>2 DEF Request, RegisterExisting, RegisterBadPattern, RegisterMissing, UnregisterCall,
       UnregisterBadPattern, registry
  <2>2. /\ pc'[w] # "subscribed"
        /\ \A u \in Sockets \ {w} : pc'[u] = pc[u] /\ target'[u] = target[u]
    BY <1>2 DEF Request, RegisterExisting, RegisterBadPattern, RegisterMissing, UnregisterCall,
       RemoveChannel, UnregisterBadPattern, Reads, Crash, Goto, request
  <2>3. QED
    BY <1>1, <2>1, <2>2 DEF Registered
<1>3. ASSUME NEW t \in Tasks, BackendUnsubscribe(t)
      PROVE  Kept
  BY <1>3 DEF BackendUnsubscribe, Goto, request, Registered
<1>4. ASSUME NEW w \in Sockets, HandlerStep(w)
      PROVE  NamesAreAccepted'
  <2>1. CASE BackendSubscribe(w)
    BY <2>1 DEF BackendSubscribe, Goto, request, Registered, ClientInv, NamesAreAccepted
  <2>2. CASE RegisterResume(w)
    <3>1. PICK o \in Objects : channels' = [channels EXCEPT ![target[w]] = o]
      BY <2>2 DEF RegisterResume, Fresh
    <3>2. /\ pc[w] = "subscribed"
          /\ pc'[w] # "subscribed"
          /\ \A u \in Sockets \ {w} : pc'[u] = pc[u] /\ target'[u] = target[u]
      BY <2>2 DEF RegisterResume, Crash, Goto
    <3>3. QED
      BY <3>1, <3>2 DEF Registered, ClientInv, NamesAreAccepted
  <2>3. CASE BackendRefuses(w) \/ RegisterReturn(w) \/ Leave(w) \/ UnregisterReturn(w)
             \/ UnregisterKeyError(w)
    <3>1. \A n \in Names : Registered(n)' => Registered(n)
      BY <2>3 DEF BackendRefuses, RegisterReturn, Leave, UnregisterReturn, Pop,
         UnregisterKeyError, registry, Registered
    <3>2. /\ pc'[w] # "subscribed"
          /\ \A u \in Sockets \ {w} : pc'[u] = pc[u] /\ target'[u] = target[u]
      BY <2>3 DEF BackendRefuses, RegisterReturn, Leave, UnregisterReturn, Pop,
         UnregisterKeyError, Crash, Goto, request
    <3>3. QED
      BY <1>1, <3>1, <3>2
  <2>4. QED
    BY <1>1, <1>3, <1>4, <2>1, <2>2, <2>3 DEF HandlerStep
<1>5. ASSUME NEW k \in Workers, WorkerStep(k) \/ \E n \in Names, e \in Events : Dispatch(k, n, e)
      PROVE  NamesAreAccepted'
  <2>1. CASE \/ \E c \in Sockets : Deliver(k, c) \/ DeliveryFails(k, c)
             \/ GatherReturns(k) \/ SweepNext(k) \/ SweepChannel(k) \/ SweepReturn(k)
             \/ SweepKeyError(k) \/ DispatchReturns(k)
             \/ \E n \in Names, e \in Events : Dispatch(k, n, e)
    <3>1. \A n \in Names : Registered(n)' => Registered(n)
      BY <2>1 DEF Deliver, DeliveryFails, GatherReturns, SweepNext, SweepChannel, SweepReturn,
         Pop, SweepKeyError, DispatchReturns, Dispatch, registry, Registered
    <3>2. \A w \in Sockets : pc'[w] = pc[w] /\ target'[w] = target[w]
      BY <2>1 DEF Deliver, DeliveryFails, GatherReturns, SweepNext, SweepChannel, RemoveChannel,
         SweepReturn, Pop, SweepKeyError, DispatchReturns, Dispatch, Goto, request
    <3>3. QED
      BY <1>1, <3>1, <3>2
  <2>2. QED
    BY <1>1, <1>3, <1>5, <2>1 DEF WorkerStep
<1>6. CASE UNCHANGED vars \/ \E w \in Sockets : Disconnect(w)
  BY <1>1, <1>6 DEF vars, registry, request, Disconnect, Registered
<1>7. QED
  BY <1>2, <1>4, <1>5, <1>6 DEF Next

\* A callback that failed is one whose connection is gone, and it stays gone.
LEMMA FailedStep ==
  ASSUME TypeOK, ClientInv, [Next]_vars
  PROVE  FailedAreGone'
<1> USE Typed
<1>1. open' \subseteq open
  BY OpenShrinks
<1>2. ASSUME UNCHANGED <<closed, left, current, todo>>
      PROVE  FailedAreGone'
  BY <1>1, <1>2 DEF ClientInv, FailedAreGone
<1>3. ASSUME NEW w \in Sockets, NEW n \in Names, NEW p \in Patterns, Request(w, n, p)
      PROVE  UNCHANGED <<closed, left, current, todo>>
  BY <1>3 DEF Request, RegisterExisting, RegisterBadPattern, RegisterMissing, UnregisterCall,
     UnregisterBadPattern, dispatch
<1>4. ASSUME NEW w \in Sockets, HandlerStep(w) \/ Disconnect(w)
      PROVE  UNCHANGED <<closed, left, current, todo>>
  BY <1>4 DEF HandlerStep, BackendSubscribe, BackendRefuses, RegisterResume, RegisterReturn,
     BackendUnsubscribe, UnregisterReturn, UnregisterKeyError, Leave, Disconnect, dispatch
<1>5. ASSUME NEW k \in Workers, NEW c \in Sockets, DeliveryFails(k, c)
      PROVE  FailedAreGone'
  <2>1. /\ closed'[k] = closed[k] \cup {c}
        /\ \A j \in Workers \ {k} : closed'[j] = closed[j]
        /\ open' = open \ {c}
        /\ UNCHANGED <<left, current, todo>>
    BY <1>5 DEF DeliveryFails
  <2>2. QED
    BY <2>1 DEF ClientInv, FailedAreGone
<1>6. ASSUME NEW k \in Workers, GatherReturns(k)
      PROVE  FailedAreGone'
  BY <1>1, <1>6 DEF GatherReturns, ClientInv, FailedAreGone
<1>7. ASSUME NEW k \in Workers, SweepNext(k)
      PROVE  FailedAreGone'
  <2>1. PICK c \in left[k] :
          /\ current' = [current EXCEPT ![k] = c]
          /\ left' = [left EXCEPT ![k] = @ \ {c}]
    BY <1>7 DEF SweepNext, NextClosed
  <2>2. todo' = [todo EXCEPT ![k] = Snapshot] /\ UNCHANGED closed
    BY <1>7 DEF SweepNext
  <2>3. c \in closed[k] /\ c # None
    BY ChannelsAssumption DEF ClientInv, FailedAreGone, Tasks
  <2>4. QED
    BY <1>1, <2>1, <2>2, <2>3 DEF ClientInv, FailedAreGone
<1>8. ASSUME NEW k \in Workers, SweepChannel(k)
      PROVE  FailedAreGone'
  <2>1. PICK s : s \in todo[k] /\ todo' = [todo EXCEPT ![k] = @ \ {s}]
    BY <1>8 DEF SweepChannel
  <2>2. UNCHANGED <<closed, left, current>>
    BY <1>8 DEF SweepChannel
  <2>3. QED
    BY <1>1, <2>1, <2>2 DEF ClientInv, FailedAreGone
<1>9. ASSUME NEW k \in Workers, SweepKeyError(k) \/ DispatchReturns(k)
      PROVE  FailedAreGone'
  <2>1. /\ closed' = [closed EXCEPT ![k] = {}]
        /\ left'[k] = {} /\ todo'[k] = {}
        /\ \A j \in Workers \ {k} : left'[j] = left[j] /\ todo'[j] = todo[j]
        /\ current' = [current EXCEPT ![k] = None]
    BY <1>9 DEF SweepKeyError, DispatchReturns
  <2>2. QED
    BY <1>1, <2>1 DEF ClientInv, FailedAreGone
<1>10. ASSUME NEW k \in Workers,
              \/ \E c \in Sockets : Deliver(k, c)
              \/ BackendUnsubscribe(k) \/ SweepReturn(k)
              \/ \E n \in Names, e \in Events : Dispatch(k, n, e)
       PROVE  UNCHANGED <<closed, left, current, todo>>
  BY <1>10 DEF Deliver, BackendUnsubscribe, SweepReturn, Dispatch, dispatch
<1>11. CASE UNCHANGED vars
  BY <1>2, <1>11 DEF vars, dispatch
<1>12. QED
  BY <1>2, <1>3, <1>4, <1>5, <1>6, <1>7, <1>8, <1>9, <1>10, <1>11 DEF Next, WorkerStep

\* The sweep keeps what it has done: a callback it has removed comes back under
\* no event, while the sweep is not over.
LEMMA SweptStep ==
  ASSUME ~Yields, TypeOK, LoopInv, ClientInv, [Next]_vars
  PROVE  SweptLeaveNoTrace'
<1> USE Typed DEF HeldPc, UnsubscribePc
<1> DEFINE Trace(k) ==
             pc[k] \in UnsubscribePc \cup {"sweeping"} =>
               \A c \in closed[k] \ left[k], n \in Names, p \in Patterns :
                 Has(c, n, p) => c = current[k] /\ <<n, channels[n]>> \in todo[k]
<1>1. \A k \in Workers : Trace(k)
  BY DEF ClientInv, SweptLeaveNoTrace
\* Only a step of the worker that sweeps, which holds the loop, can disturb it.
<1>2. ASSUME NEW t \in Tasks, Runs(t), \A u \in Tasks \ {t} : pc'[u] = pc[u],
             t \in Workers => Trace(t)'
      PROVE  SweptLeaveNoTrace'
  <2> SUFFICES ASSUME NEW k \in Workers, k # t
               PROVE  Trace(k)'
    BY <1>2 DEF SweptLeaveNoTrace
  <2>1. pc'[k] \notin HeldPc
    BY <1>2, NobodyElse
  <2>2. QED
    BY <2>1
<1>3. ASSUME NEW w \in Sockets, NEW n \in Names, NEW p \in Patterns, Request(w, n, p)
      PROVE  SweptLeaveNoTrace'
  <2>1. Runs(w)
    BY <1>3 DEF Request, RegisterExisting, RegisterBadPattern, RegisterMissing, UnregisterCall,
       UnregisterBadPattern, Reads, Runs
  <2>2. \A u \in Tasks \ {w} : pc'[u] = pc[u]
    BY <1>3 DEF Request, RegisterExisting, RegisterBadPattern, RegisterMissing, UnregisterCall,
       RemoveChannel, UnregisterBadPattern, Crash, Goto
  <2>3. QED
    BY <1>2, <2>1, <2>2
<1>4. ASSUME NEW w \in Sockets, HandlerStep(w)
      PROVE  SweptLeaveNoTrace'
  <2>1. Runs(w)
    BY <1>4 DEF HandlerStep, BackendSubscribe, BackendRefuses, RegisterResume, RegisterReturn,
       BackendUnsubscribe, UnregisterReturn, Pop, UnregisterKeyError, KeyError, Leave, Runs,
       LoopInv, HoldsTheLoop, SubscribePc
  <2>2. \A u \in Tasks \ {w} : pc'[u] = pc[u]
    BY <1>4 DEF HandlerStep, BackendSubscribe, BackendRefuses, RegisterResume, RegisterReturn,
       BackendUnsubscribe, UnregisterReturn, UnregisterKeyError, Leave, Crash, Goto
  <2>3. QED
    BY <1>2, <2>1, <2>2
<1>5. ASSUME NEW k \in Workers, NEW c \in Sockets, Deliver(k, c) \/ DeliveryFails(k, c)
      PROVE  SweptLeaveNoTrace'
  <2>1. Runs(k) /\ loop = None /\ UNCHANGED pc
    BY <1>5 DEF Deliver, DeliveryFails, Runs
  <2>2. pc[k] \notin HeldPc
    BY <2>1, ChannelsAssumption DEF LoopInv, HoldsTheLoop
  <2>3. QED
    BY <1>2, <2>1, <2>2
<1>6. ASSUME NEW k \in Workers,
             \/ GatherReturns(k) \/ SweepKeyError(k) \/ DispatchReturns(k)
             \/ \E n \in Names, e \in Events : Dispatch(k, n, e)
      PROVE  SweptLeaveNoTrace'
  <2>1. Runs(k)
    BY <1>6 DEF GatherReturns, SweepKeyError, KeyError, DispatchReturns, Dispatch, Runs
  <2>2. \A u \in Tasks \ {k} : pc'[u] = pc[u]
    BY <1>6 DEF GatherReturns, SweepKeyError, DispatchReturns, Dispatch, Goto
  <2>3. pc'[k] = "sweeping" => closed'[k] \ left'[k] = {}
    BY <1>6 DEF GatherReturns, SweepKeyError, DispatchReturns, Dispatch, Goto
  <2>4. pc'[k] \notin UnsubscribePc
    BY <1>6 DEF GatherReturns, SweepKeyError, DispatchReturns, Dispatch, Goto
  <2>5. QED
    BY <1>2, <2>1, <2>2, <2>3, <2>4
<1>7. ASSUME NEW k \in Workers, SweepNext(k)
      PROVE  SweptLeaveNoTrace'
  <2>1. PICK c \in left[k] :
          /\ current' = [current EXCEPT ![k] = c]
          /\ left' = [left EXCEPT ![k] = @ \ {c}]
    BY <1>7 DEF SweepNext, NextClosed
  <2>2. /\ Runs(k) /\ pc[k] = "sweeping" /\ todo[k] = {}
        /\ todo'[k] = Snapshot
        /\ UNCHANGED <<channels, object, pc, closed>>
    BY <1>7 DEF SweepNext, registry
  <2>3. \A d \in closed[k] \ left[k], n \in Names, p \in Patterns : ~Has(d, n, p)
    BY <1>1, <2>2
  <2>4. \A d \in closed'[k] \ left'[k] : d = c \/ d \in closed[k] \ left[k]
    BY <2>1, <2>2
  <2>5. \A d, n, p : Has(d, n, p)' <=> Has(d, n, p)
    BY <2>2, HasUnchanged
  <2>6. \A n \in Names, p \in Patterns : Has(c, n, p) => <<n, channels[n]>> \in Snapshot
    BY DEF Has, Snapshot
  <2>7. \A d \in closed'[k] \ left'[k], n \in Names, p \in Patterns :
          Has(d, n, p)' => d = c /\ <<n, channels[n]>> \in Snapshot
    BY <2>3, <2>4, <2>5, <2>6
  <2>8. current'[k] = c
    BY <2>1
  <2>9. Trace(k)'
    BY <2>2, <2>7, <2>8
  <2>10. QED
    BY <1>2, <2>2, <2>9
<1>8. ASSUME NEW k \in Workers, SweepChannel(k)
      PROVE  SweptLeaveNoTrace'
  <2>1. PICK n \in Names, o \in Objects :
          /\ <<n, o>> \in todo[k]
          /\ todo' = [todo EXCEPT ![k] = @ \ {<<n, o>>}]
          /\ object' = [object EXCEPT ![n][o] = RemoveCallback(object[n][o], current[k])]
    BY <1>8 DEF SweepChannel
  <2>2. /\ Runs(k) /\ pc[k] = "sweeping" /\ UNCHANGED <<channels, closed, left, current>>
        /\ \A u \in Tasks \ {k} : pc'[u] = pc[u]
    BY <1>8 DEF SweepChannel, RemoveChannel, Goto
  <2>3. channels[n] = o /\ Registered(n)
    BY <2>1, ChannelsAssumption DEF LoopInv, SnapshotIsFresh, Registered
  <2>4. \A c, m, p : m \in Names =>
          (Has(c, m, p)' <=>
             IF m = n THEN p \in Subscribed(RemoveCallback(object[n][o], current[k]), c)
                      ELSE Has(c, m, p))
    BY <2>1, <2>2, <2>3, HasAfterChange
  <2>5. \A p : p \notin Subscribed(RemoveCallback(object[n][o], current[k]), current[k])
    BY SubscribedAfterRemove DEF RemoveCallback, Subscribed
  <2>6. \A c, p : p \in Subscribed(RemoveCallback(object[n][o], current[k]), c) => Has(c, n, p)
    BY <2>3, SubscribedAfterRemove DEF RemoveCallback, Has, ChannelOf
  <2>7. ASSUME NEW c \in closed[k] \ left[k], NEW m \in Names, NEW p \in Patterns, Has(c, m, p)'
        PROVE  c = current[k] /\ <<m, channels[m]>> \in todo'[k]
    <3>1. Has(c, m, p)
      BY <2>4, <2>6, <2>7
    <3>2. c = current[k] /\ <<m, channels[m]>> \in todo[k]
      BY <1>1, <2>2, <3>1
    <3>3. m # n
      BY <2>4, <2>5, <2>7, <3>2
    <3>4. QED
      BY <2>1, <3>2, <3>3
  <2>8. Trace(k)'
    BY <2>2, <2>7
  <2>9. QED
    BY <1>2, <2>2, <2>8
<1>9. ASSUME NEW k \in Workers, BackendUnsubscribe(k)
      PROVE  SweptLeaveNoTrace'
  <2>1. /\ pc[k] = "unsubscribing"
        /\ UNCHANGED <<channels, object, closed, left, current, todo>>
        /\ \A u \in Tasks \ {k} : pc'[u] = pc[u]
    BY <1>9 DEF BackendUnsubscribe, Goto, dispatch
  <2>2. Runs(k)
    BY <2>1 DEF LoopInv, HoldsTheLoop, Runs
  <2>3. \A d, n, p : Has(d, n, p)' <=> Has(d, n, p)
    BY <2>1, HasUnchanged
  <2>4. QED
    BY <1>1, <1>2, <2>1, <2>2, <2>3
<1>10. ASSUME NEW k \in Workers, SweepReturn(k)
       PROVE  SweptLeaveNoTrace'
  <2>1. /\ pc[k] = "unsubscribed" /\ Runs(k) /\ target[k] \in Names
        /\ channels' = [channels EXCEPT ![target[k]] = None]
        /\ UNCHANGED <<object, closed, left, current, todo>>
        /\ \A u \in Tasks \ {k} : pc'[u] = pc[u]
    BY <1>10 DEF SweepReturn, Pop, Goto, dispatch, TypeOK, TaskType
  <2>2. IsEmpty(ChannelOf(target[k]))
    BY <2>1 DEF LoopInv, NameIsAsFound
  <2>3. \A d, n, p : n \in Names => (Has(d, n, p)' <=> Has(d, n, p))
    BY <2>1, <2>2, HasAfterPop
  <2>4. \A d, n, p : n \in Names /\ Has(d, n, p)' => channels'[n] = channels[n]
    BY <2>1 DEF Has, Registered
  <2>5. Trace(k)'
    BY <1>1, <2>1, <2>3, <2>4
  <2>6. QED
    BY <1>2, <2>1, <2>5
<1>11. CASE UNCHANGED vars
  <2>1. UNCHANGED <<channels, object, pc, closed, left, current, todo>>
    BY <1>11 DEF vars, registry, dispatch
  <2>2. QED
    BY <1>1, <2>1, HasUnchanged DEF SweptLeaveNoTrace
<1>12. ASSUME NEW w \in Sockets, Disconnect(w)
       PROVE  SweptLeaveNoTrace'
  <2>1. Runs(w) /\ UNCHANGED pc
    BY <1>12 DEF Disconnect, Runs
  <2>2. QED
    BY <1>2, <2>1
<1>13. QED
  BY <1>3, <1>4, <1>5, <1>6, <1>7, <1>8, <1>9, <1>10, <1>11, <1>12 DEF Next, WorkerStep

\* The clients' side of the invariant is inductive too.
THEOREM ClientInvariant ==
  ASSUME ~Yields
  PROVE  Spec => []ClientInv
<1>1. Init => ClientInv
  BY ChannelsAssumption DEF Init, InitIdle, ClientInv, RequesterIsOpen, NamesAreAccepted, FailedAreGone,
     SweptLeaveNoTrace, Registered, SubscribePc, UnsubscribePc, Tasks
<1>2. TypeOK /\ LoopInv /\ ClientInv /\ [Next]_vars => ClientInv'
  BY RequesterStep, NamesStep, FailedStep, SweptStep DEF ClientInv
<1>3. SyncInv => LoopInv
  BY DEF SyncInv
<1>4. QED
  BY <1>1, <1>2, <1>3, TypeCorrect, SyncInvariant, PTL DEF Spec

\* When a dispatch returns, the callbacks that failed in it are registered with
\* no event of any channel.
THEOREM FailedAreForgotten ==
  ASSUME ~Yields
  PROVE  Spec => FailedLeavesNoTrace
<1>1. TypeOK /\ ClientInv /\ [Next]_vars =>
        \A k \in Workers : DispatchReturns(k) => \A c \in closed[k] : SubsOf(c)' = {}
  <2> SUFFICES ASSUME TypeOK, ClientInv, NEW k \in Workers, DispatchReturns(k), NEW c \in closed[k]
               PROVE  SubsOf(c)' = {}
    OBVIOUS
  <2>1. pc[k] = "sweeping" /\ left[k] = {} /\ todo[k] = {} /\ UNCHANGED <<channels, object>>
    BY DEF DispatchReturns, registry
  <2>2. c \in Sockets
    BY Typed
  <2>3. \A n \in Names, p \in Patterns : ~Has(c, n, p)
    BY <2>1 DEF ClientInv, SweptLeaveNoTrace
  <2>4. SubsOf(c) = {}
    BY <2>2, <2>3, SubsAreHas
  <2>5. QED
    BY <2>1, <2>4, HasUnchanged
<1>2. QED
  BY <1>1, TypeCorrect, ClientInvariant, PTL DEF Spec, FailedLeavesNoTrace

-----------------------------------------------------------------------------
(***************************************************************************)
(* Every step is a step of PubSub, or changes nothing a client can see.    *)
(***************************************************************************)

\* What a step does to the subscriptions and to the sockets that are open, and
\* which step takes a subscription from a client that is still there.
SubsStep ==
  \/ \E w \in Sockets, n \in Names, p \in Patterns : Abstract!Subscribe(w, n, p)
  \/ \E w \in Sockets, n \in Names, p \in Patterns :
       UnregisterCall(w, n, p) /\ Abstract!Unsubscribe(w, n, p)
  \/ \E w \in Sockets : Abstract!Disconnect(w) \/ Abstract!Drop(w)
  \/ UNCHANGED <<Subs, open>>

\* Subscriptions are equal when the same callbacks have the same patterns.
LEMMA SubsByHas ==
  ASSUME NEW S \in SUBSET (Sockets \X Names \X Patterns),
         \A c \in Sockets, n \in Names, p \in Patterns : Has(c, n, p)' <=> <<c, n, p>> \in S
  PROVE  Subs' = S
<1>1. Subs' \in SUBSET (Sockets \X Names \X Patterns)
  BY DEF Subs
<1>2. \A c \in Sockets, n \in Names, p \in Patterns : <<c, n, p>> \in Subs' <=> Has(c, n, p)'
  BY DEF Subs, SubsOf, Has
<1>3. QED
  BY <1>1, <1>2, SameSubs

\* The first, or one more, registration of w with p under n.
LEMMA SubscribeIsAbstract ==
  ASSUME NEW w \in Sockets, NEW n \in Names, NEW p \in Patterns, w \in open, n \notin Refused,
         \A c, m, q : m \in Names =>
           (Has(c, m, q)' <=> Has(c, m, q) \/ (c = w /\ m = n /\ q = p)),
         UNCHANGED open
  PROVE  Abstract!Subscribe(w, n, p)
<1>1. ASSUME NEW c \in Sockets, NEW m \in Names, NEW q \in Patterns
      PROVE  Has(c, m, q)' <=> <<c, m, q>> \in Subs \cup {<<w, n, p>>}
  <2>1. <<c, m, q>> \in Subs <=> Has(c, m, q)
    BY SubsAreHas
  <2>2. Has(c, m, q)' <=> Has(c, m, q) \/ (c = w /\ m = n /\ q = p)
    OBVIOUS
  <2>3. QED
    BY <2>1, <2>2
<1>2. Subs \cup {<<w, n, p>>} \in SUBSET (Sockets \X Names \X Patterns)
  BY DEF Subs
<1>3. Subs' = Subs \cup {<<w, n, p>>}
  BY <1>1, <1>2, SubsByHas
<1>4. QED
  BY <1>3 DEF Abstract!Subscribe

\* A step that changes no subscription and closes at most one socket.
LEMMA ClosingIsAbstract ==
  ASSUME NEW w \in Sockets, UNCHANGED Subs, open' = open \ {w}
  PROVE  SubsStep
<1>1. CASE w \in open
  BY <1>1 DEF SubsStep, Abstract!Disconnect
<1>2. CASE w \notin open
  <2>1. open' = open
    BY <1>2
  <2>2. QED
    BY <2>1 DEF SubsStep
<1>3. QED
  BY <1>1, <1>2

\* The steps of a request: one subscription more, one less, or none touched.
LEMMA RequestSubs ==
  ASSUME TypeOK, ClientInv,
         NEW w \in Sockets, NEW n \in Names, NEW p \in Patterns, Request(w, n, p)
  PROVE  SubsStep
<1> USE Typed
<1>1. CASE RegisterExisting(w, n, p)
  <2>1. /\ w \in open /\ Registered(n) /\ n \notin Refused
        /\ object' = [object EXCEPT ![n][channels[n]] = Register(ChannelOf(n), p, w)]
        /\ UNCHANGED <<channels, open>>
    <3>1. w \in open /\ Registered(n) /\ UNCHANGED <<channels, open>>
      BY <1>1 DEF RegisterExisting, Reads
    <3>2. channels[n] \in Objects
      BY <3>1 DEF Registered
    <3>3. n \notin Refused
      BY <3>1 DEF ClientInv, NamesAreAccepted
    <3>4. QED
      BY <1>1, <3>1, <3>2, <3>3 DEF RegisterExisting, ChannelOf
  <2>2. \A c, m, q : m \in Names =>
          (Has(c, m, q)' <=>
             IF m = n THEN q \in Subscribed(Register(ChannelOf(n), p, w), c) ELSE Has(c, m, q))
    BY <2>1, HasAfterChange
  <2>3. \A c, m, q : m \in Names =>
          (Has(c, m, q)' <=> Has(c, m, q) \/ (c = w /\ m = n /\ q = p))
    BY <2>1, <2>2, SubscribedAfterRegister DEF Has
  <2>4. QED
    BY <2>1, <2>3, SubscribeIsAbstract DEF SubsStep
<1>2. CASE UnregisterCall(w, n, p)
  <2>1. /\ w \in open /\ Registered(n) /\ UNCHANGED <<channels, open>>
        /\ object' = [object EXCEPT ![n][channels[n]] = Unregister(ChannelOf(n), p, w)]
    BY <1>2 DEF UnregisterCall, Reads
  <2>2. \A c, m, q : m \in Names =>
          (Has(c, m, q)' <=>
             IF m = n THEN q \in Subscribed(Unregister(ChannelOf(n), p, w), c) ELSE Has(c, m, q))
    BY <2>1, HasAfterChange
  <2>3. \A c, q : q \in Subscribed(Unregister(ChannelOf(n), p, w), c) <=>
                    Has(c, n, q) /\ ~(c = w /\ q = p)
    BY <2>1, SubscribedAfterRemove DEF Unregister, Has
  <2>4. \A c \in Sockets, m \in Names, q \in Patterns :
          Has(c, m, q)' <=> <<c, m, q>> \in Subs \ {<<w, n, p>>}
    BY <2>2, <2>3, SubsAreHas
  <2>5. Subs \ {<<w, n, p>>} \in SUBSET (Sockets \X Names \X Patterns)
    BY DEF Subs
  <2>6. Subs' = Subs \ {<<w, n, p>>}
    BY <2>4, <2>5, SubsByHas
  <2>7. Abstract!Unsubscribe(w, n, p)
    BY <2>1, <2>6 DEF Abstract!Unsubscribe
  <2>8. QED
    BY <1>2, <2>7 DEF SubsStep
<1>3. CASE RegisterBadPattern(w, n, p) \/ UnregisterBadPattern(w, n, p)
  <2>1. UNCHANGED <<channels, object>> /\ open' = open \ {w}
    BY <1>3 DEF RegisterBadPattern, UnregisterBadPattern, Crash, registry
  <2>2. QED
    BY <2>1, HasUnchanged, ClosingIsAbstract
<1>4. CASE RegisterMissing(w, n, p)
  <2>1. UNCHANGED <<channels, object, open>>
    BY <1>4 DEF RegisterMissing, registry
  <2>2. QED
    BY <2>1, HasUnchanged DEF SubsStep
<1>5. QED
  BY <1>1, <1>2, <1>3, <1>4 DEF Request

\* The pop that ends a removal takes nothing from anybody.
LEMMA PopSubs ==
  ASSUME TypeOK, LoopInv, NEW t \in Tasks, Pop(t), UNCHANGED <<object, open>>
  PROVE  SubsStep
<1>1. /\ target[t] \in Names /\ IsEmpty(ChannelOf(target[t]))
      /\ channels' = [channels EXCEPT ![target[t]] = None]
  BY DEF Pop, TypeOK, TaskType, LoopInv, NameIsAsFound, UnsubscribePc
<1>2. \A c, m, p : m \in Names => (Has(c, m, p)' <=> Has(c, m, p))
  BY <1>1, HasAfterPop
<1>3. \A c \in Sockets, m \in Names, p \in Patterns : Has(c, m, p)' <=> <<c, m, p>> \in Subs
  BY <1>2, SubsAreHas
<1>4. Subs \in SUBSET (Sockets \X Names \X Patterns)
  BY DEF Subs
<1>5. Subs' = Subs
  BY <1>3, <1>4, SubsByHas
<1>6. QED
  BY <1>5 DEF SubsStep

\* The steps of a client's handler: those of its requests, and its end.
LEMMA HandlerSubs ==
  ASSUME TypeOK, LoopInv, ClientInv, NEW w \in Sockets, HandlerStep(w)
  PROVE  SubsStep
<1> USE Typed
<1>1. CASE RegisterResume(w)
  <2>1. /\ target[w] \in Names /\ pattern[w] \in Patterns /\ w \in open
        /\ target[w] \notin Refused /\ ~Registered(target[w])
    BY <1>1 DEF RegisterResume, TypeOK, TaskType, SubscribePc, ClientInv, RequesterIsOpen,
       NamesAreAccepted, LoopInv, NameIsAsFound
  <2>2. PICK o \in Objects :
          /\ channels' = [channels EXCEPT ![target[w]] = o]
          /\ \/ /\ object' = [object EXCEPT ![target[w]][o] = Register(NewChannel, pattern[w], w)]
                /\ UNCHANGED open
             \/ /\ object' = [object EXCEPT ![target[w]][o] = NewChannel]
                /\ open' = open \ {w}
    BY <1>1 DEF RegisterResume, Fresh, Crash
  <2>3. \A c : Subscribed(NewChannel, c) = {}
    BY NewChannelType, SubscribedEmpty
  <2>4. \A c, q : ~Has(c, target[w], q)
    BY <2>1 DEF Has
  <2>5. CASE /\ object' = [object EXCEPT ![target[w]][o] = Register(NewChannel, pattern[w], w)]
             /\ UNCHANGED open
    <3>1. \A c, m, q : m \in Names =>
            (Has(c, m, q)' <=>
               IF m = target[w] THEN q \in Subscribed(Register(NewChannel, pattern[w], w), c)
                                ELSE Has(c, m, q))
      BY <2>1, <2>2, <2>5, HasAfterStore
    <3>2. \A c, m, q : m \in Names =>
            (Has(c, m, q)' <=> Has(c, m, q) \/ (c = w /\ m = target[w] /\ q = pattern[w]))
      BY <2>3, <2>4, <3>1, SubscribedAfterRegister
    <3>3. QED
      BY <2>1, <2>5, <3>2, SubscribeIsAbstract DEF SubsStep
  <2>6. CASE /\ object' = [object EXCEPT ![target[w]][o] = NewChannel]
             /\ open' = open \ {w}
    <3>1. \A c, m, q : m \in Names =>
            (Has(c, m, q)' <=>
               IF m = target[w] THEN q \in Subscribed(NewChannel, c) ELSE Has(c, m, q))
      BY <2>1, <2>2, <2>6, HasAfterStore
    <3>2. \A c \in Sockets, m \in Names, q \in Patterns : Has(c, m, q)' <=> <<c, m, q>> \in Subs
      BY <2>3, <2>4, <3>1, SubsAreHas
    <3>3. Subs \in SUBSET (Sockets \X Names \X Patterns)
      BY DEF Subs
    <3>4. Subs' = Subs
      BY <3>2, <3>3, SubsByHas
    <3>5. QED
      BY <2>6, <3>4, ClosingIsAbstract
  <2>7. QED
    BY <2>2, <2>5, <2>6
<1>2. CASE UnregisterReturn(w)
  BY <1>2, PopSubs DEF UnregisterReturn
<1>3. CASE UnregisterKeyError(w)
  BY <1>3 DEF UnregisterKeyError, KeyError, LoopInv, NameIsAsFound, UnsubscribePc
<1>4. CASE BackendSubscribe(w) \/ BackendRefuses(w) \/ RegisterReturn(w) \/ Leave(w)
           \/ BackendUnsubscribe(w)
  <2>1. UNCHANGED <<channels, object, open>>
    BY <1>4 DEF BackendSubscribe, BackendRefuses, RegisterReturn, Leave, BackendUnsubscribe,
       registry
  <2>2. QED
    BY <2>1, HasUnchanged DEF SubsStep
<1>5. QED
  BY <1>1, <1>2, <1>3, <1>4 DEF HandlerStep

\* The steps of a worker: its sweep drops subscriptions of clients that are gone.
LEMMA WorkerSubs ==
  ASSUME TypeOK, LoopInv, ClientInv, NEW k \in Workers,
         WorkerStep(k) \/ \E n \in Names, e \in Events : Dispatch(k, n, e)
  PROVE  SubsStep
<1> USE Typed
<1>1. CASE SweepChannel(k)
  <2>1. PICK n \in Names, o \in Objects :
          /\ <<n, o>> \in todo[k]
          /\ object' = [object EXCEPT ![n][o] = RemoveCallback(object[n][o], current[k])]
    BY <1>1 DEF SweepChannel
  <2>2. UNCHANGED <<channels, open>>
    BY <1>1 DEF SweepChannel
  <2>3. channels[n] = o /\ Registered(n)
    BY <2>1, ChannelsAssumption DEF LoopInv, SnapshotIsFresh, Registered
  <2>4. current[k] \in Sockets /\ current[k] \notin open
    BY <2>1 DEF ClientInv, FailedAreGone
  <2> DEFINE c == current[k]
             lost == {s \in Subs : s[1] = c /\ s[2] = n}
  <2>5. \A d, m, p : m \in Names =>
          (Has(d, m, p)' <=>
             IF m = n THEN p \in Subscribed(RemoveCallback(ChannelOf(n), c), d) ELSE Has(d, m, p))
    BY <2>1, <2>2, <2>3, HasAfterChange DEF ChannelOf
  <2>6. \A d, p : p \in Subscribed(RemoveCallback(ChannelOf(n), c), d) <=> Has(d, n, p) /\ d # c
    BY <2>3, SubscribedAfterRemove DEF RemoveCallback, Has, Subscribed
  <2>7. \A d \in Sockets, m \in Names, p \in Patterns : <<d, m, p>> \in lost <=>
          Has(d, m, p) /\ d = c /\ m = n
    BY SubsAreHas
  <2>8. \A d \in Sockets, m \in Names, p \in Patterns :
          Has(d, m, p)' <=> <<d, m, p>> \in Subs \ lost
    <3> HIDE DEF lost
    <3>1. QED
      BY <2>5, <2>6, <2>7, SubsAreHas
  <2>9. Subs \ lost \in SUBSET (Sockets \X Names \X Patterns)
    BY DEF Subs
  <2>10. Subs' = Subs \ lost
    BY <2>8, <2>9, SubsByHas
  <2>11. Abstract!Drop(c)
    BY <2>2, <2>4, <2>10 DEF Abstract!Drop
  <2>12. QED
    BY <2>4, <2>11 DEF SubsStep
<1>2. CASE SweepReturn(k)
  BY <1>2, PopSubs DEF SweepReturn
<1>3. CASE SweepKeyError(k)
  BY <1>3 DEF SweepKeyError, KeyError, LoopInv, NameIsAsFound, UnsubscribePc
<1>4. ASSUME NEW c \in Sockets, DeliveryFails(k, c)
      PROVE  SubsStep
  <2>1. UNCHANGED <<channels, object>> /\ open' = open \ {c}
    BY <1>4 DEF DeliveryFails, registry
  <2>2. QED
    BY <2>1, HasUnchanged, ClosingIsAbstract
<1>5. CASE \/ \E c \in Sockets : Deliver(k, c)
           \/ GatherReturns(k) \/ SweepNext(k) \/ BackendUnsubscribe(k) \/ DispatchReturns(k)
           \/ \E n \in Names, e \in Events : Dispatch(k, n, e)
  <2>1. UNCHANGED <<channels, object, open>>
    BY <1>5 DEF Deliver, GatherReturns, SweepNext, BackendUnsubscribe, DispatchReturns,
       Dispatch, registry
  <2>2. QED
    BY <2>1, HasUnchanged DEF SubsStep
<1>6. QED
  BY <1>1, <1>2, <1>3, <1>4, <1>5 DEF WorkerStep

\* So every step of the registry is a step of the subscriptions.
LEMMA EveryStepIsASubsStep ==
  ASSUME TypeOK, LoopInv, ClientInv, [Next]_vars
  PROVE  SubsStep
<1>1. ASSUME NEW w \in Sockets, Disconnect(w)
      PROVE  SubsStep
  <2>1. UNCHANGED <<channels, object>> /\ open' = open \ {w}
    BY <1>1 DEF Disconnect, registry
  <2>2. QED
    BY <2>1, HasUnchanged, ClosingIsAbstract
<1>2. CASE UNCHANGED vars
  BY <1>2, HasUnchanged DEF vars, registry, SubsStep
<1>3. QED
  BY <1>1, <1>2, RequestSubs, HandlerSubs, WorkerSubs DEF Next

\* The registry of channels implements the abstract publish/subscribe: only its
\* owner gives or takes a subscription of a client that is connected, none is
\* ever given under a refused name or to a client that is gone, and all that a
\* dispatch drops are subscriptions of clients that are gone.
THEOREM ChannelsImplementPubSub ==
  ASSUME ~Yields
  PROVE  Spec => Implements
<1>1. Init => Abstract!Init
  BY DEF Init, InitIdle, Abstract!Init, Subs, SubsOf, Registered
<1>2. SubsStep => [Abstract!Next]_(Abstract!vars)
  BY DEF SubsStep, Abstract!Next, Abstract!vars
<1>3. TypeOK /\ SyncInv /\ ClientInv /\ [Next]_vars => [Abstract!Next]_(Abstract!vars)
  BY <1>2, EveryStepIsASubsStep DEF SyncInv
<1>4. QED
  BY <1>1, <1>3, TypeCorrect, SyncInvariant, ClientInvariant, PTL
     DEF Spec, Implements, Abstract!Spec

\* While its connection is open, only its own unsubscribe takes a subscription
\* from a client.
THEOREM OnlyTheOwnerUnsubscribes ==
  ASSUME ~Yields
  PROVE  Spec => SubscriptionsStay
<1> DEFINE Stay ==
             \A w \in open' :
               (\A n \in Names, p \in Patterns : ~UnregisterCall(w, n, p))
                 => SubsOf(w) \subseteq SubsOf(w)'
<1>1. TypeOK /\ SyncInv /\ ClientInv /\ [Next]_vars => Stay
  <2> SUFFICES ASSUME TypeOK, SyncInv, ClientInv, [Next]_vars, NEW w \in open',
                      \A n \in Names, p \in Patterns : ~UnregisterCall(w, n, p)
               PROVE  SubsOf(w) \subseteq SubsOf(w)'
    OBVIOUS
  <2>1. SubsStep
    BY EveryStepIsASubsStep DEF SyncInv
  <2>2. w \in Sockets /\ w \in open
    BY OpenShrinks, Typed
  <2>3. SubsOf(w) = {s \in Names \X Patterns : <<w, s[1], s[2]>> \in Subs}
    BY <2>2 DEF Subs, SubsOf
  <2>4. SubsOf(w)' = {s \in Names \X Patterns : <<w, s[1], s[2]>> \in Subs'}
    BY <2>2 DEF Subs, SubsOf
  <2>5. \A s \in Names \X Patterns : <<w, s[1], s[2]>> \in Subs => <<w, s[1], s[2]>> \in Subs'
    <3>1. ASSUME NEW v \in Sockets, NEW n \in Names, NEW p \in Patterns,
                 UnregisterCall(v, n, p), Abstract!Unsubscribe(v, n, p)
          PROVE  \A s : <<w, s[1], s[2]>> \in Subs => <<w, s[1], s[2]>> \in Subs'
      BY <3>1 DEF Abstract!Unsubscribe
    <3>2. ASSUME NEW v \in Sockets, Abstract!Drop(v)
          PROVE  \A s : <<w, s[1], s[2]>> \in Subs => <<w, s[1], s[2]>> \in Subs'
      BY <2>2, <3>2 DEF Abstract!Drop
    <3>3. ASSUME \/ \E v \in Sockets, n \in Names, p \in Patterns : Abstract!Subscribe(v, n, p)
                 \/ \E v \in Sockets : Abstract!Disconnect(v)
                 \/ UNCHANGED <<Subs, open>>
          PROVE  Subs \subseteq Subs'
      BY <3>3 DEF Abstract!Subscribe, Abstract!Disconnect
    <3>4. QED
      BY <2>1, <3>1, <3>2, <3>3 DEF SubsStep
  <2>6. QED
    BY <2>3, <2>4, <2>5
<1>2. QED
  BY <1>1, TypeCorrect, SyncInvariant, ClientInvariant, PTL DEF Spec, SubscriptionsStay

=============================================================================
