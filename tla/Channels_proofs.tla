--------------------------- MODULE Channels_proofs ---------------------------
(***************************************************************************)
(* Theorems about the registry of channels, for any number of sockets,     *)
(* workers, channel names, patterns and events.                            *)
(***************************************************************************)
EXTENDS Channels, TLAPS

(***************************************************************************)
(* The operations of one Channel object.                                   *)
(***************************************************************************)

\* A dictionary from patterns to sets of callbacks is one with its own keys.
LEMMA EventMapsDef ==
  \A f : f \in EventMaps <=>
           /\ f = [p \in DOMAIN f |-> f[p]]
           /\ DOMAIN f \subseteq Patterns
           /\ \A p \in DOMAIN f : f[p] \subseteq Sockets
<1>1. ASSUME NEW f, f \in EventMaps
      PROVE  /\ f = [p \in DOMAIN f |-> f[p]]
             /\ DOMAIN f \subseteq Patterns
             /\ \A p \in DOMAIN f : f[p] \subseteq Sockets
  <2>1. PICK P \in SUBSET Patterns : f \in [P -> SUBSET Sockets]
    BY <1>1 DEF EventMaps
  <2>2. QED
    BY <2>1
<1>2. ASSUME NEW f,
             f = [p \in DOMAIN f |-> f[p]],
             DOMAIN f \subseteq Patterns,
             \A p \in DOMAIN f : f[p] \subseteq Sockets
      PROVE  f \in EventMaps
  <2>1. f \in [DOMAIN f -> SUBSET Sockets]
    BY <1>2
  <2>2. DOMAIN f \in SUBSET Patterns
    BY <1>2
  <2>3. QED
    BY <2>1, <2>2 DEF EventMaps
<1>3. QED
  BY <1>1, <1>2

\* A new channel is a channel without events.
LEMMA NewChannelType ==
  /\ NewChannel \in Channel
  /\ IsEmpty(NewChannel)
  /\ NoEmptyEvent(NewChannel)
  /\ InsertionOrder(NewChannel)
<1>1. [p \in {} |-> {}] \in [{} -> SUBSET Sockets]
  OBVIOUS
<1>2. [p \in {} |-> {}] \in EventMaps
  BY <1>1 DEF EventMaps
<1>3. QED
  BY <1>2 DEF NewChannel, Channel, IsEmpty, EventsOf, NoEmptyEvent, InsertionOrder

\* The events and the callbacks of a channel have the right types.
LEMMA ChannelFields ==
  ASSUME NEW ch \in Channel
  PROVE  /\ EventsOf(ch) \subseteq Patterns
         /\ \A p \in EventsOf(ch) : ch.callbacks[p] \subseteq Sockets
         /\ ch.older \subseteq Patterns \X Patterns
  BY EventMapsDef DEF Channel, EventsOf

\* Registering a callback gives a channel that has the event, with the callback
\* in it, and in which nothing else changed.
LEMMA RegisterType ==
  ASSUME NEW ch \in Channel, NEW p \in Patterns, NEW cb \in Sockets
  PROVE  /\ Register(ch, p, cb) \in Channel
         /\ EventsOf(Register(ch, p, cb)) = EventsOf(ch) \cup {p}
         /\ ~IsEmpty(Register(ch, p, cb))
<1> DEFINE f == [q \in EventsOf(ch) \cup {p} |->
                   CallbacksOf(ch, q) \cup (IF q = p THEN {cb} ELSE {})]
<1>1. EventsOf(ch) \cup {p} \in SUBSET Patterns
  BY ChannelFields
<1>2. \A q \in EventsOf(ch) \cup {p} : f[q] \in SUBSET Sockets
  BY ChannelFields DEF CallbacksOf
<1>3. f \in EventMaps
  <2>1. f \in [EventsOf(ch) \cup {p} -> SUBSET Sockets]
    BY <1>2
  <2>2. QED
    BY <1>1, <2>1 DEF EventMaps
<1>4. Register(ch, p, cb).older \subseteq Patterns \X Patterns
  BY ChannelFields DEF Register
<1>5. DOMAIN f = EventsOf(ch) \cup {p}
  OBVIOUS
<1>6. Register(ch, p, cb).callbacks = f
  BY DEF Register
<1>7. EventsOf(Register(ch, p, cb)) = EventsOf(ch) \cup {p}
  BY <1>5, <1>6 DEF EventsOf
<1>8. Register(ch, p, cb) \in Channel
  BY <1>3, <1>4, <1>6 DEF Channel, Register
<1>9. QED
  BY <1>7, <1>8 DEF IsEmpty

\* Removing a callback gives a channel with a subset of the events.
LEMMA RemoveType ==
  ASSUME NEW ch \in Channel, NEW P, NEW cb
  PROVE  /\ RemoveEventCallback(ch, P, cb) \in Channel
         /\ EventsOf(RemoveEventCallback(ch, P, cb)) \subseteq EventsOf(ch)
<1> DEFINE Left(q) == IF q \in P THEN ch.callbacks[q] \ {cb} ELSE ch.callbacks[q]
           kept == {q \in EventsOf(ch) : q \in P => Left(q) # {}}
           f == [q \in kept |-> Left(q)]
<1>1. kept \in SUBSET Patterns
  BY ChannelFields
<1>2. \A q \in kept : f[q] \in SUBSET Sockets
  BY ChannelFields
<1>3. f \in EventMaps
  <2>1. f \in [kept -> SUBSET Sockets]
    BY <1>2
  <2>2. QED
    BY <1>1, <2>1 DEF EventMaps
<1>4. RemoveEventCallback(ch, P, cb) = [callbacks |-> f, older |-> ch.older \cap (kept \X kept)]
  BY DEF RemoveEventCallback
<1>5. ch.older \cap (kept \X kept) \subseteq Patterns \X Patterns
  BY ChannelFields
<1>6. DOMAIN f = kept
  OBVIOUS
<1>7. QED
  <2> HIDE DEF f, kept
  <2>1. kept \subseteq EventsOf(ch)
    BY DEF kept
  <2>2. QED
    BY <1>3, <1>4, <1>5, <1>6, <2>1 DEF Channel, EventsOf

\* Registering a callback leaves no event empty and keeps the insertion order.
LEMMA RegisterOK ==
  ASSUME NEW ch \in Channel, NEW p \in Patterns, NEW cb \in Sockets,
         NoEmptyEvent(ch), InsertionOrder(ch)
  PROVE  /\ NoEmptyEvent(Register(ch, p, cb))
         /\ InsertionOrder(Register(ch, p, cb))
<1> DEFINE new == Register(ch, p, cb)
<1>1. EventsOf(new) = EventsOf(ch) \cup {p}
  BY RegisterType
<1>2. \A q \in EventsOf(new) :
        new.callbacks[q] = CallbacksOf(ch, q) \cup (IF q = p THEN {cb} ELSE {})
  BY <1>1 DEF Register
<1>3. NoEmptyEvent(new)
  BY <1>1, <1>2 DEF NoEmptyEvent, CallbacksOf
<1>4. new.older = IF p \in EventsOf(ch) THEN ch.older ELSE ch.older \cup (EventsOf(ch) \X {p})
  BY DEF Register
<1>5. InsertionOrder(new)
  <2>1. CASE p \in EventsOf(ch)
    <3>1. EventsOf(new) = EventsOf(ch) /\ new.older = ch.older
      BY <1>1, <1>4, <2>1
    <3>2. QED
      BY <3>1 DEF InsertionOrder
  <2>2. CASE p \notin EventsOf(ch)
    <3> HIDE DEF new
    <3>1. new.older = ch.older \cup (EventsOf(ch) \X {p})
      BY <1>4, <2>2
    <3>2. \A q, r : <<q, r>> \in new.older <=>
                      \/ <<q, r>> \in ch.older
                      \/ q \in EventsOf(ch) /\ r = p
      BY <3>1
    <3>3. \A q, r : <<q, r>> \in ch.older => q \in EventsOf(ch) /\ r \in EventsOf(ch)
      BY DEF InsertionOrder
    <3>4. new.older \subseteq EventsOf(new) \X EventsOf(new)
      BY <1>1, <3>1 DEF InsertionOrder
    <3>5. \A q \in EventsOf(new) : <<q, q>> \notin new.older
      BY <1>1, <2>2, <3>2, <3>3 DEF InsertionOrder
    <3>6. \A q, r \in EventsOf(new) :
            q # r => (<<q, r>> \in new.older <=> <<r, q>> \notin new.older)
      BY <1>1, <2>2, <3>2, <3>3 DEF InsertionOrder
    <3>7. \A q, r, s \in EventsOf(new) :
            <<q, r>> \in new.older /\ <<r, s>> \in new.older => <<q, s>> \in new.older
      BY <1>1, <2>2, <3>2, <3>3 DEF InsertionOrder
    <3>8. QED
      BY <3>4, <3>5, <3>6, <3>7 DEF InsertionOrder
  <2>3. QED
    BY <2>1, <2>2
<1>6. QED
  BY <1>3, <1>5

\* So does removing one.
LEMMA RemoveOK ==
  ASSUME NEW ch \in Channel, NEW P, NEW cb, NoEmptyEvent(ch), InsertionOrder(ch)
  PROVE  /\ NoEmptyEvent(RemoveEventCallback(ch, P, cb))
         /\ InsertionOrder(RemoveEventCallback(ch, P, cb))
<1> DEFINE Left(q) == IF q \in P THEN ch.callbacks[q] \ {cb} ELSE ch.callbacks[q]
           kept == {q \in EventsOf(ch) : q \in P => Left(q) # {}}
           new == RemoveEventCallback(ch, P, cb)
<1>1. new = [callbacks |-> [q \in kept |-> Left(q)], older |-> ch.older \cap (kept \X kept)]
  BY DEF RemoveEventCallback
<1>2. EventsOf(new) = kept /\ new.older = ch.older \cap (kept \X kept)
  BY <1>1 DEF EventsOf
<1>3. NoEmptyEvent(new)
  <2>1. \A q \in kept : Left(q) # {}
    BY DEF NoEmptyEvent
  <2>2. \A q \in kept : new.callbacks[q] = Left(q)
    BY <1>1
  <2> HIDE DEF kept, new, Left
  <2>3. QED
    BY <1>2, <2>1, <2>2 DEF NoEmptyEvent
<1>4. InsertionOrder(new)
  <2>1. kept \subseteq EventsOf(ch)
    OBVIOUS
  <2>2. \A q, r : <<q, r>> \in new.older <=> <<q, r>> \in ch.older /\ q \in kept /\ r \in kept
    BY <1>2
  <2> HIDE DEF kept, new
  <2>3. QED
    BY <1>2, <2>1, <2>2 DEF InsertionOrder
<1>5. QED
  BY <1>3, <1>4

-----------------------------------------------------------------------------
(***************************************************************************)
(* Type correctness.                                                       *)
(***************************************************************************)

\* A step keeps the type of every variable: channels, tasks and snapshots stay
\* what the code makes of them, whatever the interleaving.
LEMMA TypeStep ==
  ASSUME TypeOK, [Next]_vars
  PROVE  TypeOK'
<1> USE ChannelsAssumption DEF Tasks
<1> USE DEF TypeOK, SocketPc, WorkerPc, SubscribePc, UnsubscribePc
<1>1. ASSUME NEW w \in Sockets, NEW n \in Names, NEW p \in Patterns, Request(w, n, p)
      PROVE  TypeOK'
  <2>1. CASE RegisterExisting(w, n, p)
    <3> USE <2>1 DEF RegisterExisting, Goto, Awaits
    <3>a. channels[n] \in Objects /\ object[n][channels[n]] \in Channel
      BY DEF Registered, RegistryType
    <3>e. Register(object[n][channels[n]], p, w) \in Channel
      BY <3>a, RegisterType
    <3>r. RegistryType'
      BY <3>a, <3>e DEF RegistryType
    <3>t. TaskType'
      BY DEF TaskType, request, RegistryType
    <3>d. DispatchType'
      BY DEF DispatchType, dispatch, RegistryType
    <3>q. QED
      BY <3>r, <3>t, <3>d
  <2>2. CASE RegisterBadPattern(w, n, p)
    <3> USE <2>2 DEF RegisterBadPattern, Crash, Goto, Suspends
    <3>r. RegistryType'
      BY DEF RegistryType, registry
    <3>t. TaskType'
      BY DEF TaskType, request, RegistryType
    <3>d. DispatchType'
      BY DEF DispatchType, dispatch, RegistryType
    <3>q. QED
      BY <3>r, <3>t, <3>d
  <2>3. CASE RegisterMissing(w, n, p)
    <3> USE <2>3 DEF RegisterMissing, Goto, Awaits
    <3>r. RegistryType'
      BY DEF RegistryType, registry
    <3>t. TaskType'
      BY DEF TaskType, request, RegistryType
    <3>d. DispatchType'
      BY DEF DispatchType, dispatch, RegistryType
    <3>q. QED
      BY <3>r, <3>t, <3>d
  <2>4. CASE UnregisterCall(w, n, p)
    <3> USE <2>4 DEF UnregisterCall, RemoveChannel, ChannelOf, Goto, Awaits, Suspends
    <3>a. channels[n] \in Objects /\ object[n][channels[n]] \in Channel
      BY DEF Registered, RegistryType
    <3>e. Unregister(object[n][channels[n]], p, w) \in Channel
      BY <3>a, RemoveType DEF Unregister
    <3>r. RegistryType'
      BY <3>a, <3>e DEF RegistryType
    <3>t. TaskType'
      <4>1. CASE target' = [target EXCEPT ![w] = n] /\ pc' = [pc EXCEPT ![w] = "unsubscribing"]
        BY <4>1 DEF TaskType, request
      <4>2. CASE loop' = None /\ UNCHANGED <<pc, target>>
        BY <4>2 DEF TaskType, request
      <4>3. QED
        BY <4>1, <4>2
    <3>d. DispatchType'
      BY DEF DispatchType, dispatch, RegistryType
    <3>q. QED
      BY <3>r, <3>t, <3>d
  <2>5. CASE UnregisterBadPattern(w, n, p)
    <3> USE <2>5 DEF UnregisterBadPattern, Crash, Goto, Suspends
    <3>r. RegistryType'
      BY DEF RegistryType, registry
    <3>t. TaskType'
      BY DEF TaskType, request, RegistryType
    <3>d. DispatchType'
      BY DEF DispatchType, dispatch, RegistryType
    <3>q. QED
      BY <3>r, <3>t, <3>d
  <2>6. QED
    BY <1>1, <2>1, <2>2, <2>3, <2>4, <2>5 DEF Request
<1>2. ASSUME NEW t \in Tasks, BackendUnsubscribe(t)
      PROVE  TypeOK'
  <2> USE <1>2 DEF BackendUnsubscribe, Goto
  <2>1. RegistryType'
    BY DEF RegistryType
  <2>2. TaskType'
    BY DEF TaskType, request
  <2>3. DispatchType'
    BY DEF DispatchType, dispatch
  <2>4. QED
    BY <2>1, <2>2, <2>3
<1>3. ASSUME NEW w \in Sockets, HandlerStep(w)
      PROVE  TypeOK'
  <2>1. CASE BackendSubscribe(w)
    <3> USE <2>1 DEF BackendSubscribe, Goto
    <3>r. RegistryType'
      BY DEF RegistryType, TaskType, registry
    <3>t. TaskType'
      BY DEF TaskType, request, RegistryType
    <3>d. DispatchType'
      BY DEF DispatchType, dispatch, RegistryType
    <3>q. QED
      BY <3>r, <3>t, <3>d
  <2>2. CASE BackendRefuses(w)
    <3> USE <2>2 DEF BackendRefuses, Goto, Suspends
    <3>r. RegistryType'
      BY DEF RegistryType, registry
    <3>t. TaskType'
      BY DEF TaskType, request, RegistryType
    <3>d. DispatchType'
      BY DEF DispatchType, dispatch, RegistryType
    <3>q. QED
      BY <3>r, <3>t, <3>d
  <2>3. CASE RegisterResume(w)
    <3> USE <2>3
    <3>a. target[w] \in Names /\ pattern[w] \in Patterns
      BY DEF RegisterResume, TaskType
    <3>b. NewChannel \in Channel /\ Register(NewChannel, pattern[w], w) \in Channel
      BY <3>a, NewChannelType, RegisterType
    <3>e. PICK o \in Fresh(target[w]) :
            /\ channels' = [channels EXCEPT ![target[w]] = o]
            /\ \/ /\ object' = [object EXCEPT ![target[w]][o] = Register(NewChannel, pattern[w], w)]
                  /\ Goto(w, "hooking")
                  /\ target' = [target EXCEPT ![w] = None]
                  /\ pattern' = [pattern EXCEPT ![w] = None]
                  /\ Awaits(w)
                  /\ UNCHANGED open
               \/ /\ object' = [object EXCEPT ![target[w]][o] = NewChannel]
                  /\ Crash(w)
      BY DEF RegisterResume
    <3>f. o \in Objects
      BY DEF Fresh
    <3>g. PICK ch \in Channel : object' = [object EXCEPT ![target[w]][o] = ch]
      BY <3>b, <3>e
    <3>h. UNCHANGED <<backend, dispatch>>
      BY DEF RegisterResume
    <3>r. RegistryType'
      <4>1. channels' \in [Names -> Objects \cup {None}]
        BY <3>a, <3>e, <3>f DEF RegistryType
      <4>2. object' \in [Names -> [Objects -> Channel]]
        BY <3>a, <3>f, <3>g DEF RegistryType
      <4>3. QED
        BY <4>1, <4>2, <3>h DEF RegistryType
    <3>t. TaskType'
      <4>1. CASE Crash(w)
        BY <4>1 DEF Crash, Goto, Suspends, TaskType
      <4>2. CASE Goto(w, "hooking") /\ Awaits(w) /\ ~Crash(w)
        BY <3>e, <4>2 DEF Goto, Awaits, TaskType
      <4>3. QED
        BY <3>e, <4>1, <4>2
    <3>d. DispatchType'
      BY <3>h DEF DispatchType, dispatch
    <3>q. QED
      BY <3>r, <3>t, <3>d
  <2>4. CASE RegisterReturn(w)
    <3> USE <2>4 DEF RegisterReturn, Goto, Suspends
    <3>r. RegistryType'
      BY DEF RegistryType, registry
    <3>t. TaskType'
      BY DEF TaskType, request, RegistryType
    <3>d. DispatchType'
      BY DEF DispatchType, dispatch, RegistryType
    <3>q. QED
      BY <3>r, <3>t, <3>d
  <2>5. CASE UnregisterReturn(w)
    <3> USE <2>5 DEF UnregisterReturn, Pop, Goto, Suspends
    <3>r. RegistryType'
      BY DEF RegistryType, registry
    <3>t. TaskType'
      BY DEF TaskType, request, RegistryType
    <3>d. DispatchType'
      BY DEF DispatchType, dispatch, RegistryType
    <3>q. QED
      BY <3>r, <3>t, <3>d
  <2>6. CASE UnregisterKeyError(w)
    <3> USE <2>6 DEF UnregisterKeyError, KeyError, Crash, Goto, Suspends
    <3>r. RegistryType'
      BY DEF RegistryType, registry
    <3>t. TaskType'
      BY DEF TaskType, request, RegistryType
    <3>d. DispatchType'
      BY DEF DispatchType, dispatch, RegistryType
    <3>q. QED
      BY <3>r, <3>t, <3>d
  <2>7. CASE Leave(w)
    <3> USE <2>7 DEF Leave, Goto
    <3>r. RegistryType'
      BY DEF RegistryType, registry
    <3>t. TaskType'
      BY DEF TaskType, request, RegistryType
    <3>d. DispatchType'
      BY DEF DispatchType, dispatch, RegistryType
    <3>q. QED
      BY <3>r, <3>t, <3>d
  <2>8. QED
    BY <1>2, <1>3, <2>1, <2>2, <2>3, <2>4, <2>5, <2>6, <2>7 DEF HandlerStep
<1>4. ASSUME NEW w \in Sockets, Disconnect(w)
      PROVE  TypeOK'
  BY <1>4 DEF Disconnect, registry, request, dispatch, RegistryType, TaskType, DispatchType
<1>5. ASSUME NEW k \in Workers, NEW n \in Names, NEW e \in Events, Dispatch(k, n, e)
      PROVE  TypeOK'
  <2>1. Audience(n, e) \subseteq Sockets
    <3>1. CASE Active(n)
      <4>1. ChannelOf(n) \in Channel
        BY <3>1 DEF Active, Registered, ChannelOf, RegistryType
      <4>2. Recipients(ChannelOf(n), Matches[e]) \subseteq Sockets
        BY <4>1, ChannelFields DEF Recipients, FirstMatch
      <4>3. QED
        BY <3>1, <4>2 DEF Audience
    <3>2. CASE ~Active(n)
      BY <3>2 DEF Audience
    <3>3. QED
      BY <3>1, <3>2
  <2>2. QED
    BY <1>5, <2>1 DEF Dispatch, Goto, registry, request, RegistryType, TaskType, DispatchType
<1>6. ASSUME NEW k \in Workers, WorkerStep(k)
      PROVE  TypeOK'
  <2>1. ASSUME NEW c \in Sockets, Deliver(k, c)
        PROVE  TypeOK'
    BY <2>1 DEF Deliver, registry, request, RegistryType, TaskType, DispatchType
  <2>2. ASSUME NEW c \in Sockets, DeliveryFails(k, c)
        PROVE  TypeOK'
    BY <2>2 DEF DeliveryFails, registry, request, RegistryType, TaskType, DispatchType
  <2>3. CASE GatherReturns(k)
    <3> USE <2>3 DEF GatherReturns, Goto
    <3>r. RegistryType'
      BY DEF RegistryType, registry
    <3>t. TaskType'
      BY DEF TaskType, request, RegistryType
    <3>d. DispatchType'
      BY DEF DispatchType, dispatch, RegistryType
    <3>q. QED
      BY <3>r, <3>t, <3>d
  <2>4. CASE SweepNext(k)
    <3> USE <2>4 DEF SweepNext, NextClosed, Snapshot, Registered
    <3>r. RegistryType'
      BY DEF RegistryType, registry
    <3>t. TaskType'
      BY DEF TaskType, request, RegistryType
    <3>d. DispatchType'
      BY DEF DispatchType, dispatch, RegistryType
    <3>q. QED
      BY <3>r, <3>t, <3>d
  <2>5. CASE SweepChannel(k)
    <3> USE <2>5 DEF SweepChannel, RemoveChannel, Goto, Awaits
    <3>a. PICK n \in Names, o \in Objects :
            /\ todo' = [todo EXCEPT ![k] = @ \ {<<n, o>>}]
            /\ object' = [object EXCEPT ![n][o] = RemoveCallback(object[n][o], current[k])]
            /\ \/ /\ target' = [target EXCEPT ![k] = n]
                  /\ Goto(k, "unsubscribing")
                  /\ Awaits(k)
               \/ /\ loop' = k
                  /\ UNCHANGED <<pc, target>>
      OBVIOUS
    <3>e. RemoveCallback(object[n][o], current[k]) \in Channel
      BY RemoveType DEF RemoveCallback, RegistryType
    <3>r. RegistryType'
      BY <3>a, <3>e DEF RegistryType
    <3>t. TaskType'
      BY <3>a DEF TaskType
    <3>d. DispatchType'
      BY DEF DispatchType, dispatch, RegistryType
    <3>q. QED
      BY <3>r, <3>t, <3>d
  <2>6. CASE SweepReturn(k)
    <3> USE <2>6 DEF SweepReturn, Pop, Goto
    <3>r. RegistryType'
      BY DEF RegistryType, registry
    <3>t. TaskType'
      BY DEF TaskType, request, RegistryType
    <3>d. DispatchType'
      BY DEF DispatchType, dispatch, RegistryType
    <3>q. QED
      BY <3>r, <3>t, <3>d
  <2>7. CASE SweepKeyError(k)
    <3> USE <2>7 DEF SweepKeyError, KeyError, Goto, Suspends
    <3>r. RegistryType'
      BY DEF RegistryType, registry
    <3>t. TaskType'
      BY DEF TaskType, request, RegistryType
    <3>d. DispatchType'
      BY DEF DispatchType, dispatch, RegistryType
    <3>q. QED
      BY <3>r, <3>t, <3>d
  <2>8. CASE DispatchReturns(k)
    <3> USE <2>8 DEF DispatchReturns, Goto, Suspends
    <3>r. RegistryType'
      BY DEF RegistryType, registry
    <3>t. TaskType'
      BY DEF TaskType, request, RegistryType
    <3>d. DispatchType'
      BY DEF DispatchType, dispatch, RegistryType
    <3>q. QED
      BY <3>r, <3>t, <3>d
  <2>9. QED
    BY <1>2, <1>6, <2>1, <2>2, <2>3, <2>4, <2>5, <2>6, <2>7, <2>8 DEF WorkerStep
<1>7. CASE UNCHANGED vars
  BY <1>7 DEF vars, registry, request, dispatch, RegistryType, TaskType, DispatchType
<1>8. QED
  BY <1>1, <1>3, <1>4, <1>5, <1>6, <1>7 DEF Next

\* Every variable keeps its type.
THEOREM TypeCorrect == Spec => []TypeOK
<1>1. Init => TypeOK
  BY ChannelsAssumption, NewChannelType DEF Init, InitIdle, TypeOK, RegistryType, TaskType,
     DispatchType, Tasks, SocketPc, WorkerPc, SubscribePc, UnsubscribePc
<1>2. QED
  BY <1>1, TypeStep, PTL DEF Spec

-----------------------------------------------------------------------------
(***************************************************************************)
(* The channels themselves.                                                *)
(***************************************************************************)

\* A step changes at most one Channel object, by one of its operations.
LEMMA ObjectSteps ==
  ASSUME TypeOK, [Next]_vars
  PROVE  \/ UNCHANGED object
         \/ \E n \in Names, o \in Objects :
              \/ \E ch \in {NewChannel, object[n][o]}, p \in Patterns, w \in Sockets :
                   object' = [object EXCEPT ![n][o] = Register(ch, p, w)]
              \/ \E P, cb : object' = [object EXCEPT ![n][o] = RemoveEventCallback(object[n][o], P, cb)]
              \/ object' = [object EXCEPT ![n][o] = NewChannel]
<1> USE DEF registry
<1>1. ASSUME NEW w \in Sockets, NEW n \in Names, NEW p \in Patterns, RegisterExisting(w, n, p)
      PROVE  \E o \in Objects : object' = [object EXCEPT ![n][o] = Register(object[n][o], p, w)]
  BY <1>1 DEF RegisterExisting, Registered, TypeOK, RegistryType
<1>2. ASSUME NEW w \in Sockets, NEW n \in Names, NEW p \in Patterns, UnregisterCall(w, n, p)
      PROVE  \E o \in Objects : \E P, cb :
               object' = [object EXCEPT ![n][o] = RemoveEventCallback(object[n][o], P, cb)]
  BY <1>2 DEF UnregisterCall, RemoveChannel, Unregister, ChannelOf, Registered, TypeOK,
     RegistryType
<1>3. ASSUME NEW w \in Sockets, RegisterResume(w)
      PROVE  /\ target[w] \in Names /\ pattern[w] \in Patterns
             /\ \E o \in Objects :
                  \/ object' = [object EXCEPT ![target[w]][o] = Register(NewChannel, pattern[w], w)]
                  \/ object' = [object EXCEPT ![target[w]][o] = NewChannel]
  BY <1>3 DEF RegisterResume, Fresh, TypeOK, TaskType, SubscribePc, Tasks
<1>4. ASSUME NEW k \in Workers, SweepChannel(k)
      PROVE  \E n \in Names, o \in Objects : \E P, cb :
               object' = [object EXCEPT ![n][o] = RemoveEventCallback(object[n][o], P, cb)]
  <2>1. PICK n \in Names, o \in Objects :
          object' = [object EXCEPT ![n][o] = RemoveCallback(object[n][o], current[k])]
    BY <1>4 DEF SweepChannel, RemoveChannel
  <2>2. object' = [object EXCEPT ![n][o] =
                     RemoveEventCallback(object[n][o], EventsOf(object[n][o]), current[k])]
    BY <2>1 DEF RemoveCallback
  <2>3. QED
    BY <2>2
<1>5. ASSUME NEW t \in Tasks, BackendUnsubscribe(t)
      PROVE  UNCHANGED object
  BY <1>5 DEF BackendUnsubscribe
<1>6. ASSUME NEW w \in Sockets, NEW n \in Names, NEW p \in Patterns, Request(w, n, p),
             ~RegisterExisting(w, n, p), ~UnregisterCall(w, n, p)
      PROVE  UNCHANGED object
  BY <1>6 DEF Request, RegisterBadPattern, RegisterMissing, UnregisterBadPattern
<1>7. ASSUME NEW w \in Sockets, HandlerStep(w) \/ Disconnect(w), ~RegisterResume(w)
      PROVE  UNCHANGED object
  BY <1>5, <1>7 DEF HandlerStep, Tasks, BackendSubscribe, BackendRefuses, RegisterReturn,
     UnregisterReturn, UnregisterKeyError, Leave, Disconnect
<1>8. ASSUME NEW k \in Workers, WorkerStep(k), ~SweepChannel(k)
      PROVE  UNCHANGED object
  BY <1>5, <1>8 DEF WorkerStep, Tasks, Deliver, DeliveryFails, GatherReturns, SweepNext,
     NextClosed, Snapshot,
     SweepReturn, SweepKeyError, DispatchReturns
<1>9. ASSUME NEW k \in Workers, NEW n \in Names, NEW e \in Events, Dispatch(k, n, e)
      PROVE  UNCHANGED object
  BY <1>9 DEF Dispatch
<1>10. CASE UNCHANGED vars
  BY <1>10 DEF vars
<1>11. CASE \E w \in Sockets, n \in Names, p \in Patterns : Request(w, n, p)
  <2>1. PICK w \in Sockets, n \in Names, p \in Patterns : Request(w, n, p)
    BY <1>11
  <2>2. CASE RegisterExisting(w, n, p)
    BY <1>1, <2>2
  <2>3. CASE UnregisterCall(w, n, p)
    BY <1>2, <2>3
  <2>4. QED
    BY <1>6, <2>1, <2>2, <2>3
<1>12. CASE \E w \in Sockets : HandlerStep(w) \/ Disconnect(w)
  <2>1. PICK w \in Sockets : HandlerStep(w) \/ Disconnect(w)
    BY <1>12
  <2>2. CASE RegisterResume(w)
    <3>1. target[w] \in Names /\ pattern[w] \in Patterns
      BY <1>3, <2>2
    <3>2. PICK o \in Objects :
            \/ object' = [object EXCEPT ![target[w]][o] = Register(NewChannel, pattern[w], w)]
            \/ object' = [object EXCEPT ![target[w]][o] = NewChannel]
      BY <1>3, <2>2
    <3>3. NewChannel \in {NewChannel, object[target[w]][o]}
      OBVIOUS
    <3>4. QED
      BY <3>1, <3>2, <3>3
  <2>3. CASE ~RegisterResume(w)
    BY <1>7, <2>1, <2>3
  <2>4. QED
    BY <2>2, <2>3
<1>13. CASE \E k \in Workers : WorkerStep(k) \/ \E n \in Names, e \in Events : Dispatch(k, n, e)
  <2>1. PICK k \in Workers : WorkerStep(k) \/ \E n \in Names, e \in Events : Dispatch(k, n, e)
    BY <1>13
  <2>2. CASE SweepChannel(k)
    BY <1>4, <2>2
  <2>3. CASE ~SweepChannel(k)
    BY <1>8, <1>9, <2>1, <2>3
  <2>4. QED
    BY <2>2, <2>3
<1>14. QED
  BY <1>10, <1>11, <1>12, <1>13 DEF Next

\* In every Channel object an event is kept only while somebody is registered
\* with it, and the events are in the order they were first registered.
THEOREM ChannelsAreOK == Spec => []ChannelsOK
<1>1. Init => ChannelsOK
  BY NewChannelType DEF Init, InitIdle, ChannelsOK
<1>2. TypeOK /\ ChannelsOK /\ [Next]_vars => ChannelsOK'
  <2> SUFFICES ASSUME TypeOK, ChannelsOK, [Next]_vars,
                      NEW m \in Names, NEW q \in Objects
               PROVE  NoEmptyEvent(object'[m][q]) /\ InsertionOrder(object'[m][q])
    BY DEF ChannelsOK
  <2>1. /\ object[m][q] \in Channel
        /\ NoEmptyEvent(object[m][q]) /\ InsertionOrder(object[m][q])
    BY DEF ChannelsOK, TypeOK, RegistryType
  <2>2. CASE UNCHANGED object
    BY <2>1, <2>2
  <2>3. ASSUME NEW n \in Names, NEW o \in Objects, NEW c,
               object' = [object EXCEPT ![n][o] = c]
        PROVE  object'[m][q] = IF m = n /\ q = o THEN c ELSE object[m][q]
    BY <2>3 DEF TypeOK, RegistryType
  <2>4. ASSUME NEW n \in Names, NEW o \in Objects, NEW ch \in {NewChannel, object[n][o]},
               NEW p \in Patterns, NEW w \in Sockets,
               object' = [object EXCEPT ![n][o] = Register(ch, p, w)]
        PROVE  NoEmptyEvent(object'[m][q]) /\ InsertionOrder(object'[m][q])
    <3>1. ch \in Channel /\ NoEmptyEvent(ch) /\ InsertionOrder(ch)
      BY NewChannelType DEF ChannelsOK, TypeOK, RegistryType
    <3>2. NoEmptyEvent(Register(ch, p, w)) /\ InsertionOrder(Register(ch, p, w))
      BY <3>1, RegisterOK
    <3>3. QED
      BY <2>1, <2>3, <2>4, <3>2
  <2>5. ASSUME NEW n \in Names, NEW o \in Objects, NEW P, NEW cb,
               object' = [object EXCEPT ![n][o] = RemoveEventCallback(object[n][o], P, cb)]
        PROVE  NoEmptyEvent(object'[m][q]) /\ InsertionOrder(object'[m][q])
    <3>1. object[n][o] \in Channel /\ NoEmptyEvent(object[n][o]) /\ InsertionOrder(object[n][o])
      BY DEF ChannelsOK, TypeOK, RegistryType
    <3>2. /\ NoEmptyEvent(RemoveEventCallback(object[n][o], P, cb))
          /\ InsertionOrder(RemoveEventCallback(object[n][o], P, cb))
      BY <3>1, RemoveOK
    <3>3. QED
      BY <2>1, <2>3, <2>5, <3>2
  <2>6. ASSUME NEW n \in Names, NEW o \in Objects,
               object' = [object EXCEPT ![n][o] = NewChannel]
        PROVE  NoEmptyEvent(object'[m][q]) /\ InsertionOrder(object'[m][q])
    BY <2>1, <2>3, <2>6, NewChannelType
  <2>7. QED
    BY ObjectSteps, <2>2, <2>4, <2>5, <2>6
<1>3. QED
  BY <1>1, <1>2, TypeCorrect, PTL DEF Spec

-----------------------------------------------------------------------------
(***************************************************************************)
(* No empty channel stays in the registry, however the broker suspends its *)
(* callers, as long as every event name makes a pattern that compiles.     *)
(***************************************************************************)

\* A registered channel without events is one that some task is unsubscribing.
THEOREM EmptyChannelsAreBeingRemoved ==
  ASSUME BadPatterns = {}
  PROVE  Spec => []NoZombieChannel
<1> USE ChannelsAssumption DEF Tasks
<1>1. Init => NoZombieChannel
  BY DEF Init, InitIdle, NoZombieChannel, Registered
<1>2. TypeOK /\ NoZombieChannel /\ [Next]_vars => NoZombieChannel'
  <2> SUFFICES ASSUME TypeOK, NoZombieChannel, [Next]_vars,
                      NEW m \in Names, Registered(m)', IsEmpty(ChannelOf(m))'
               PROVE  \E t \in Tasks : Removing(t, m)'
    BY DEF NoZombieChannel
  <2> USE DEF Registered, ChannelOf, Removing, SubscribePc, UnsubscribePc
  \* Steps that touch neither the registry nor a task that is removing.
  <2>1. ASSUME UNCHANGED <<channels, object>>,
               \A t \in Tasks : pc[t] \in UnsubscribePc =>
                 pc'[t] \in UnsubscribePc /\ target'[t] = target[t]
        PROVE  \E t \in Tasks : Removing(t, m)'
    BY <2>1 DEF NoZombieChannel
  \* A step of t that changes the object registered under n only, t not being
  \* about to pop anything.
  <2>2. ASSUME NEW t \in Tasks, pc[t] \notin UnsubscribePc, NEW n \in Names, n # m,
               channels'[m] = channels[m],
               \A o \in Objects : object'[m][o] = object[m][o],
               \A u \in Tasks \ {t} : pc'[u] = pc[u] /\ target'[u] = target[u]
        PROVE  \E u \in Tasks : Removing(u, m)'
    <3>1. channels[m] \in Objects
      BY <2>2 DEF TypeOK, RegistryType
    <3>2. PICK u \in Tasks : Removing(u, m)
      BY <2>2, <3>1 DEF NoZombieChannel
    <3>3. QED
      BY <2>2, <3>2
  <2>3. ASSUME NEW t \in Tasks, BackendUnsubscribe(t)
        PROVE  \E u \in Tasks : Removing(u, m)'
    <3>1. UNCHANGED <<channels, object>>
      BY <2>3 DEF BackendUnsubscribe
    <3>2. \A u \in Tasks : pc[u] \in UnsubscribePc => pc'[u] \in UnsubscribePc /\ target'[u] = target[u]
      BY <2>3 DEF BackendUnsubscribe, Goto, request, TypeOK, TaskType
    <3>3. QED
      BY <2>1, <3>1, <3>2
  <2>4. ASSUME NEW t \in Tasks, Pop(t), UNCHANGED object,
               \A u \in Tasks \ {t} : pc'[u] = pc[u]
        PROVE  \E u \in Tasks : Removing(u, m)'
    <3>1. target[t] \in Names /\ m # target[t] /\ channels'[m] = channels[m]
      BY <2>4 DEF Pop, TypeOK, TaskType, RegistryType
    <3>2. PICK u \in Tasks : Removing(u, m)
      BY <2>4, <3>1 DEF NoZombieChannel
    <3>3. u # t /\ target'[u] = target[u]
      BY <2>4, <3>1, <3>2 DEF Pop, TypeOK, TaskType
    <3>4. QED
      BY <2>4, <3>2, <3>3
  <2>5. ASSUME NEW t \in Tasks, KeyError(t), UNCHANGED <<channels, object>>,
               \A u \in Tasks \ {t} : pc'[u] = pc[u],
               target' = [target EXCEPT ![t] = None]
        PROVE  \E u \in Tasks : Removing(u, m)'
    <3>1. PICK u \in Tasks : Removing(u, m)
      BY <2>5 DEF NoZombieChannel
    <3>2. u # t
      BY <2>5, <3>1 DEF KeyError
    <3>3. QED
      BY <2>5, <3>1, <3>2 DEF TypeOK, TaskType
  <2>6. ASSUME NEW w \in Sockets, NEW n \in Names, NEW p \in Patterns, Request(w, n, p)
        PROVE  \E t \in Tasks : Removing(t, m)'
    <3>1. CASE RegisterExisting(w, n, p)
      <4> USE <3>1 DEF RegisterExisting
      <4>1. channels[n] \in Objects /\ object[n][channels[n]] \in Channel
        BY DEF TypeOK, RegistryType
      <4>2. ~IsEmpty(Register(object[n][channels[n]], p, w))
        BY <4>1, RegisterType
      <4>3. n # m
        BY <4>1, <4>2 DEF TypeOK, RegistryType
      <4>4. \A o \in Objects : object'[m][o] = object[m][o]
        BY <4>1, <4>3 DEF TypeOK, RegistryType
      <4>5. \A u \in Tasks \ {w} : pc'[u] = pc[u] /\ target'[u] = target[u]
        BY DEF Goto, request, TypeOK, TaskType
      <4>6. QED
        BY <2>2, <4>3, <4>4, <4>5 DEF Reads
    <3>2. CASE UnregisterCall(w, n, p)
      <4> USE <3>2 DEF UnregisterCall, RemoveChannel
      <4>1. channels[n] \in Objects
        BY DEF TypeOK, RegistryType
      <4>2. CASE n = m
        <5>1. ChannelOf(n)' = Unregister(ChannelOf(n), p, w)
          BY <4>1 DEF TypeOK, RegistryType
        <5>2. target' = [target EXCEPT ![w] = n] /\ Goto(w, "unsubscribing")
          BY <4>2, <5>1
        <5>3. Removing(w, n)'
          BY <5>2 DEF Goto, TypeOK, TaskType
        <5>4. QED
          BY <4>2, <5>3
      <4>3. CASE n # m
        <5>1. \A o \in Objects : object'[m][o] = object[m][o]
          BY <4>1, <4>3 DEF TypeOK, RegistryType
        <5>2. \A u \in Tasks \ {w} : pc'[u] = pc[u] /\ target'[u] = target[u]
          BY DEF Goto, TypeOK, TaskType
        <5>3. QED
          BY <2>2, <4>3, <5>1, <5>2 DEF Reads
      <4>4. QED
        BY <4>2, <4>3
    <3>3. ASSUME RegisterBadPattern(w, n, p) \/ RegisterMissing(w, n, p) \/ UnregisterBadPattern(w, n, p)
          PROVE  \E t \in Tasks : Removing(t, m)'
      <4>1. UNCHANGED <<channels, object>> /\ pc[w] = "ready"
        BY <3>3 DEF RegisterBadPattern, RegisterMissing, UnregisterBadPattern, registry, Reads
      <4>2. \A u \in Tasks \ {w} : pc'[u] = pc[u] /\ target'[u] = target[u]
        BY <3>3 DEF RegisterBadPattern, RegisterMissing, UnregisterBadPattern, Crash, Goto,
           TypeOK, TaskType
      <4>3. QED
        BY <2>1, <4>1, <4>2
    <3>4. QED
      BY <2>6, <3>1, <3>2, <3>3 DEF Request
  <2>7. ASSUME NEW w \in Sockets, HandlerStep(w)
        PROVE  \E t \in Tasks : Removing(t, m)'
    <3>1. ASSUME BackendSubscribe(w) \/ BackendRefuses(w) \/ RegisterReturn(w) \/ Leave(w)
          PROVE  \E t \in Tasks : Removing(t, m)'
      <4>1. UNCHANGED <<channels, object>> /\ pc[w] \notin UnsubscribePc
        BY <3>1 DEF BackendSubscribe, BackendRefuses, RegisterReturn, Leave, registry
      <4>2. \A u \in Tasks \ {w} : pc'[u] = pc[u] /\ target'[u] = target[u]
        BY <3>1 DEF BackendSubscribe, BackendRefuses, RegisterReturn, Leave, Goto, request,
           TypeOK, TaskType
      <4>3. QED
        BY <2>1, <4>1, <4>2
    <3>2. CASE RegisterResume(w)
      <4>1. target[w] \in Names /\ pattern[w] \in Patterns
        BY <3>2 DEF RegisterResume, TypeOK, TaskType
      <4>2. PICK o \in Objects :
              /\ channels' = [channels EXCEPT ![target[w]] = o]
              /\ object' = [object EXCEPT ![target[w]][o] = Register(NewChannel, pattern[w], w)]
              /\ Goto(w, "hooking")
              /\ target' = [target EXCEPT ![w] = None]
        BY <3>2, <4>1 DEF RegisterResume, Fresh
      <4>3. ~IsEmpty(Register(NewChannel, pattern[w], w))
        BY <4>1, NewChannelType, RegisterType
      <4>4. target[w] # m
        BY <4>1, <4>2, <4>3 DEF TypeOK, RegistryType
      <4>5. \A x \in Objects : object'[m][x] = object[m][x]
        BY <4>1, <4>2, <4>4 DEF TypeOK, RegistryType
      <4>6. channels'[m] = channels[m]
        BY <4>1, <4>2, <4>4 DEF TypeOK, RegistryType
      <4>7. \A u \in Tasks \ {w} : pc'[u] = pc[u] /\ target'[u] = target[u]
        BY <4>2 DEF Goto, TypeOK, TaskType
      <4>8. QED
        BY <2>2, <3>2, <4>1, <4>4, <4>5, <4>6, <4>7 DEF RegisterResume
    <3>3. CASE UnregisterReturn(w)
      <4>1. Pop(w) /\ UNCHANGED object /\ \A u \in Tasks \ {w} : pc'[u] = pc[u]
        BY <3>3 DEF UnregisterReturn, Goto, TypeOK, TaskType
      <4>2. QED
        BY <2>4, <4>1
    <3>4. CASE UnregisterKeyError(w)
      <4>1. /\ KeyError(w)
            /\ UNCHANGED <<channels, object>>
            /\ target' = [target EXCEPT ![w] = None]
            /\ \A u \in Tasks \ {w} : pc'[u] = pc[u]
        BY <3>4 DEF UnregisterKeyError, Crash, registry, Goto, TypeOK, TaskType
      <4>2. QED
        BY <2>5, <4>1
    <3>5. QED
      BY <2>3, <2>7, <3>1, <3>2, <3>3, <3>4 DEF HandlerStep
  <2>8. ASSUME NEW k \in Workers, WorkerStep(k) \/ \E n \in Names, e \in Events : Dispatch(k, n, e)
        PROVE  \E t \in Tasks : Removing(t, m)'
    <3>1. ASSUME \/ \E c \in Sockets : Deliver(k, c) \/ DeliveryFails(k, c)
                 \/ GatherReturns(k) \/ SweepNext(k) \/ DispatchReturns(k)
                 \/ \E n \in Names, e \in Events : Dispatch(k, n, e)
          PROVE  \E t \in Tasks : Removing(t, m)'
      <4>1. UNCHANGED <<channels, object, target>>
        BY <3>1 DEF Deliver, DeliveryFails, GatherReturns, SweepNext, NextClosed, Snapshot,
           DispatchReturns, Dispatch,
           registry, request
      <4>2. \/ UNCHANGED pc
            \/ pc[k] \notin UnsubscribePc /\ \A u \in Tasks \ {k} : pc'[u] = pc[u]
        BY <3>1 DEF Deliver, DeliveryFails, GatherReturns, SweepNext, NextClosed, Snapshot,
           DispatchReturns, Dispatch,
           Goto, TypeOK, TaskType
      <4>3. QED
        BY <2>1, <4>1, <4>2
    <3>2. CASE SweepChannel(k)
      <4>1. PICK n \in Names, o \in Objects :
              LET ch == RemoveCallback(object[n][o], current[k])
              IN  /\ object' = [object EXCEPT ![n][o] = ch]
                  /\ \/ /\ IsEmpty(ch)
                        /\ target' = [target EXCEPT ![k] = n]
                        /\ Goto(k, "unsubscribing")
                     \/ /\ ~IsEmpty(ch)
                        /\ UNCHANGED <<pc, target>>
        BY <3>2 DEF SweepChannel, RemoveChannel
      <4>2. UNCHANGED channels /\ pc[k] \notin UnsubscribePc
        BY <3>2 DEF SweepChannel, RemoveChannel
      <4>3. \A u \in Tasks \ {k} : pc'[u] = pc[u] /\ target'[u] = target[u]
        BY <4>1 DEF Goto, TypeOK, TaskType
      <4>4. CASE m = n /\ channels[m] = o
        <5>1. ChannelOf(m)' = RemoveCallback(object[n][o], current[k])
          BY <4>1, <4>2, <4>4 DEF TypeOK, RegistryType
        <5>2. target' = [target EXCEPT ![k] = n] /\ Goto(k, "unsubscribing")
          BY <4>1, <5>1
        <5>3. Removing(k, m)'
          BY <4>4, <5>2 DEF Goto, TypeOK, TaskType
        <5>4. QED
          BY <5>3
      <4>5. CASE ~(m = n /\ channels[m] = o)
        <5>1. channels[m] \in Objects /\ object'[m][channels[m]] = object[m][channels[m]]
          BY <4>1, <4>2, <4>5 DEF TypeOK, RegistryType
        <5>2. PICK u \in Tasks : Removing(u, m)
          BY <4>2, <5>1 DEF NoZombieChannel
        <5>3. QED
          BY <4>2, <4>3, <5>2
      <4>6. QED
        BY <4>4, <4>5
    <3>3. CASE SweepReturn(k)
      <4>1. Pop(k) /\ UNCHANGED object /\ \A u \in Tasks \ {k} : pc'[u] = pc[u]
        BY <3>3 DEF SweepReturn, Goto, TypeOK, TaskType
      <4>2. QED
        BY <2>4, <4>1
    <3>4. CASE SweepKeyError(k)
      <4>1. /\ KeyError(k)
            /\ UNCHANGED <<channels, object>>
            /\ target' = [target EXCEPT ![k] = None]
            /\ \A u \in Tasks \ {k} : pc'[u] = pc[u]
        BY <3>4 DEF SweepKeyError, registry, Goto, TypeOK, TaskType
      <4>2. QED
        BY <2>5, <4>1
    <3>5. QED
      BY <2>3, <2>8, <3>1, <3>2, <3>3, <3>4 DEF WorkerStep
  <2>9. ASSUME UNCHANGED vars \/ \E w \in Sockets : Disconnect(w)
        PROVE  \E t \in Tasks : Removing(t, m)'
    BY <2>1, <2>9 DEF vars, registry, request, Disconnect
  <2>10. QED
    BY <2>6, <2>7, <2>8, <2>9 DEF Next
<1>3. QED
  BY <1>1, <1>2, TypeCorrect, PTL DEF Spec

-----------------------------------------------------------------------------
(***************************************************************************)
(* A broker whose coroutines do not suspend their caller.                  *)
(*                                                                         *)
(* Then register, unregister and the sweep of a dispatch each run in one   *)
(* go, which is what the invariant below says: a task that is in one of    *)
(* them holds the loop, the name it is about is in the state it was found  *)
(* in, and the broker disagrees with the registry about that name only.    *)
(***************************************************************************)
HeldPc == SubscribePc \cup UnsubscribePc \cup {"hooking", "sweeping"}

HoldsTheLoop ==
  \A t \in Tasks : pc[t] \in HeldPc => loop = t

\* The snapshot of a sweep stays true, and the name being removed is not in it.
SnapshotIsFresh ==
  \A k \in Workers, n \in Names, o \in Objects :
    <<n, o>> \in todo[k] =>
      /\ channels[n] = o
      /\ loop = k
      /\ pc[k] \in UnsubscribePc => target[k] # n

NameIsAsFound ==
  \A t \in Tasks :
    /\ pc[t] \in SubscribePc => ~Registered(target[t])
    /\ pc[t] \in UnsubscribePc => Registered(target[t]) /\ IsEmpty(ChannelOf(target[t]))
    /\ pc[t] = "subscribed" => target[t] \in backend
    /\ pc[t] = "unsubscribed" => target[t] \notin backend

\* What holds of the tasks alone, whoever else empties the registry while the
\* loop is free.
LoopInv == HoldsTheLoop /\ SnapshotIsFresh /\ NameIsAsFound

OthersAgree ==
  \A n \in Names :
    (\A t \in Tasks : target[t] = n => pc[t] \notin {"subscribed", "unsubscribed"})
      => (Registered(n) <=> n \in backend)

SyncInv == LoopInv /\ OthersAgree

\* While the loop is free or held by t, no other task is in the middle of
\* anything, so a step of t has to answer for t only.
LEMMA StepOfOneTask ==
  ASSUME TypeOK, LoopInv, NEW t \in Tasks, Runs(t),
         \A u \in Tasks \ {t} : pc'[u] = pc[u],
         \A k \in Workers \ {t} : todo'[k] = todo[k],
         pc'[t] \in HeldPc => loop' = t,
         t \in Workers => \A n \in Names, o \in Objects :
           <<n, o>> \in todo'[t] =>
             channels'[n] = o /\ loop' = t /\ (pc'[t] \in UnsubscribePc => target'[t] # n),
         pc'[t] \in SubscribePc => ~Registered(target[t])',
         pc'[t] \in UnsubscribePc => (Registered(target[t]) /\ IsEmpty(ChannelOf(target[t])))',
         pc'[t] = "subscribed" => target'[t] \in backend',
         pc'[t] = "unsubscribed" => target'[t] \notin backend'
  PROVE  LoopInv'
<1> USE DEF HeldPc, SubscribePc, UnsubscribePc
<1>1. None # t /\ \A u \in Tasks \ {t} : None # u
  BY ChannelsAssumption
<1>2. \A u \in Tasks \ {t} : pc'[u] \notin HeldPc
  BY <1>1 DEF Runs, LoopInv, HoldsTheLoop
<1>3. \A k \in Workers \ {t}, n \in Names, o \in Objects : <<n, o>> \notin todo'[k]
  BY <1>1 DEF Runs, LoopInv, SnapshotIsFresh, Tasks
<1>4. HoldsTheLoop'
  BY <1>2 DEF HoldsTheLoop
<1>5. SnapshotIsFresh'
  BY <1>3 DEF SnapshotIsFresh
<1>6. NameIsAsFound'
  BY <1>2 DEF NameIsAsFound
<1>7. QED
  BY <1>4, <1>5, <1>6 DEF LoopInv

\* A step of t, which is not sweeping and ends neither between the broker and
\* the registry nor in a sweep.
LEMMA QuietStep ==
  ASSUME TypeOK, LoopInv, NEW t \in Tasks, Runs(t),
         \A u \in Tasks \ {t} : pc'[u] = pc[u],
         UNCHANGED todo,
         t \in Workers => \A n \in Names, o \in Objects : <<n, o>> \notin todo[t],
         pc'[t] \notin SubscribePc \cup UnsubscribePc,
         pc'[t] \in HeldPc => loop' = t
  PROVE  LoopInv'
  BY StepOfOneTask DEF SubscribePc, UnsubscribePc

\* A request of a client keeps the invariant.
LEMMA RequestLoopStep ==
  ASSUME ~Yields, TypeOK, LoopInv,
         NEW w \in Sockets, NEW n \in Names, NEW p \in Patterns, Request(w, n, p)
  PROVE  LoopInv'
<1> USE ChannelsAssumption DEF Tasks, HeldPc, SubscribePc, UnsubscribePc
<1>1. /\ pc \in [Tasks -> SocketPc \cup WorkerPc]
      /\ target \in [Tasks -> Names \cup {None}]
      /\ channels \in [Names -> Objects \cup {None}]
      /\ object \in [Names -> [Objects -> Channel]]
  BY DEF TypeOK, TaskType, RegistryType
<1>2. w \in Tasks /\ w \notin Workers /\ Runs(w)
  BY DEF Request, RegisterExisting, RegisterBadPattern, RegisterMissing, UnregisterCall,
     UnregisterBadPattern, Reads, Runs
<1>3. UNCHANGED <<channels, todo>> /\ \A u \in Tasks \ {w} : pc'[u] = pc[u]
  BY <1>1 DEF Request, RegisterExisting, RegisterBadPattern, RegisterMissing, UnregisterCall,
     RemoveChannel, UnregisterBadPattern, Crash, Goto, Reads, registry, dispatch
<1>4. CASE RegisterExisting(w, n, p)
  BY <1>1, <1>2, <1>3, <1>4, QuietStep DEF RegisterExisting, Goto, Awaits
<1>5. CASE RegisterBadPattern(w, n, p) \/ UnregisterBadPattern(w, n, p)
  BY <1>1, <1>2, <1>3, <1>5, QuietStep DEF RegisterBadPattern, UnregisterBadPattern, Crash, Goto
<1>6. CASE RegisterMissing(w, n, p)
  BY <1>1, <1>2, <1>3, <1>6, StepOfOneTask DEF RegisterMissing, Goto, Awaits, Registered
<1>7. CASE UnregisterCall(w, n, p)
  <2>1. PICK ch :
          /\ object' = [object EXCEPT ![n][channels[n]] = ch]
          /\ \/ /\ IsEmpty(ch)
                /\ target' = [target EXCEPT ![w] = n]
                /\ Goto(w, "unsubscribing")
                /\ Awaits(w)
             \/ UNCHANGED pc
    BY <1>7 DEF UnregisterCall, RemoveChannel
  <2>2. pc[w] = "ready" /\ channels[n] \in Objects
    BY <1>1, <1>7 DEF UnregisterCall, Reads, Registered
  <2>3. CASE UNCHANGED pc
    BY <1>2, <1>3, <2>2, <2>3, QuietStep
  <2>4. CASE IsEmpty(ch) /\ target' = [target EXCEPT ![w] = n] /\ Goto(w, "unsubscribing") /\ Awaits(w)
    <3>1. pc'[w] = "unsubscribing" /\ target'[w] = n /\ loop' = w
      BY <1>1, <1>2, <2>4 DEF Goto, Awaits
    <3>2. Registered(target[w])' /\ ChannelOf(target[w])' = ch
      BY <1>1, <1>3, <2>1, <2>2, <3>1 DEF Registered, ChannelOf
    <3>3. QED
      BY <1>2, <1>3, <2>4, <3>1, <3>2, StepOfOneTask
  <2>5. QED
    BY <2>1, <2>3, <2>4
<1>8. QED
  BY <1>4, <1>5, <1>6, <1>7 DEF Request

\* So does what the broker answers to an unsubscribe.
LEMMA BackendUnsubscribeLoopStep ==
  ASSUME TypeOK, LoopInv, NEW t \in Tasks, BackendUnsubscribe(t)
  PROVE  LoopInv'
<1> USE DEF BackendUnsubscribe, Goto, request, dispatch
<1>1. loop = t /\ Runs(t) /\ Registered(target[t]) /\ IsEmpty(ChannelOf(target[t]))
  BY DEF LoopInv, HoldsTheLoop, HeldPc, UnsubscribePc, NameIsAsFound, Runs
<1>2. t \in Workers => \A n \in Names, o \in Objects :
        <<n, o>> \in todo[t] => channels[n] = o /\ target[t] # n
  BY DEF LoopInv, SnapshotIsFresh, UnsubscribePc
<1>3. Registered(target[t])' /\ IsEmpty(ChannelOf(target[t]))'
  BY <1>1 DEF Registered, ChannelOf
<1>4. pc'[t] = "unsubscribed" /\ \A u \in Tasks \ {t} : pc'[u] = pc[u]
  BY DEF TypeOK, TaskType
<1>5. target'[t] \notin backend'
  OBVIOUS
<1>6. QED
  BY <1>1, <1>2, <1>3, <1>4, <1>5, StepOfOneTask DEF SubscribePc

\* And every other step of a handler.
LEMMA HandlerLoopStep ==
  ASSUME ~Yields, TypeOK, LoopInv, NEW w \in Sockets, HandlerStep(w)
  PROVE  LoopInv'
<1> USE ChannelsAssumption DEF Tasks, HeldPc, SubscribePc, UnsubscribePc
<1>1. /\ pc \in [Tasks -> SocketPc \cup WorkerPc]
      /\ target \in [Tasks -> Names \cup {None}]
      /\ w \notin Workers
  BY DEF TypeOK, TaskType
<1>2. CASE BackendSubscribe(w)
  <2> USE <1>2 DEF BackendSubscribe, Goto, request, dispatch
  <2>1. loop = w /\ Runs(w) /\ ~Registered(target[w])
    BY DEF LoopInv, HoldsTheLoop, NameIsAsFound, Runs
  <2>2. ~Registered(target[w])'
    BY <2>1 DEF Registered
  <2>3. pc'[w] = "subscribed" /\ target'[w] \in backend' /\ \A u \in Tasks \ {w} : pc'[u] = pc[u]
    BY <1>1
  <2>4. QED
    BY <1>1, <2>1, <2>2, <2>3, StepOfOneTask
<1>3. CASE RegisterResume(w)
  <2>1. /\ Runs(w) /\ UNCHANGED todo
        /\ pc'[w] \in {"hooking", "ended"}
        /\ pc'[w] = "hooking" => loop' = w
        /\ \A u \in Tasks \ {w} : pc'[u] = pc[u]
    BY <1>1, <1>3 DEF RegisterResume, Crash, Goto, Awaits, dispatch
  <2>2. QED
    BY <1>1, <2>1, QuietStep
<1>4. CASE BackendRefuses(w) \/ RegisterReturn(w) \/ Leave(w) \/ UnregisterReturn(w)
  <2>1. /\ Runs(w) /\ UNCHANGED todo
        /\ pc'[w] \in {"ready", "ended"}
        /\ \A u \in Tasks \ {w} : pc'[u] = pc[u]
    BY <1>1, <1>4 DEF BackendRefuses, RegisterReturn, Leave, UnregisterReturn, Pop, Goto, Runs,
       dispatch
  <2>2. QED
    BY <1>1, <2>1, QuietStep
<1>5. CASE UnregisterKeyError(w)
  BY <1>5 DEF UnregisterKeyError, KeyError, LoopInv, NameIsAsFound
<1>6. QED
  BY <1>2, <1>3, <1>4, <1>5, BackendUnsubscribeLoopStep DEF HandlerStep

\* And every step of a worker.
LEMMA WorkerLoopStep ==
  ASSUME ~Yields, TypeOK, LoopInv, NEW k \in Workers,
         WorkerStep(k) \/ \E n \in Names, e \in Events : Dispatch(k, n, e)
  PROVE  LoopInv'
<1> USE ChannelsAssumption DEF Tasks, HeldPc, SubscribePc, UnsubscribePc
<1>1. /\ pc \in [Tasks -> SocketPc \cup WorkerPc]
      /\ target \in [Tasks -> Names \cup {None}]
      /\ channels \in [Names -> Objects \cup {None}]
      /\ object \in [Names -> [Objects -> Channel]]
      /\ todo \in [Workers -> SUBSET (Names \X Objects)]
  BY DEF TypeOK, TaskType, RegistryType, DispatchType
<1>2. ASSUME NEW c \in Sockets, Deliver(k, c) \/ DeliveryFails(k, c)
      PROVE  LoopInv'
  <2>1. UNCHANGED <<channels, object, backend, loop, pc, target, todo>>
    BY <1>2 DEF Deliver, DeliveryFails, registry, request
  <2>2. QED
    BY <2>1 DEF LoopInv, HoldsTheLoop, SnapshotIsFresh, NameIsAsFound, Registered, ChannelOf
<1>3. CASE DispatchReturns(k) \/ \E n \in Names, e \in Events : Dispatch(k, n, e)
  <2>1. /\ Runs(k) /\ UNCHANGED todo
        /\ pc'[k] \in {"ready", "gathering"}
        /\ \A u \in Tasks \ {k} : pc'[u] = pc[u]
    BY <1>1, <1>3 DEF DispatchReturns, Dispatch, Goto, Runs
  <2>2. \A n \in Names, o \in Objects : <<n, o>> \notin todo[k]
    BY <1>3 DEF DispatchReturns, Dispatch, LoopInv, SnapshotIsFresh
  <2>3. QED
    BY <2>1, <2>2, QuietStep
<1>4. CASE GatherReturns(k)
  <2>1. /\ Runs(k) /\ UNCHANGED <<channels, todo>>
        /\ pc'[k] = "sweeping" /\ loop' = k
        /\ \A u \in Tasks \ {k} : pc'[u] = pc[u]
    BY <1>1, <1>4 DEF GatherReturns, Goto, registry
  <2>2. \A n \in Names, o \in Objects : <<n, o>> \in todo'[k] => channels'[n] = o
    BY <2>1 DEF LoopInv, SnapshotIsFresh
  <2>3. QED
    BY <2>1, <2>2, StepOfOneTask
<1>5. CASE SweepNext(k)
  <2>1. /\ Runs(k) /\ pc[k] = "sweeping" /\ UNCHANGED <<channels, pc>> /\ loop' = k
        /\ todo' = [todo EXCEPT ![k] = Snapshot]
    BY <1>5 DEF SweepNext, NextClosed, Snapshot, registry
  <2>2. /\ \A n \in Names, o \in Objects : <<n, o>> \in todo'[k] => channels'[n] = o
        /\ \A j \in Workers \ {k} : todo'[j] = todo[j]
    BY <1>1, <2>1 DEF Snapshot
  <2>3. QED
    BY <2>1, <2>2, StepOfOneTask
<1>6. CASE SweepChannel(k)
  <2>a. PICK n \in Names, o \in Objects :
          /\ <<n, o>> \in todo[k]
          /\ todo' = [todo EXCEPT ![k] = @ \ {<<n, o>>}]
          /\ LET ch == RemoveCallback(object[n][o], current[k])
             IN  /\ object' = [object EXCEPT ![n][o] = ch]
                 /\ \/ /\ IsEmpty(ch)
                       /\ RemoveChannel(k, n)
                    \/ /\ loop' = k
                       /\ UNCHANGED <<pc, target>>
    BY <1>6 DEF SweepChannel
  <2> DEFINE ch == RemoveCallback(object[n][o], current[k])
  <2>1. /\ <<n, o>> \in todo[k]
        /\ todo' = [todo EXCEPT ![k] = @ \ {<<n, o>>}]
        /\ object' = [object EXCEPT ![n][o] = ch]
        /\ \/ /\ IsEmpty(ch)
              /\ target' = [target EXCEPT ![k] = n]
              /\ Goto(k, "unsubscribing")
              /\ Awaits(k)
           \/ /\ loop' = k
              /\ UNCHANGED <<pc, target>>
    BY <2>a DEF RemoveChannel
  <2> HIDE DEF ch
  <2>2. Runs(k) /\ pc[k] = "sweeping" /\ UNCHANGED channels
    BY <1>6 DEF SweepChannel, RemoveChannel
  <2>3. channels[n] = o
    BY <2>1 DEF LoopInv, SnapshotIsFresh
  <2>4. /\ loop' = k
        /\ \A u \in Tasks \ {k} : pc'[u] = pc[u]
        /\ \A j \in Workers \ {k} : todo'[j] = todo[j]
        /\ \/ pc'[k] = "sweeping"
           \/ pc'[k] = "unsubscribing" /\ target'[k] = n /\ IsEmpty(ch)
    BY <1>1, <2>1, <2>2 DEF Goto, Awaits
  <2>5. \A m \in Names, x \in Objects :
          <<m, x>> \in todo'[k] => <<m, x>> \in todo[k] /\ channels[m] = x /\ m # n
    BY <1>1, <2>1, <2>3 DEF LoopInv, SnapshotIsFresh
  <2>6. target'[k] = n => Registered(target[k])' /\ ChannelOf(target[k])' = ch
    BY <1>1, <2>1, <2>2, <2>3 DEF Registered, ChannelOf
  <2>7. QED
    BY <2>2, <2>4, <2>5, <2>6, StepOfOneTask
<1>7. CASE SweepReturn(k)
  <2>1. /\ Runs(k) /\ pc[k] = "unsubscribed" /\ UNCHANGED todo
        /\ target[k] \in Names
        /\ channels' = [channels EXCEPT ![target[k]] = None]
        /\ pc'[k] = "sweeping" /\ loop' = k
        /\ \A u \in Tasks \ {k} : pc'[u] = pc[u]
    BY <1>1, <1>7 DEF SweepReturn, Pop, Goto, dispatch, TypeOK, TaskType
  <2>2. \A n \in Names, o \in Objects : <<n, o>> \in todo[k] => channels[n] = o /\ n # target[k]
    BY <2>1 DEF LoopInv, SnapshotIsFresh
  <2>3. \A n \in Names, o \in Objects : <<n, o>> \in todo'[k] => channels'[n] = o
    BY <1>1, <2>1, <2>2
  <2>4. QED
    BY <2>1, <2>3, StepOfOneTask
<1>8. CASE SweepKeyError(k)
  BY <1>8 DEF SweepKeyError, KeyError, LoopInv, NameIsAsFound
<1>9. QED
  BY <1>2, <1>3, <1>4, <1>5, <1>6, <1>7, <1>8, BackendUnsubscribeLoopStep DEF WorkerStep

\* Every step keeps the part of the invariant that is about the tasks.
LEMMA LoopStep ==
  ASSUME ~Yields, TypeOK, LoopInv, [Next]_vars
  PROVE  LoopInv'
<1>1. CASE UNCHANGED vars \/ \E w \in Sockets : Disconnect(w)
  <2>1. UNCHANGED <<channels, object, backend, loop, pc, target, todo>>
    BY <1>1 DEF vars, registry, request, dispatch, Disconnect
  <2>2. QED
    BY <2>1 DEF LoopInv, HoldsTheLoop, SnapshotIsFresh, NameIsAsFound, Registered, ChannelOf
<1>2. QED
  BY <1>1, RequestLoopStep, HandlerLoopStep, WorkerLoopStep DEF Next

\* The broker and the registry part only where a task is between the two.
LEMMA AgreementStep ==
  ASSUME TypeOK, SyncInv, [Next]_vars
  PROVE  OthersAgree'
<1> USE ChannelsAssumption DEF Tasks
<1>1. /\ pc \in [Tasks -> SocketPc \cup WorkerPc]
      /\ target \in [Tasks -> Names \cup {None}]
      /\ channels \in [Names -> Objects \cup {None}]
  BY DEF TypeOK, TaskType, RegistryType
\* Steps that touch neither the registry nor the broker, nor a task between them.
<1>2. ASSUME UNCHANGED <<channels, backend>>,
             \A u \in Tasks : pc[u] \in {"subscribed", "unsubscribed"} =>
               pc'[u] = pc[u] /\ target'[u] = target[u]
      PROVE  OthersAgree'
  BY <1>2 DEF SyncInv, OthersAgree, Registered
<1>3. ASSUME NEW w \in Sockets, NEW n \in Names, NEW p \in Patterns, Request(w, n, p)
      PROVE  OthersAgree'
  <2>1. UNCHANGED <<channels, backend>> /\ pc[w] = "ready"
    BY <1>3 DEF Request, RegisterExisting, RegisterBadPattern, RegisterMissing,
       UnregisterCall, RemoveChannel, UnregisterBadPattern, Reads, registry
  <2>2. \A u \in Tasks \ {w} : pc'[u] = pc[u] /\ target'[u] = target[u]
    BY <1>1, <1>3 DEF Request, RegisterExisting, RegisterBadPattern, RegisterMissing,
       UnregisterCall, RemoveChannel, UnregisterBadPattern, Crash, Goto, request
  <2>3. QED
    BY <1>2, <2>1, <2>2
<1>4. ASSUME NEW t \in Tasks, BackendUnsubscribe(t)
      PROVE  OthersAgree'
  <2>1. /\ backend' = backend \ {target[t]} /\ UNCHANGED <<channels, target>>
        /\ pc'[t] = "unsubscribed" /\ pc[t] = "unsubscribing"
        /\ \A u \in Tasks \ {t} : pc'[u] = pc[u]
    BY <1>1, <1>4 DEF BackendUnsubscribe, Goto, request
  <2>2. QED
    BY <2>1 DEF SyncInv, OthersAgree, Registered
<1>5. ASSUME NEW w \in Sockets, BackendSubscribe(w)
      PROVE  OthersAgree'
  <2>1. /\ backend' = backend \cup {target[w]} /\ UNCHANGED <<channels, target>>
        /\ pc'[w] = "subscribed" /\ pc[w] = "subscribing"
        /\ \A u \in Tasks \ {w} : pc'[u] = pc[u]
    BY <1>1, <1>5 DEF BackendSubscribe, Goto, request
  <2>2. QED
    BY <2>1 DEF SyncInv, OthersAgree, Registered
\* A step of t that stores a channel under the name the broker was told, or pops it.
<1>6. ASSUME NEW t \in Tasks, target[t] \in Names, NEW o,
             channels' = [channels EXCEPT ![target[t]] = o],
             (o # None) <=> target[t] \in backend,
             UNCHANGED backend,
             \A u \in Tasks \ {t} : pc'[u] = pc[u] /\ target'[u] = target[u]
      PROVE  OthersAgree'
  <2>1. \A n \in Names \ {target[t]} : Registered(n)' <=> Registered(n)
    BY <1>1, <1>6 DEF Registered
  <2>2. Registered(target[t]) <=> channels[target[t]] # None
    BY DEF Registered
  <2>3. channels'[target[t]] = o
    BY <1>1, <1>6
  <2>4. QED
    BY <1>6, <2>1, <2>3 DEF SyncInv, OthersAgree, Registered
<1>7. ASSUME NEW w \in Sockets, RegisterResume(w)
      PROVE  OthersAgree'
  <2>1. target[w] \in Names /\ target[w] \in backend
    BY <1>7 DEF RegisterResume, SyncInv, LoopInv, NameIsAsFound, TypeOK, TaskType, SubscribePc
  <2>2. PICK o \in Objects : channels' = [channels EXCEPT ![target[w]] = o]
    BY <1>7 DEF RegisterResume, Fresh
  <2>3. UNCHANGED backend /\ \A u \in Tasks \ {w} : pc'[u] = pc[u] /\ target'[u] = target[u]
    BY <1>1, <1>7 DEF RegisterResume, Crash, Goto
  <2>4. QED
    BY <1>6, <2>1, <2>2, <2>3
<1>8. ASSUME NEW t \in Tasks, Pop(t), UNCHANGED backend,
             \A u \in Tasks \ {t} : pc'[u] = pc[u]
      PROVE  OthersAgree'
  <2>1. target[t] \in Names /\ target[t] \notin backend
    BY <1>8 DEF Pop, SyncInv, LoopInv, NameIsAsFound, TypeOK, TaskType, UnsubscribePc
  <2>2. \A u \in Tasks \ {t} : target'[u] = target[u]
    BY <1>1, <1>8 DEF Pop
  <2>3. QED
    BY <1>6, <1>8, <2>1, <2>2 DEF Pop
<1>9. ASSUME NEW w \in Sockets, HandlerStep(w)
      PROVE  OthersAgree'
  <2>1. CASE BackendRefuses(w) \/ RegisterReturn(w) \/ Leave(w)
    <3>1. UNCHANGED <<channels, backend>> /\ pc[w] \notin {"subscribed", "unsubscribed"}
      BY <2>1 DEF BackendRefuses, RegisterReturn, Leave, registry
    <3>2. \A u \in Tasks \ {w} : pc'[u] = pc[u] /\ target'[u] = target[u]
      BY <1>1, <2>1 DEF BackendRefuses, RegisterReturn, Leave, Goto, request
    <3>3. QED
      BY <1>2, <3>1, <3>2
  <2>2. CASE UnregisterReturn(w)
    BY <1>1, <1>8, <2>2 DEF UnregisterReturn, Goto
  <2>3. CASE UnregisterKeyError(w)
    BY <2>3 DEF UnregisterKeyError, KeyError, SyncInv, LoopInv, NameIsAsFound, UnsubscribePc
  <2>4. QED
    BY <1>4, <1>5, <1>7, <1>9, <2>1, <2>2, <2>3 DEF HandlerStep
<1>10. ASSUME NEW k \in Workers, WorkerStep(k) \/ \E n \in Names, e \in Events : Dispatch(k, n, e)
       PROVE  OthersAgree'
  <2>1. CASE \/ \E c \in Sockets : Deliver(k, c) \/ DeliveryFails(k, c)
             \/ GatherReturns(k) \/ SweepNext(k) \/ SweepChannel(k) \/ DispatchReturns(k)
             \/ \E n \in Names, e \in Events : Dispatch(k, n, e)
    <3>1. UNCHANGED <<channels, backend>>
      BY <2>1 DEF Deliver, DeliveryFails, GatherReturns, SweepNext, SweepChannel,
         DispatchReturns, Dispatch, registry
    <3>2. \A u \in Tasks : pc[u] \in {"subscribed", "unsubscribed"} =>
            pc'[u] = pc[u] /\ target'[u] = target[u]
      BY <1>1, <2>1 DEF Deliver, DeliveryFails, GatherReturns, SweepNext, SweepChannel,
         RemoveChannel, DispatchReturns, Dispatch, Goto, request
    <3>3. QED
      BY <1>2, <3>1, <3>2
  <2>2. CASE SweepReturn(k)
    BY <1>1, <1>8, <2>2 DEF SweepReturn, Goto
  <2>3. CASE SweepKeyError(k)
    BY <2>3 DEF SweepKeyError, KeyError, SyncInv, LoopInv, NameIsAsFound, UnsubscribePc
  <2>4. QED
    BY <1>4, <1>10, <2>1, <2>2, <2>3 DEF WorkerStep
<1>11. CASE UNCHANGED vars \/ \E w \in Sockets : Disconnect(w)
  BY <1>2, <1>11 DEF vars, registry, request, Disconnect
<1>12. QED
  BY <1>3, <1>9, <1>10, <1>11 DEF Next

\* The invariant is inductive.
THEOREM SyncInvariant ==
  ASSUME ~Yields
  PROVE  Spec => []SyncInv
<1>1. Init => SyncInv
  BY DEF Init, InitIdle, SyncInv, LoopInv, HoldsTheLoop, SnapshotIsFresh, NameIsAsFound,
     OthersAgree, Registered, HeldPc, SubscribePc, UnsubscribePc
<1>2. TypeOK /\ SyncInv /\ [Next]_vars => SyncInv'
  BY LoopStep, AgreementStep DEF SyncInv
<1>3. QED
  BY <1>1, <1>2, TypeCorrect, PTL DEF Spec

\* Whenever the loop is free, the broker is subscribed to exactly the registered
\* channels.
THEOREM RegistryAndBackendAgree ==
  ASSUME ~Yields
  PROVE  Spec => []RegistryMatchesBackend
<1>1. SyncInv => RegistryMatchesBackend
  <2> SUFFICES ASSUME SyncInv, loop = None
               PROVE  \A n \in Names : Registered(n) <=> n \in backend
    BY DEF RegistryMatchesBackend
  <2>1. \A t \in Tasks : pc[t] \notin {"subscribed", "unsubscribed"}
    BY ChannelsAssumption DEF SyncInv, LoopInv, HoldsTheLoop, HeldPc, SubscribePc, UnsubscribePc
  <2>2. QED
    BY <2>1 DEF SyncInv, OthersAgree
<1>2. QED
  BY <1>1, SyncInvariant, PTL

\* No task ever pops a name that is not registered.
THEOREM NeverKeyError ==
  ASSUME ~Yields
  PROVE  Spec => []NoKeyError
<1>1. SyncInv => NoKeyError
  BY DEF SyncInv, LoopInv, NameIsAsFound, NoKeyError, UnsubscribePc
<1>2. QED
  BY <1>1, SyncInvariant, PTL

=============================================================================
