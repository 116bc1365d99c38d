------------------------------ MODULE Channel ------------------------------
(***************************************************************************)
(* openapi.ws.channel.Channel: the events of one channel and the callbacks *)
(* registered with each of them.                                           *)
(*                                                                         *)
(* The code keeps a dictionary `_events` from a regex pattern to an Event, *)
(* which holds a set of callbacks.  Only two things about the dictionary   *)
(* matter: what it maps each pattern to, and the insertion order of its    *)
(* keys, because a message is given to the first event that matches it.    *)
(* A channel is therefore the record                                       *)
(*    callbacks : the dictionary, pattern -> set of callbacks              *)
(*    older     : <<p, q>> is there when p was inserted before q           *)
(*                                                                         *)
(* A websocket has one ChannelCallback (Subscribe.channel_callback is a    *)
(* cached_property), so a callback is named by the socket that owns it.    *)
(***************************************************************************)
EXTENDS FiniteSets

CONSTANTS Patterns,   \* event patterns, after the translation of ws/utils.py
          Sockets     \* websockets, and so callbacks

EventMaps == UNION {[P -> SUBSET Sockets] : P \in SUBSET Patterns}

Channel == [callbacks : EventMaps, older : SUBSET (Patterns \X Patterns)]

\* Channel(name): no events yet.
NewChannel == [callbacks |-> [p \in {} |-> {}], older |-> {}]

\* __iter__, events: the patterns the channel is registered with.
EventsOf(ch) == DOMAIN ch.callbacks

\* `not channel`, by __len__: the channel has no event.
IsEmpty(ch) == EventsOf(ch) = {}

\* event.callbacks, or nothing when there is no such event.
CallbacksOf(ch, p) == IF p \in EventsOf(ch) THEN ch.callbacks[p] ELSE {}

\* Mutant: the callback replaces the others.
RegisterAlone(ch, p, cb) ==
  [callbacks |-> [q \in EventsOf(ch) \cup {p} |-> IF q = p THEN {cb} ELSE ch.callbacks[q]],
   older     |-> IF p \in EventsOf(ch) THEN ch.older
                 ELSE ch.older \cup (EventsOf(ch) \X {p})]

\* register: a new event goes to the end of the dictionary, an old one keeps
\* its place.
Register(ch, p, cb) ==
  [callbacks |-> [q \in EventsOf(ch) \cup {p} |->
                    CallbacksOf(ch, q) \cup (IF q = p THEN {cb} ELSE {})],
   older     |-> IF p \in EventsOf(ch) THEN ch.older
                 ELSE ch.older \cup (EventsOf(ch) \X {p})]

\* Mutant: an event left with no callback stays in the dictionary.
RemoveKeepingEvent(ch, P, cb) ==
  [ch EXCEPT !.callbacks = [q \in EventsOf(ch) |-> IF q \in P THEN @[q] \ {cb} ELSE @[q]]]

\* remove_event_callback, on every event of P: the callback is discarded and an
\* event left with no callback is popped from the dictionary.
RemoveEventCallback(ch, P, cb) ==
  LET Left(q) == IF q \in P THEN ch.callbacks[q] \ {cb} ELSE ch.callbacks[q]
      kept    == {q \in EventsOf(ch) : q \in P => Left(q) # {}}
  IN  [callbacks |-> [q \in kept |-> Left(q)],
       older     |-> ch.older \cap (kept \X kept)]

\* Mutant: the callback leaves the other events too.
UnregisterAll(ch, p, cb) == RemoveEventCallback(ch, EventsOf(ch), cb)

\* unregister: nothing happens when the pattern is not registered.
Unregister(ch, p, cb) == RemoveEventCallback(ch, {p}, cb)

\* Mutant: the loop stops at the first event.
RemoveFromFirst(ch, cb) ==
  RemoveEventCallback(ch, {p \in EventsOf(ch) : \A q \in EventsOf(ch) : <<q, p>> \notin ch.older}, cb)

\* remove_callback: the callback leaves every event.
RemoveCallback(ch, cb) == RemoveEventCallback(ch, EventsOf(ch), cb)

\* get_subscribed: the events the callback is registered with.
Subscribed(ch, cb) == {p \in EventsOf(ch) : cb \in ch.callbacks[p]}

\* __call__ walks the events in insertion order and stops at the first one
\* that matches: `matching` is the set of patterns the event name matches.
FirstMatch(ch, matching) ==
  LET found == EventsOf(ch) \cap matching
  IN  {p \in found : \A q \in found \ {p} : <<p, q>> \in ch.older}

\* The callbacks handed to asyncio.gather: those of that one event.
Recipients(ch, matching) == UNION {ch.callbacks[p] : p \in FirstMatch(ch, matching)}

-----------------------------------------------------------------------------
\* An event is in the dictionary only while it has a callback, and `older`
\* orders the events of the dictionary and nothing else.
NoEmptyEvent(ch) == \A p \in EventsOf(ch) : ch.callbacks[p] # {}

InsertionOrder(ch) ==
  LET E == EventsOf(ch)
  IN  /\ ch.older \subseteq E \X E
      /\ \A p \in E : <<p, p>> \notin ch.older
      /\ \A p, q \in E : p # q => (<<p, q>> \in ch.older <=> <<q, p>> \notin ch.older)
      /\ \A p, q, r \in E :
           <<p, q>> \in ch.older /\ <<q, r>> \in ch.older => <<p, r>> \in ch.older

=============================================================================
