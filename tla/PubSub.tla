------------------------------- MODULE PubSub -------------------------------
(***************************************************************************)
(* What publish/subscribe promises the clients of openapi.ws, without      *)
(* channels, events, tasks or a broker: a set of subscriptions, which only *)
(* the client that owns them changes for as long as it is connected.  Those *)
(* of a client that has gone are dropped, in any number of steps.          *)
(***************************************************************************)
CONSTANTS Sockets, Names, Patterns,
          Refused     \* channel names nobody can subscribe to

VARIABLES subs,       \* the subscriptions: <<socket, channel name, pattern>>
          live        \* the connected clients

vars == <<subs, live>>

Subscription == Sockets \X Names \X Patterns

TypeOK == subs \subseteq Subscription /\ live \subseteq Sockets

Init == subs = {} /\ live = Sockets

Subscribe(w, n, p) ==
  /\ w \in live
  /\ n \notin Refused
  /\ subs' = subs \cup {<<w, n, p>>}
  /\ UNCHANGED live

Unsubscribe(w, n, p) ==
  /\ w \in live
  /\ subs' = subs \ {<<w, n, p>>}
  /\ UNCHANGED live

\* The client goes; its subscriptions outlive it until they are dropped.
Disconnect(w) ==
  /\ w \in live
  /\ live' = live \ {w}
  /\ UNCHANGED subs

\* Some subscriptions of a client that has gone are dropped.
Drop(w) ==
  /\ w \notin live
  /\ \E n \in Names :
       subs' = subs \ {s \in subs : s[1] = w /\ s[2] = n}
  /\ UNCHANGED live

Next ==
  \E w \in Sockets :
    \/ \E n \in Names, p \in Patterns : Subscribe(w, n, p) \/ Unsubscribe(w, n, p)
    \/ Disconnect(w)
    \/ Drop(w)

Spec == Init /\ [][Next]_vars

=============================================================================
