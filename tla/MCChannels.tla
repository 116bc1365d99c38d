----------------------------- MODULE MCChannels -----------------------------
(* Channels on a small instance: the constants the cfg files cannot write.  *)
EXTENDS Channels, TLC

CONSTANTS p1, p2,  \* patterns of which p1 is the more general one
          bad,     \* an event name that makes a pattern that does not compile
          e1, e2   \* events

MCPatterns  == {p1, p2, bad}
GoodPatterns == {p1, p2}
OneMatch    == e2 :> {p1}
MCEvents   == {e1, e2}
MCMatches  == (e1 :> {p1, p2}) @@ (e2 :> {p1})

\* A Channel object that neither the registry nor a snapshot refers to is
\* garbage: what it holds does not tell two states apart.
Referenced(n, o) == o = channels[n] \/ \E k \in Workers : <<n, o>> \in todo[k]

Live == <<channels, backend, open, loop, pc, request, dispatch,
          [n \in Names |-> [o \in Objects |->
             IF Referenced(n, o) THEN object[n][o] ELSE None]]>>

Symmetry == Permutations(Sockets) \cup Permutations(Workers) \cup Permutations(Objects)
=============================================================================
