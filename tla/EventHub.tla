------------------------------- MODULE EventHub -------------------------------
(***************************************************************************)
(* What the event channels of a servient promise to its consumers, one     *)
(* channel per consumer, with no word of registries, of indices or of the  *)
(* order of loop(): an abstract specification that ServientHub shows       *)
(* ServientWS to implement.                                                *)
(*                                                                         *)
(* An occurrence of an event is published to the consumers subscribed to   *)
(* it, and nothing else happens on the server meanwhile; but the network   *)
(* may take channels away.  A consumer may be passed over, yet only as     *)
(* many as channels were found lost during this very publication.          *)
(***************************************************************************)
EXTENDS Naturals, FiniteSets

CONSTANTS Channels, Events

VARIABLES
  sub,     \* the event the consumer of a channel is subscribed to, 0: none
  live,    \* the channels that are up
  event,   \* the event being published, 0: none
  sent,    \* the channels told of it
  closed   \* the channels found lost while it is published

vars == <<sub, live, event, sent, closed>>

Publishing  == event # 0
Subscribers == {n \in Channels : sub[n] = event}

Init ==
  /\ sub = [n \in Channels |-> 0]
  /\ live = {}
  /\ event = 0 /\ sent = {} /\ closed = 0

(* A consumer connects, on a channel nobody uses or one found lost.        *)
Connect(n) ==
  /\ ~Publishing /\ n \notin live
  /\ live' = live \cup {n}
  /\ sub' = [sub EXCEPT ![n] = 0]
  /\ UNCHANGED <<event, sent, closed>>

Subscribe(n, e) ==
  /\ ~Publishing /\ n \in live /\ sub[n] = 0
  /\ sub' = [sub EXCEPT ![n] = e]
  /\ UNCHANGED <<live, event, sent, closed>>

(* A cancellation, or the end of the channel.                              *)
Cancel(n) ==
  /\ ~Publishing /\ sub[n] # 0
  /\ sub' = [sub EXCEPT ![n] = 0]
  /\ live' \in {live, live \ {n}}
  /\ UNCHANGED <<event, sent, closed>>

(* A channel goes down; the subscription stays until the server notices.   *)
Lose(n) ==
  /\ n \in live
  /\ live' = live \ {n}
  /\ UNCHANGED <<sub, event, sent, closed>>

Publish(e) ==
  /\ ~Publishing
  /\ event' = e
  /\ UNCHANGED <<sub, live, sent, closed>>

(* Only a subscriber is told, and only one that is up.                     *)
Deliver(n) ==
  /\ Publishing /\ n \in (Subscribers \cap live) \ sent
  /\ sent' = sent \cup {n}
  /\ UNCHANGED <<sub, live, event, closed>>

(* A subscriber that was not told yet turns out to be gone.                *)
Drop(n) ==
  /\ Publishing /\ n \in Subscribers \ (live \cup sent)
  /\ closed' = closed + 1
  /\ sub' = [sub EXCEPT ![n] = 0]
  /\ UNCHANGED <<live, event, sent>>

Finish ==
  /\ Publishing
  /\ Cardinality((Subscribers \cap live) \ sent) <= closed
  /\ event' = 0 /\ sent' = {} /\ closed' = 0
  /\ UNCHANGED <<sub, live>>

Serve == (\E n \in Channels : Deliver(n) \/ Drop(n)) \/ Finish

Next ==
  \/ \E n \in Channels : Connect(n) \/ Cancel(n) \/ Lose(n)
  \/ \E n \in Channels, e \in Events : Subscribe(n, e)
  \/ \E e \in Events : Publish(e)
  \/ Serve

(* A publication that has begun ends.                                      *)
Spec == Init /\ [][Next]_vars /\ WF_vars(Serve)
===============================================================================
