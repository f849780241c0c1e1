------------------------------ MODULE ServientHub ------------------------------
(***************************************************************************)
(* The servient as an implementation of EventHub, for consumers that hold  *)
(* one channel each (MaxPerIP = 1) and handlers that do not lose their own *)
(* connection half-way.                                                    *)
(***************************************************************************)
EXTENDS ServientWS

SubscribedTo(n) == IF Subscribed(n) THEN view[n].ep ELSE 0

Hub == INSTANCE EventHub WITH
         Channels <- Nums,
         sub      <- [n \in Nums |-> SubscribedTo(n)],
         live     <- {n \in Nums : slots[n].up},
         event    <- round.ev,
         sent     <- round.sent,
         closed   <- round.drops

(* The registries, the order of ipe_arr and the index that disconnections  *)
(* move under the loop (lines 1236-1277, 1802-1850) amount to EventHub: an *)
(* occurrence is told to subscribers of its event only, passes over no     *)
(* more live ones than connections were found lost on the way, and ends.   *)
ImplementsHub == Hub!Spec
===============================================================================
