----------------------------- MODULE MCServientWS -----------------------------
(* Instances of ServientWS for TLC.                                        *)
(*                                                                         *)
(* The full Thing has two events, the first with a subscription and a      *)
(* cancellation schema and the second with neither, one WebSocket property,*)
(* one WebSocket action with input, whose event is the first, and an HTTP  *)
(* action whose event is the second.  The Thing of midloss has the first   *)
(* event only and a WebSocket action without input.                        *)
EXTENDS ServientHub

CONSTANTS a1, a2, a3, zero, s1, none

TwoIPs   == {a1, a2}
AllAddr  == {a1, a2, zero}
ThreeIPs  == {a1, a2, a3}
ThreeAddr == {a1, a2, a3, zero}
OneShape == {s1}

SchemaFirst == <<s1, none>>
InputFirst  == <<FALSE, TRUE>>
EventEach   == <<1, 2>>

OneSchema == <<s1>>
NoneYet   == <<TRUE>>
OnlyFirst == <<1>>

PairSymmetry == Permutations({a1, a2})
===============================================================================
