---------------------------- MODULE MCCounterThing ----------------------------
(* Instances of CounterThing for TLC: two consumers, the first of which    *)
(* also asks again by hand.  The sizes keep the order of those of a 32-bit *)
(* board (16 bytes a slot, 2 the key of a slot, 7 the key "change").       *)
EXTENDS CounterThing

CONSTANTS c1, c2

TwoClients == {c1, c2}
FirstAsks  == {c1}
===============================================================================
