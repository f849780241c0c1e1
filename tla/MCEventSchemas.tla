---------------------------- MODULE MCEventSchemas ----------------------------
(* Instances of EventSchemas for TLC: two names, of which the short one    *)
(* costs the document more bytes than its text adds to the capacity and    *)
(* the long one fewer.                                                     *)
EXTENDS EventSchemas, TLC

CONSTANTS x, y

TwoNames  == {x, y}
ShortLong == x :> 4 @@ y :> 30
LongLong  == x :> 30 @@ y :> 30
TwoValues == {7, 9}
OneDigit  == 7 :> 1 @@ 9 :> 1

Term(name, value) == [name |-> name, value |-> value]
Some == {<<Term(x, 7)>>, <<Term(y, 7)>>, <<Term(y, 7), Term(x, 9)>>}
===============================================================================
