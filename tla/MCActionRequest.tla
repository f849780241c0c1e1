--------------------------- MODULE MCActionRequest ---------------------------
(* Actions for TLC to send requests to.                                    *)
EXTENDS ActionRequest

Input(type, items) == [type |-> type, items |-> items, props |-> << >>, required |-> << >>]

(* A list of words, and an object with one required property, a number.    *)
ListAndObject ==
  <<Input("array", "string"),
    [type |-> "object", items |-> "null", required |-> <<1>>,
     props |-> <<[type |-> "integer", items |-> "null"]>>]>>

(* Words, then a number.                                                   *)
NumberLast ==
  <<Input("boolean", "null"), Input("boolean", "null"), Input("integer", "null")>>
===============================================================================
