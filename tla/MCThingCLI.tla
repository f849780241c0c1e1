------------------------------ MODULE MCThingCLI ------------------------------
(* Users and files for TLC.                                                *)
EXTENDS ThingCLI

CONSTANTS x, y

TwoNames == {x, y}
SomeTypes == {"integer", "array"}

Parameter(name, type) == [name |-> name, type |-> type]
File(output, inputs) == [found |-> TRUE, output |-> output, inputs |-> inputs]

(* int f(int x), a second version with a strange parameter behind it, one  *)
(* with its parameters in another order, and a file without f.             *)
SomeFiles ==
  {File("int", <<Parameter(x, "int")>>),
   File("void", <<Parameter(x, "int"), Parameter(y, "strange")>>),
   File("void", <<Parameter(y, "bool"), Parameter(x, "int")>>),
   [found |-> FALSE, output |-> "void", inputs |-> << >>]}
===============================================================================
