----------------------------- MODULE ActionRequest -----------------------------
(***************************************************************************)
(* The request function of an action (request<n>(body)) and the function   *)
(* handleInputType it calls to validate the inputs of the action.          *)
(*                                                                         *)
(* Both, and the loops inside handleInputType, count with the same global  *)
(* variable i: the value a nested loop leaves in i is where the loop       *)
(* around it goes on from.  The loop over the inputs and the loop over the *)
(* properties of an object are taken one iteration at a time; the loops    *)
(* over the characters of a number and over the items of an array always   *)
(* end and are part of the step that runs them.                            *)
(*                                                                         *)
(* An action without inputs runs as soon as its request is read, so there  *)
(* is at least one.  Left out, because the compiler refuses the generated  *)
(* code: arrays of numbers (line 1524), minItems and maxItems (1585, 1590) *)
(* and arrays of objects next to an object with properties (1617, 1647);   *)
(* and, for their depth, arrays of arrays and objects in objects.          *)
(***************************************************************************)
EXTENDS Integers, Sequences

CONSTANTS
  Inputs,         \* the inputs the action declares
  HasProperty,    \* global['isProperty']: some object input has properties
  HasArrayObject, \* global['isArrayObject']: some array input has object items
  MaxLead         \* bound: leading digits of a number, items of an array

Types     == {"string", "null", "boolean", "integer", "array"}
ItemTypes == {"string", "boolean", "null", "object"}

(* A declared type; items only matters for arrays.                         *)
Simple == [type : Types, items : ItemTypes]

N == Len(Inputs)
Indices == 1 .. N

ASSUME InputsAssumption ==
  /\ Inputs \in Seq([type : Types \cup {"object"}, items : ItemTypes,
                     props : Seq(Simple), required : Seq(Nat \ {0})])
  /\ N > 0
  /\ \A p \in Indices :
       /\ Inputs[p].props # << >> => Inputs[p].type = "object" /\ HasProperty
       /\ \A r \in DOMAIN Inputs[p].required :
            Inputs[p].required[r] \in DOMAIN Inputs[p].props
       /\ Inputs[p].type = "array" /\ Inputs[p].items = "object" => HasArrayObject
ASSUME FlagsAssumption ==
  /\ HasProperty \in BOOLEAN /\ HasArrayObject \in BOOLEAN
  /\ ~(HasProperty /\ HasArrayObject)
  /\ MaxLead \in Nat

-------------------------------------------------------------------------------
(* A JSON value other than null, as serializeJson writes it.  lead counts  *)
(* the digits a number begins with and the valid items an array begins     *)
(* with, clean tells that nothing else follows, fits that toDouble() is    *)
(* within minimum and maximum.  A string is empty after value.remove(0),   *)
(* so it has lead 0 and is clean.                                          *)
Value(form, lead, clean, fits) ==
  [form : form, lead : lead, clean : clean, fits : fits]

NoNumber(f) == [form |-> f, lead |-> 0, clean |-> FALSE, fits |-> FALSE]
Bool    == NoNumber("bool")
Object  == NoNumber("object")
None    == NoNumber("none")
Texts   == Value({"text"}, {0}, {TRUE}, BOOLEAN)
Numbers == Value({"number"}, 1 .. MaxLead, {TRUE}, BOOLEAN)
             \cup Value({"number"}, 0 .. MaxLead, {FALSE}, {FALSE})
Arrays  == Value({"array"}, 0 .. MaxLead, BOOLEAN, {FALSE})

Values == {Bool, Object} \cup Texts \cup Numbers \cup Arrays

(* What a request carries for an input: a value and, for an object, its    *)
(* members among the declared properties.                                  *)
Sent(p) ==
  LET members == [DOMAIN Inputs[p].props -> Values \cup {None}]
  IN  {[value |-> v, members |-> [q \in DOMAIN Inputs[p].props |-> None]] :
         v \in Values \cup {None}}
        \cup {[value |-> Object, members |-> m] : m \in members}

Bodies == {b \in [Indices -> UNION {Sent(p) : p \in Indices}] :
             \A p \in Indices : b[p] \in Sent(p)}

VARIABLES
  body,     \* what the request carries, or << >> between requests
  i,        \* the global index, from 0
  valid,    \* validInput of the loop over the inputs
  inside,   \* the input whose properties are being looped over, or 0
  propOk,   \* validInput of that call
  verdict,  \* per input, what handleInputType last said of it (a history)
  propBad,  \* a property of the request was found invalid (a history)
  answer    \* what became of the request

vars == <<body, i, valid, inside, propOk, verdict, propBad, answer>>

Busy == answer = "none"

TypeOK ==
  /\ body \in Bodies \cup {<< >>}
  /\ i \in Nat
  /\ valid \in BOOLEAN /\ propOk \in BOOLEAN /\ propBad \in BOOLEAN
  /\ inside \in Indices \cup {0}
  /\ verdict \in [Indices -> {"unseen", "good", "bad"}]
  /\ answer \in {"none", "idle", "invoked", "refused"}

-------------------------------------------------------------------------------
(* handleInputType for a value of a simple type: its result, and what it   *)
(* leaves in the global index.                                             *)
Outcome(ok, index) == [ok |-> ok, i |-> index]

(* The loop stops after the first character that is no digit; '.' and '-'  *)
(* are none, nor is the bracket of an array.                               *)
Number(v) ==
  CASE v.form = "array"            -> Outcome(FALSE, 1)
    [] v.form # "array" /\ v.clean  -> Outcome(v.fits, v.lead)
    [] v.form # "array" /\ ~v.clean -> Outcome(FALSE, v.lead + 1)

(* The items of an array are validated by a call with the items' schema.   *)
(* The branch for objects, if there is one, finds the array is no object.  *)
Array(v, items, index) ==
  CASE v.form # "array"               -> Outcome(FALSE, index)
    [] v.form = "array" /\ items \in {"string", "boolean"} -> Outcome(v.clean, v.lead)
    [] v.form = "array" /\ items = "null"   -> Outcome(TRUE, index)
    [] v.form = "array" /\ items = "object" -> Outcome(HasArrayObject, index)

(* A string is never "null" here, and the type null has no branch.         *)
Check(s, v, index) ==
  CASE s.type = "integer" -> Number(v)
    [] s.type = "array"   -> Array(v, s.items, index)
    [] s.type = "boolean" -> Outcome(v = Bool, index)
    [] s.type \in {"string", "null"} -> Outcome(TRUE, index)

(* Types whose validation counts with the global index.                    *)
Counts(s) ==
  \/ s.type = "integer"
  \/ s.type = "array" /\ s.items \in {"string", "boolean"}
  \/ s.type = "object" /\ HasProperty

-------------------------------------------------------------------------------
Word(ok) == IF ok THEN "good" ELSE "bad"

(* A request arrives.  One that is no JSON or that lacks an input is       *)
(* refused at once.                                                        *)
Arrives(first) ==
  /\ answer = "idle"
  /\ \/ body' = << >> /\ answer' = "refused" /\ i' = i
     \/ /\ body' \in Bodies
        /\ \/ /\ \E p \in Indices : body'[p].value = None
              /\ answer' = "refused" /\ i' = i
           \/ /\ \A p \in Indices : body'[p].value # None
              /\ answer' = "none" /\ i' = first
  /\ UNCHANGED <<valid, inside, propOk, verdict, propBad>>

(* Mutants of Receive: the loop starts before the first input, or behind   *)
(* it.                                                                     *)
ReceiveBefore == Arrives(-1)
ReceiveBehind == Arrives(1)

Receive == Arrives(0)

Looping == Busy /\ inside = 0 /\ valid /\ i < N

(* One iteration for an input that is not an object.                       *)
SeeInput(increment) ==
  /\ Looping
  /\ Inputs[i + 1].type # "object"
  /\ LET r == Check(Inputs[i + 1], body[i + 1].value, i)
     IN  /\ valid' = r.ok
         /\ verdict' = [verdict EXCEPT ![i + 1] = Word(r.ok)]
         /\ i' = r.i + increment
  /\ UNCHANGED <<body, inside, propOk, propBad, answer>>

(* Mutant of CheckInput: i++ is missing.                                   *)
CheckInputAgain == SeeInput(0)

CheckInput == SeeInput(1)

Missing(p) ==
  {r \in DOMAIN Inputs[p].required : body[p].members[Inputs[p].required[r]] = None}

(* The iteration for an object whose properties are not looped over: with  *)
(* an array of objects declared the branch for objects is not generated; a *)
(* value that is no object is invalid, and so is one that lacks a required *)
(* property.                                                               *)
CheckObject ==
  LET p == i + 1
      isObject == body[p].value = Object
      Result(ok, index) == /\ valid' = ok
                           /\ verdict' = [verdict EXCEPT ![p] = Word(ok)]
                           /\ i' = index + 1
  IN  /\ Looping
      /\ Inputs[p].type = "object"
      /\ \/ (HasArrayObject \/ (isObject /\ ~HasProperty)) /\ Result(TRUE, i)
         \/ ~HasArrayObject /\ ~isObject /\ Result(FALSE, i)
         \/ /\ HasProperty /\ isObject
            /\ \E r \in Missing(p) : /\ \A s \in Missing(p) : r <= s
                                     /\ Result(FALSE, r - 1)
      /\ UNCHANGED <<body, inside, propOk, propBad, answer>>

(* Otherwise the loop over its properties starts.                          *)
EnterObject ==
  /\ Looping
  /\ Inputs[i + 1].type = "object" /\ HasProperty
  /\ body[i + 1].value = Object /\ Missing(i + 1) = {}
  /\ inside' = i + 1 /\ propOk' = TRUE /\ i' = 0
  /\ UNCHANGED <<body, valid, verdict, propBad, answer>>

(* One iteration of the loop over the properties of an object; a property  *)
(* found invalid does not end it.                                          *)
SeeProperty(increment) ==
  /\ Busy /\ inside # 0 /\ i < Len(Inputs[inside].props)
  /\ LET s == Inputs[inside].props[i + 1]
         v == body[inside].members[i + 1]
         r == IF v = None THEN Outcome(propOk, i) ELSE Check(s, v, i)
     IN  /\ propOk' = r.ok
         /\ i' = r.i + increment
         /\ propBad' = (propBad \/ (v # None /\ ~r.ok))
  /\ UNCHANGED <<body, valid, inside, verdict, answer>>

(* Mutant of CheckProperty: i++ is missing.                                *)
CheckPropertyAgain == SeeProperty(0)

CheckProperty == SeeProperty(1)

(* Mutant of EndProperties: the result of the call is dropped.             *)
EndPropertiesUnheeded ==
  /\ Busy /\ inside # 0 /\ i >= Len(Inputs[inside].props)
  /\ verdict' = [verdict EXCEPT ![inside] = Word(propOk)]
  /\ inside' = 0
  /\ i' = i + 1
  /\ UNCHANGED <<body, valid, propOk, propBad, answer>>

EndProperties ==
  /\ Busy /\ inside # 0 /\ i >= Len(Inputs[inside].props)
  /\ valid' = propOk
  /\ verdict' = [verdict EXCEPT ![inside] = Word(propOk)]
  /\ inside' = 0
  /\ i' = i + 1
  /\ UNCHANGED <<body, propOk, propBad, answer>>

(* The loop is over: the action runs, or the answer is "InvalidInput".     *)
Decide ==
  /\ Busy /\ inside = 0 /\ ~Looping
  /\ answer' = IF valid THEN "invoked" ELSE "refused"
  /\ UNCHANGED <<body, i, valid, inside, propOk, verdict, propBad>>

(* The request function returns: what it kept in local variables is gone.  *)
Return ==
  /\ answer \in {"invoked", "refused"}
  /\ body' = << >> /\ valid' = TRUE /\ propOk' = TRUE
  /\ verdict' = [p \in Indices |-> "unseen"] /\ propBad' = FALSE
  /\ answer' = "idle"
  /\ UNCHANGED <<i, inside>>

Init ==
  /\ body = << >> /\ i = 0 /\ valid = TRUE /\ inside = 0 /\ propOk = TRUE
  /\ verdict = [p \in Indices |-> "unseen"] /\ propBad = FALSE
  /\ answer = "idle"

Step == \/ CheckInput \/ CheckObject \/ EnterObject
        \/ CheckProperty \/ EndProperties \/ Decide \/ Return

Next == Receive \/ Step

Spec == Init /\ [][Next]_vars

(* The firmware computes without waiting once a request is there.          *)
FairSpec == Spec /\ WF_vars(Step)

-------------------------------------------------------------------------------
(* Properties.                                                             *)

(* "Controlla se, per ogni parametro da passare in input all'azione, il    *)
(* valore corrispondente [...] ha il tipo corretto" (thesis, line 1179):   *)
(* an action runs only after each of its inputs went through               *)
(* handleInputType, although the calls move the index of the loop that     *)
(* makes them (lines 1150-1169).                                           *)
InvokedOnlyIfChecked ==
  answer = "invoked" => \A p \in Indices : verdict[p] # "unseen"

(* "Se la verifica non va a buon fine, l'azione non viene" invoked (line   *)
(* 1179 of the thesis): it does not run when one of those calls, or one of *)
(* the calls for the properties of an object, returned false (lines 1171,  *)
(* 1740-1757).                                                             *)
InvokedOnlyIfGood ==
  answer = "invoked" => ~propBad /\ \A p \in Indices : verdict[p] # "bad"

(* An input passes unseen only if some input declared before it is of a    *)
(* type whose validation counts with i, and was seen and found good (lines *)
(* 1150-1169).                                                             *)
SkippedOnlyPastCounter ==
  answer = "invoked" =>
    \A p \in Indices : verdict[p] = "unseen" =>
      \E q \in 1 .. p - 1 : Counts(Inputs[q]) /\ verdict[q] = "good"

(* Every request is answered: the loops end, although a call may set the   *)
(* index of the loop around it back (lines 1150-1169, 1519-1529).          *)
RequestEnds == Busy ~> answer = "idle"
===============================================================================
