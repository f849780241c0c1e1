------------------------------- MODULE ThingCLI -------------------------------
(***************************************************************************)
(* The commands start and build of the command line: prompts that describe *)
(* a Thing, and the rendering of the sketch.                               *)
(*                                                                         *)
(* The inputs and the output of an action are kept twice: in the           *)
(* description td, a dictionary by name, and in actionFunctions, the list  *)
(* that is rendered.  They are entered at the prompts, or parsed from a C  *)
(* file, whose path is asked for again when its parameters make no sense.  *)
(*                                                                         *)
(* An exception ends the program, and nothing is on disk before the whole  *)
(* Thing was entered.  Prompts that only add text to the description       *)
(* (meta-types, links, versions, conditions) and the types of properties   *)
(* are left out; so is the validation of the whole against a schema, which *)
(* can only end the program.  Of the dialogues that add terms, FormTerms   *)
(* says what they do.                                                      *)
(***************************************************************************)
EXTENDS Rendering, FormTerms, FiniteSets

CONSTANTS
  Names,  \* names for a Thing, its properties, actions and inputs, which
          \* differ without regard to case
  Files,  \* what the C files say of the function that is looked for
  Chosen, \* the types chosen at the prompts of an action
  MaxProps, MaxActions, MaxInputs, MaxEvents, MaxTerms,  \* bounds
  MaxFunctions  \* bound: actions that have inputs or an output

(* typesDict: the types of a C file that the code knows (more are alike).  *)
TypesDict == [bool |-> "boolean", int |-> "integer", string |-> "string"]
CTypes    == DOMAIN TypesDict
Types     == {"boolean", "integer", "string", "array", "object"}

(* A file may lack the function; else it has a return type and parameters  *)
(* with names of their own.  "strange" is a type that contains no known    *)
(* name in lower case, such as JsonArray, or the lone void of f(void).     *)
Signature ==
  {s \in [found : BOOLEAN, output : CTypes \cup {"void", "strange"},
          inputs : Seq([name : Names, type : CTypes \cup {"strange"}])] :
     \A m, n \in DOMAIN s.inputs : s.inputs[m].name = s.inputs[n].name => m = n}

ASSUME BoundsAssumption ==
  {MaxProps, MaxActions, MaxInputs, MaxEvents, MaxTerms, MaxFunctions} \subseteq Nat
ASSUME UsersAssumption == Files \subseteq Signature /\ Chosen \subseteq Types

VARIABLES
  phase,     \* the prompt, or how the program ended
  td,        \* the description
  functions, \* actionFunctions: the inputs and the output of each action
  websocket, \* the global of that name
  port,      \* the WebSocket port was asked for
  entered,   \* per action, the inputs and the output the user gave, in the
             \* file that was accepted or at the prompts (a history)
  refused    \* the actions for which a file was refused (a history)

vars == <<phase, td, functions, websocket, port, entered, refused>>

(* Inputs are without name where they stand for the output.  refined: a    *)
(* minimum, items or the like were entered.                                *)
Datum(type, outcome) == [type |-> type, refined |-> outcome = "refined"]
Input(name, type, outcome) ==
  [name |-> name, type |-> type, refined |-> outcome = "refined"]
Outputs == [type : Types \cup {"none"}, refined : BOOLEAN]
Inputs  == [name : Names, type : Types \cup {"none"}, refined : BOOLEAN]

NoFunction == [input |-> << >>, output |-> Datum("none", "plain")]
Functions  == [input : Seq(Inputs), output : Outputs]

Apart(s) == \A m, n \in DOMAIN s : s[m].name = s[n].name => m = n

TypeOK ==
  /\ phase \in {"thing", "properties", "actions", "file", "prompts", "events",
                "terms", "written", "build", "stuck", "crashed", "done"}
  /\ td.title \in Names /\ td.forms \in 1 .. 2
  /\ td.props \in Seq([name : Names, forms : 1 .. 2])
  /\ td.actions \in Seq([name : Names, forms : 1 .. 2, fun : Functions])
  /\ td.events \in Seq([terms : Seq(Outputs)])
  /\ Apart(td.props) /\ Apart(td.actions)
  /\ \A a \in DOMAIN td.actions : Apart(td.actions[a].fun.input)
  /\ functions \in Seq(Functions) /\ Len(functions) = Len(td.actions)
  /\ entered \in Seq(Functions) /\ Len(entered) = Len(td.actions)
  /\ refused \subseteq DOMAIN td.actions
  /\ websocket \in BOOLEAN /\ port \in BOOLEAN

-------------------------------------------------------------------------------
(* handleThingTypes: what the prompts for a type may come to.  What is     *)
(* entered for an event term is also written into the function of an       *)
(* action, which has no such key, and the properties of an object input    *)
(* into a list that is used as a dictionary: both raise an exception.      *)
Refine(place, type) ==
  CASE type \in {"boolean", "string"} -> {"plain"}
    [] type = "integer" /\ place = "action" -> {"plain", "refined"}
    [] type = "integer" /\ place = "event"  -> {"plain", "crash"}
    [] type = "array"   /\ place = "action" -> {"refined", "crash"}
    [] type = "array"   /\ place = "event"  -> {"crash"}
    [] type = "object" -> {"plain", "crash"}

(* A type written over what was there: a minimum entered before stays.     *)
Over(old, new) ==
  IF new.refined THEN [old EXCEPT !.type = new.type, !.refined = TRUE]
                 ELSE [old EXCEPT !.type = new.type]

(* Mutant of Listed: the types are written one place too far.              *)
ListedLate(list, inputs) ==
  [n \in 1 .. Len(list) + Len(inputs) |->
     LET old == (list \o [m \in DOMAIN inputs |-> Input(inputs[m].name, "none", "plain")])[n]
     IN  IF n - 1 \in DOMAIN inputs THEN Over(old, inputs[n - 1]) ELSE old]

(* The inputs of a function: each is appended with its name, and its type  *)
(* is written at its place among the parameters, which is the new entry    *)
(* only if the list was empty.                                             *)
Listed(list, inputs) ==
  [n \in 1 .. Len(list) + Len(inputs) |->
     LET old == (list \o [m \in DOMAIN inputs |-> Input(inputs[m].name, "none", "plain")])[n]
     IN  IF n \in DOMAIN inputs THEN Over(old, inputs[n]) ELSE old]

(* The inputs of the description: a dictionary by name.                    *)
Keyed(dict, inputs) ==
  LET New == {m \in DOMAIN inputs : \A n \in DOMAIN dict : dict[n].name # inputs[m].name}
  IN  [n \in DOMAIN dict |->
         IF \E m \in DOMAIN inputs : inputs[m].name = dict[n].name
         THEN Over(dict[n], inputs[CHOOSE m \in DOMAIN inputs : inputs[m].name = dict[n].name])
         ELSE dict[n]]
      \o Selected(inputs, New)

(* handleTemplateTypes: a function as it is read back from the description.*)
FromDescription(a) == td.actions[a].fun

(* The action being entered.                                               *)
Current == Len(td.actions)

Record(list, dict) ==
  /\ functions' = [functions EXCEPT ![Current] = list]
  /\ td' = [td EXCEPT !.actions[Current].fun = dict]

Crash == phase' = "crashed" /\ UNCHANGED <<td, functions, websocket, port, entered, refused>>

-------------------------------------------------------------------------------
(* start.                                                                  *)

(* Mutant of NewNames: a name may be used again.                           *)
NewNamesAny(list) == Names

(* searchNameTD asks again until the name is new in its list.              *)
NewNames(list) == {n \in Names : \A m \in DOMAIN list : list[m].name # n}

(* addForm: the second form is WebSocket.  It notes so in a variable of    *)
(* its own that is called websocket too.                                   *)
AddForm == 1 .. 2

EnterThing ==
  /\ phase = "thing"
  /\ \E title \in Names, forms \in AddForm :
       td' = [td EXCEPT !.title = title, !.forms = forms]
  /\ phase' = "properties"
  /\ UNCHANGED <<functions, websocket, port, entered, refused>>

EnterProperty ==
  /\ phase = "properties" /\ Len(td.props) < MaxProps
  /\ \E name \in NewNames(td.props), forms \in AddForm :
       td' = [td EXCEPT !.props = Append(@, [name |-> name, forms |-> forms])]
  /\ UNCHANGED <<phase, functions, websocket, port, entered, refused>>

(* Press 1 to insert the action from a file, or 2 to insert it here; then  *)
(* it may have neither inputs nor output.                                  *)
EnterAction ==
  /\ phase = "actions" /\ Len(td.actions) < MaxActions
  /\ \E name \in NewNames(td.actions), forms \in AddForm :
       td' = [td EXCEPT !.actions =
                Append(@, [name |-> name, forms |-> forms, fun |-> NoFunction])]
  /\ functions' = Append(functions, NoFunction)
  /\ entered' = Append(entered, NoFunction)
  /\ phase' \in IF Cardinality({a \in DOMAIN functions : functions[a] # NoFunction}) < MaxFunctions
               THEN {"file", "prompts"} ELSE {"actions"}
  /\ UNCHANGED <<websocket, port, refused>>

(* parseFunctionFromFile.  Without the function, or with a strange return  *)
(* type, it fails where it looks for the output.  A strange parameter ends *)
(* the loop; what comes before it is in both structures by then, and the   *)
(* output is recorded all the same.                                        *)
ReadFile(f) ==
  LET known  == {n \in DOMAIN f.inputs : \A m \in 1 .. n : f.inputs[m].type # "strange"}
      fun    == functions[Current]
      dict   == td.actions[Current].fun
      hasOut == f.output # "void"
  IN
  /\ phase = "file" /\ Len(fun.input) + Len(f.inputs) <= MaxInputs
  /\ \/ (~f.found \/ f.output = "strange") /\ Crash
     \/ /\ f.found /\ f.output # "strange"
        /\ \E r \in [known \cup {0} -> {"plain", "refined"}] :
             /\ \A n \in known : r[n] \in Refine("action", TypesDict[f.inputs[n].type])
             /\ r[0] \in IF hasOut THEN Refine("action", TypesDict[f.output]) ELSE {"plain"}
             /\ LET inputs == [n \in known |->
                                 Input(f.inputs[n].name, TypesDict[f.inputs[n].type], r[n])]
                    output == Datum(TypesDict[f.output], r[0])
                    Out(old) == IF hasOut THEN Over(old, output) ELSE old
                IN  /\ Record([input |-> Listed(fun.input, inputs), output |-> Out(fun.output)],
                              [input |-> Keyed(dict.input, inputs), output |-> Out(dict.output)])
                    /\ entered' = [entered EXCEPT ![Current] =
                                     [input |-> inputs, output |-> Out(NoFunction.output)]]
        /\ IF known = DOMAIN f.inputs
           THEN phase' = "actions" /\ UNCHANGED refused
           ELSE phase' = "file" /\ refused' = refused \cup {Current}
        /\ UNCHANGED <<websocket, port>>

(* One input at the prompts, and the output, which ends the action.        *)
EnterInput ==
  LET fun  == functions[Current]
      dict == td.actions[Current].fun
  IN
  /\ phase = "prompts" /\ Len(fun.input) < MaxInputs
  /\ \E name \in NewNames(fun.input), type \in Chosen :
     \E outcome \in Refine("action", type) :
       LET input == Input(name, type, outcome)
       IN  \/ outcome = "crash" /\ Crash
           \/ /\ outcome # "crash"
              /\ Record([fun EXCEPT !.input = Append(@, input)],
                        [dict EXCEPT !.input = Keyed(@, <<input>>)])
              /\ entered' = [entered EXCEPT ![Current].input = Append(@, input)]
              /\ UNCHANGED <<phase, websocket, port, refused>>

EnterOutput ==
  /\ phase = "prompts"
  /\ \/ phase' = "actions" /\ UNCHANGED <<td, functions, websocket, port, entered, refused>>
     \/ \E type \in Chosen : \E outcome \in Refine("action", type) :
          \/ outcome = "crash" /\ Crash
          \/ /\ outcome # "crash"
             /\ Record([functions[Current] EXCEPT !.output = Datum(type, outcome)],
                       [td.actions[Current].fun EXCEPT !.output = Datum(type, outcome)])
             /\ entered' = [entered EXCEPT ![Current].output = Datum(type, outcome)]
             /\ phase' = "actions" /\ UNCHANGED <<websocket, port, refused>>

(* The number of actions that trigger the event is asked for in the range  *)
(* from 1 to the number of actions: without actions no answer is taken.    *)
EnterEvent ==
  /\ phase \in {"events", "terms"} /\ Len(td.events) < MaxEvents
  /\ \/ td.actions = << >> /\ phase' = "stuck" /\ UNCHANGED td
     \/ /\ td.actions # << >> /\ phase' = "terms"
        /\ td' = [td EXCEPT !.events = Append(@, [terms |-> << >>])]
  /\ UNCHANGED <<functions, websocket, port, entered, refused>>

(* A term of a schema of the event.  The value of a Boolean term is taken  *)
(* for a string and raises an exception.                                   *)
EnterTerm ==
  LET terms == td.events[Len(td.events)].terms
  IN  /\ phase = "terms" /\ Len(terms) < MaxTerms
      /\ \E type \in Types : \E outcome \in Refine("event", type) :
           \/ (outcome = "crash" \/ type = "boolean") /\ Crash
           \/ /\ outcome # "crash" /\ type # "boolean"
              /\ td' = [td EXCEPT !.events[Len(td.events)].terms =
                           Append(@, Datum(type, outcome))]
              /\ UNCHANGED <<phase, functions, websocket, port, entered, refused>>

(* The user goes on to the next section; after the last one the            *)
(* description is written to its file.                                     *)
Following == [properties |-> "actions", actions |-> "events",
              events |-> "written", terms |-> "written"]

GoOn ==
  /\ phase \in DOMAIN Following
  /\ phase' = Following[phase]
  /\ UNCHANGED <<td, functions, websocket, port, entered, refused>>

-------------------------------------------------------------------------------
(* build.                                                                  *)

(* In the same session, what start left behind is used.                    *)
BuildNow ==
  /\ phase = "written" /\ phase' = "build"
  /\ UNCHANGED <<td, functions, websocket, port, entered, refused>>

(* In a later session all is read from the file.                           *)
BuildLater ==
  /\ phase = "written" /\ phase' = "build"
  /\ functions' = [a \in DOMAIN td.actions |-> FromDescription(a)]
  /\ websocket' = \/ \E p \in DOMAIN td.props : td.props[p].forms = 2
                  \/ \E a \in DOMAIN td.actions : td.actions[a].forms = 2
  /\ UNCHANGED <<td, port, entered, refused>>

(* The port is asked for if there is a key events, which a user may have   *)
(* made without entering any.                                              *)
Render ==
  /\ phase = "build"
  /\ \E key \in BOOLEAN : (td.events # << >> => key) /\ port' = (key \/ websocket)
  /\ phase' = IF Renders(td) THEN "done" ELSE "crashed"
  /\ UNCHANGED <<td, functions, websocket, entered, refused>>

Init ==
  /\ phase = "thing"
  /\ td \in [title : Names, forms : {1}, props : {<< >>}, actions : {<< >>}, events : {<< >>}]
  /\ functions = << >> /\ entered = << >> /\ refused = {}
  /\ websocket = FALSE /\ port = FALSE

Next ==
  \/ EnterThing \/ EnterProperty \/ EnterAction \/ EnterInput \/ EnterOutput
  \/ EnterEvent \/ EnterTerm \/ GoOn \/ BuildNow \/ BuildLater \/ Render
  \/ \E f \in Files : ReadFile(f)

Spec == Init /\ [][Next]_vars

-------------------------------------------------------------------------------
(* Properties.                                                             *)

Rendered == phase = "done" /\ Compiles(td)

(* Every HTTP request of the sketch is answered by the function of its     *)
(* endpoint, although the list of requests and the functions are numbered  *)
(* by loops of their own (template, lines 745-760, 958-960, 1008-1061).    *)
HttpTableIsRight == Rendered => HttpTableRight(td)

(* Every WebSocket form of the description is answered by the function of  *)
(* its endpoint exactly if the Thing is orderly: tables of three numberings*)
(* and two ways to search meet only then (lines 309-327, 761-816,          *)
(* 1955-2024, 2255-2287).                                                  *)
WsTableIsRightIfOrderly == Rendered => (WsTableRight(td) <=> Orderly(td))

(* Of an action none of whose files was refused, the inputs and the output *)
(* that are rendered are those that were entered, in both sessions, whether*)
(* by way of the list or of the dictionary (embeddedWoTServient.py, lines  *)
(* 666-753, 756-913, 1230-1265, 1380-1400).                                *)
RenderedAsEntered ==
  phase = "done" =>
    \A a \in DOMAIN functions : a \notin refused => functions[a] = entered[a]

(* The port of the WebSocket server is asked for whenever the sketch has   *)
(* one (lines 1441-1443; template, lines 819-823).                         *)
PortIsAsked == Rendered /\ UsesSocket(td) => port

(* The dialogue about terms of the forms of the Thing follows these.       *)
TermsFollow == phase = "properties" /\ td.props = << >>

(* Whatever is answered in it, the HTTP form is written until a term is    *)
(* asked for the WebSocket form, and never again after that, although the  *)
(* flags http and ws both stay set (lines 199-273).                        *)
HttpTermsFirst == TermsFollow => LandsAsAsked(td.forms = 2)

(* With two forms, a term is replaced by a later one of its name only in a *)
(* dialogue that changes over from one form to the other.                  *)
ReplacedOnlyAfterChange == TermsFollow /\ td.forms = 2 => FirstStays
===============================================================================
