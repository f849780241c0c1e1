# A verification project for Embedded-WoT

The repository generates firmware. `src/Demo/embeddedWoTServient.py` asks for
the description of a Thing, and renders
`src/Demo/Templates/thing-template.txt` into an Arduino sketch for the ESP8266:
a Web of Things *servient* that serves properties and actions over HTTP and
WebSocket and notifies consumers of events. What runs, and what can go wrong, is
the sketch. Line numbers below without a file name are lines of the template.

## Inventory

| Component | Where | State | Operations |
|---|---|---|---|
| Client registries | 585-616; used at 1266-1277, 1804-1850, 1889-1985, 2182-2319 | two registries, for event channels (`ipe_arr`, `ipe_doc`, `e_doc`) and for property and action channels (`ipia_arr`, `ipia_doc`, `ia_doc`), each keyed by IP address | record a channel, look a name up, turn a flag, erase an address by its socket number |
| WebSocket callback | `webSocketEvent`, 1790-2348 | the registries, the global `i` | CONNECTED (event, property, action endpoints), DISCONNECTED, TEXT (subscribe, cancel, invoke) |
| Rounds of notifications | 1236-1342 | the global `i` | after an action, if the condition of its event holds, one `sendTXT` per subscriber |
| WebSockets library | `libraries/WebSockets/src` | `_clients[]`, one slot per connection | `loop`: accept, visit every slot; upgrade, message, disconnection found when sending or asking for the address |
| Action requests | `request<n>(body)`, 1110-1348; `handleInputType`, 1350-1782 | the global `i`, `validInput` | parse, look for missing inputs, validate each input, run the action, answer |
| HTTP and WebSocket tables | 745-818, 1008-1108, 1955-2024, 2027-2125, 2255-2319 | the lists `req`, `ws_requests`, `ws_actions`, `reqPropertyWS`, fixed when rendered | find the function that answers an endpoint |
| Event schemas | 619-743, 913-943, 2187-2247 | `es_doc` | copied in `setup()`, compared term by term |
| Description and globals macros | 1-513 | the Thing Description, the dictionary `global` | add forms, collect lists and flags for the template |
| CLI: start, build | `embeddedWoTServient.py` 14-1642 | the description `ctx.obj['td']`, the lists `actionFunctions`, `eventConditions`, the flag `websocket` | prompts, parsing of C files, reading a description back, rendering |
| CLI: compile, flash | 1645-1719 of the same | a flag | run `arduino-cli` |
| Counter over WebSocket | `src/Esercizi/Arduino/Thing_WebServer`, `WebSocketClient` | `doc` (subscriptions by slot), a counter; `subscribed` in the client | the hand-written forerunner of the sketch, and a client that subscribes and posts |
| Counter over TCP | `src/Esercizi/Arduino/Thing_WiFiServer` | `header`, a counter, a flag | the first one: reads, recognises and answers one connection at a time |
| ArduinoJson | `libraries/ArduinoJson/src` | one pool of fixed size per document | add members and copies of keys, remove without freeing |
| Other libraries, exercises, schemas | the rest | | |

### How they interact

The firmware is one thread: `loop()` (974-984) calls the library's `loop()`,
then serves HTTP. The library calls `webSocketEvent` back, and `webSocketEvent`
calls the library (`remoteIP`, `sendTXT`). A call that finds its connection lost
disconnects the slot *inside the call* and so calls `webSocketEvent` again, with
DISCONNECTED, in the middle of whatever was running. Request functions run in
both places: from an HTTP handler and from the callback.

Two things are shared that should not be. The template declares **one global
`i`** for every loop: the loops over the registries (1811, 1839, 1889...), the
round of notifications (1267), the loop over the inputs of an action (1150) and
the loops inside the validation it calls (1519, 1548, 1741). And the registries
are keyed by **IP address**, so that all channels of an address share an entry
and the one socket number kept in it.

### What is hard

* a disconnection inside a round, or inside a handler, under loops that use the
  same index and the same arrays;
* several channels of one address; a reconnection before the loss of the first
  connection is noticed; a slot number that is used again;
* three documents per registry that one branch must keep in step;
* nested loops that count with one variable: they skip, repeat, or never end;
* results of nested validations that overwrite one another;
* tables indexed from 0 and from 1, and lists numbered differently by the macros
  and by the generated switches;
* documents of a fixed size that free nothing, and whose size is estimated by
  one formula and consumed by another;
* flags and globals that outlive what they were set for: `http` and `ws` in a
  dialogue, `subscribed` over a reconnection, `header` over connections.

`PROJECT.json` lists these hazards, each at its line, with the properties
that would catch it.

### What makes each component correct

* *Registries*: the three documents name the same addresses and agree on their
  sockets; nothing is recorded twice; nothing outlives its channel; nothing is
  erased but by a channel of the same address.
* *WebSocket callback*: who was told "Subscription confirmed" is notified, on
  that channel, and nobody else is; every round ends; a round misses nobody.
* *Action requests*: an action runs only after all its inputs were validated
  and found valid; every request is answered.
* *Event schemas*: each event is compared with its own schema, and its
  notifications carry its own data.
* *Tables*: a request runs the function of the endpoint it names, though the
  lists and the functions are numbered by different loops.
* *CLI*: what was entered is what is rendered, in the same session and in a later
  one; whatever the renderer needs was asked for; a term goes into the form it was
  asked for.
* *Counter over WebSocket*: who was told "Subscription confirmed" is recorded and
  notified, once per increment; a consumer that lost its connection gets back to
  that state by itself.
* *Counter over TCP*: the answer is to the request; everybody gets one.

## Modules

    ClientRegistry          the registries, as records with pure operations
      ServientWS            slots + callback + rounds of notifications
        ServientHub         ServientWS as an implementation of EventHub
          MCServientWS      instances for TLC
        ServientWS_proofs   what the operations preserve; types, agreement of the registries
          ServientWS_safety ownership, uniqueness, routes, what erases an entry
            ServientHub_proofs  subscribers, rounds, the refinement (with ServientHub)
    EventHub                abstract: subscribers, publications, losses
    EventSchemas            es_doc, the texts of consumers, the data of notifications
      MCEventSchemas        instances for TLC
      EventSchemas_proofs   the pool, the loop over the terms, whole copies and what follows
    ActionRequest           request<n>(body) and handleInputType
      MCActionRequest       instances for TLC
      ActionRequest_proofs
    Rendering               the tables of a rendered Thing, as pure operators
    FormTerms               the dialogue addTerm, as a function of its answers
      ThingCLI              start and build, with Rendering and FormTerms
        MCThingCLI          names and files for TLC
        ThingCLI_proofs     the tables for every Thing, dialogues of every length, every session
    CounterThing            Thing_WebServer with its clients
      MCCounterThing, CounterThing_proofs
    WiFiThing               Thing_WiFiServer with its consumers
      WiFiThing_proofs

### ClientRegistry

A registry is a record: `arr` is the array of `{"ip", "num"}` objects in its
order (`ipe_arr`), `num` the document from address to socket (`ipe_doc`), `doc`
the document from address to an array of one-key objects `{name: flag}`
(`e_doc`). Both registries of the firmware have this shape and the code treats
them alike. Names are indices into `events_list` or `ws_requests`. Order matters
(the code stops at the first match) and is kept. `Record`, `Forget`, `SetFlag`
are what the CONNECTED, DISCONNECTED and TEXT branches do to it; `Overwrite` is
what the CONNECTED branch writes through a `JsonObject` it still holds when the
send before that write erased the address. The fixed size of the
JSON pools is not modelled here.

### ServientWS

`slots` are the library's `_clients[]`: a slot is free, in its handshake
(`header`) or `open`; `up` says whether TCP is still alive, which the server
does not know until it asks. `pos` is how far `loop()` has come: the slots in
order, HTTP, accepting. A handler is one action, with every call it makes
composed in it: `UpgradeEvent` is `handleHeader` plus the CONNECTED branch,
`Close` and `Reap` are `clientDisconnect` plus the DISCONNECTED branch,
`EventText` and `ActionText` the two halves of TEXT. Only a round of
notifications is taken send by send (`ScanAddress`, `Notify`, `EndRound`),
because each send may run the DISCONNECTED branch, which changes the array and
the index `round.i` under the loop; `IndexAfterDisconnect` is the value that
branch leaves in `i`. `Lose` is the network: a connection may drop at any time.

`view` is history, not state of the firmware: for each slot the event
its endpoint named and whether its consumer was last told that it is subscribed.
The properties about what a consumer was promised are written with it.

A handler may also lose *its own* connection half-way: in `remoteIP`, or in the
first send. Both end in the DISCONNECTED branch inside the CONNECTED or TEXT
branch, which then goes on with stale values of `i` and of its `JsonObject`.
The constant `MidLoss` switches this on. It over-approximates in one respect: the library
notices a loss only in a call that asks for it, and how often the TCP stack
answers "lost" within one handler is not known to the code. An array read beyond
its end (`events_list[k]` with a stale index) is any value, or a crash, which is a
stuttering step.

Not modelled: the cases a user adds to `webSocketEvent` for other frame types
(2339-2346); encodings, fragments, pings. Assumed of the generated sketch,
because the compiler or the renderer refuses the others: at most one event has
its condition after a given action (two would redeclare a variable at 1245),
and the Thing has WebSocket forms (else 2255 and 2331 render an undefined
name). Assumed of the instances because `EventSchemas` says what becomes of the
others: only the first event has schemas (926). And assumed because
`Rendering` says exactly when it is so: the Thing is orderly (its WebSocket
actions are its first ones, properties and actions have distinct names).

### EventHub and ServientHub

`EventHub` is what the event channels promise, without registries, indices or
`loop()`: an event is published to its subscribers, nothing else happens on the
server meanwhile, and a subscriber may be passed over only if channels were found
lost during that publication, at most one for each. `ServientHub` maps ServientWS
to it: `sub` is what the consumer of a channel was last told (`view`), `live` the
connections that are up, `event`, `sent` and `closed` the round. The refinement
is for one channel per address (`MaxPerIP = 1`) and handlers that do not lose
their own connection: with two channels per address a subscriber may get nothing
though no channel was lost (see the disagreements). `Spec` of EventHub has
fairness, so that the refinement includes the end of every round.

### EventSchemas

The schemas of the Thing are chosen in `Init` (`declared`); `Copy` is one turn of
the template's loops in `setup()` over events and kinds, with `schema_size`
(`size`), the object of the event and the array made as the pool allows, and each
term stored in the order of its allocations: object, member, copy of the text,
member (`StoreTerm`); `StoreTerms` is the loop over them. A string array read behind its end yields any term or
nothing that parses (`Read`). Then `Connect`, `Disconnect` and `TextOf` are the
channels of one address: the first object whose schema's names are all in the
text takes it, and it is confirmed if it is the schema in its order. `Notices(e)`
is what a notification of e may be, with the read of `events_dataSchema` one
element too far. Values of terms are numbers; a name counts by its length, which
decides whether the document is large enough. Not modelled: schema values that
are strings, and the temporary documents of the comparison, which are large
enough for the schemas here.

### ActionRequest

One request at a time: `Receive` draws its body, then one action per
iteration of the loop over the inputs (`CheckInput`, `CheckObject`,
`EnterObject`), and of the loop over the properties of an object
(`CheckProperty`, `EndProperties`), `Decide` and `Return`. `i` is the global
index; the inner loops (characters of a number, items of an array) always end
and are part of their step, with the value they leave in `i` (`Outcome`).
A JSON value is what `handleInputType` can tell of its serialised form: its
kind, how many digits a number begins with or how many valid items an array begins with
(`lead`), whether something else follows (`clean`), and whether the value is in range (`fits`).
`verdict` and `propBad` are history.

The module keeps what the code does with strings: `value.remove(0)` (1419)
removes the whole string, so that a quoted value is empty when it is looked at
and passes as a number; `'.'` and `'-'` are not digits at 1521, so that `1.5`
and `-1` are refused. Excluded, because the generated sketch does not compile:
arrays of numbers (1524), `minItems`/`maxItems` (1585, 1590), arrays of objects
next to objects with properties (1617, 1647). Excluded for depth: arrays of
arrays, objects in objects.

### Rendering

The tables of a sketch as functions of the Thing it is rendered from. `Req` is
the list of HTTP requests in the order of its loops, `HandleReq` and `Request`
say what the k-th function answers for. `WsActions` and `WsProperties` are the
lists that endpoints of channels are looked up in, by name; `WsAnswer` follows
the search: the first name in `ws_actions` that fits decides, and its place there
is taken for the place of the action in the Thing. `IsWS`, `Renders` and
`Compiles` are the conditions under which there are such tables, the template
can be rendered, and the compiler takes the result.

### ThingCLI

One action per section of the prompts (`EnterThing`, `EnterProperty`,
`EnterAction`, `EnterInput`, `EnterOutput`, `EnterEvent`, `EnterTerm`),
`ReadFile` for one file that the user names and the program parses, `GoOn` from section to section,
then `BuildNow` in the same session or `BuildLater` in one that reads
the description back, and `Render`. The inputs and the output of each action are kept twice,
as in the code: in `td` (keyed by name) and in `functions` (`actionFunctions`, by
place). `Refine` is what `handleThingTypes` may come to: nothing added,
something added, or an exception, because the code writes into a list as if
it were a dictionary, or into a key that is not there. `entered` and `refused`
are history: what the user gave, and for which actions a file was refused after
the program had taken some of its parameters.

Left out: everything that is only carried along as text (titles, conditions,
bodies, links, versions), the types of properties, additional
functions and variables, and the JSON schema check, which can only
end the program. A file is what `parseFunctionFromFile` finds in it: whether the
function is there, its return type and its parameters.

### FormTerms

`addTerm` keeps its choices in two flags that are never reset. `AddTerms` gives
what each number of answers of a dialogue comes to: `Choose` is the question for the
protocol, `Checked` and `ListedIn` the list of names looked at and added to,
`Written` the form that is written. ThingCLI checks two facts about it where the
dialogue is entered, with the number of forms the Thing has there.

### CounterThing

Server and clients of the hand-written forerunner. The server keeps what is
subscribed by the number of the slot: `doc[n]` counts the objects under "n",
`junk` the members whose key could not be copied, `used` the bytes taken of the
pool. `Upgrade`, `SubscribeText`, `OtherText` and `Reap` are the library's visit
with the callback in it; `NotifySlot` is one turn of the loop of `handleReq4`. A
client (`cl`) connects, reads its messages (`Receive`) and posts once it has
subscribed (`Post`); `inbox` and `outbox` are the connection, in order. `Lose`
and `Lapse` are the network: the consumer sees the end first, and the server at
once or later. `ByHand` are consumers that also send "Subscribe change" again,
which only another client does; it waits until all answers are read. Not
modelled: requests that only read, the counter that `handleReq3` adds to, and the
five seconds between two attempts to connect.

### WiFiThing

`con` is what each consumer does (its request, how far it sent it), `pending` the
connections `server.available()` has not returned, `client` the one in the loop.
A line stands for its characters. `ReadLine` gathers in `header`; the empty line
is `Serve`, which recognises the request in `header`, answers and stops; `GiveUp`
is the end of `while (client.connected())` without one.

## Runs

| Run | Module | Result | What it shows |
|---|---|---|---|
| `solo` | ServientHub | holds | Three consumers, one connection per address at a time: no stale entry, every confirmed subscriber is the one notified (`SubscriberIsRouted`), nobody else is (`NotifiedIsSubscriber`), and the whole implements EventHub (`ImplementsHub`). |
| `shared` | ServientWS | holds | Two connections per address: registries agree, owners are open channels, no double entries, routes exist, a round misses at most one live subscriber per connection it finds lost, only own channels erase, an action channel serves one request; and, with fairness, lost owners are forgotten and rounds end. |
| `midloss` | ServientWS | holds | Losses inside handlers: the agreement of the registries survives them (the types too, by `TypeCorrect`). |
| `skipped` | ServientWS | violated | `EverySubscriberNotified`: a loss inside a round makes it pass over a live subscriber. |
| `schemas` | EventSchemas | holds | Every choice of schemas for two events: which are copied whole, which texts are confirmed, what a notification carries. |
| `refused` | EventSchemas | violated | `MatchingIsAccepted`: the first event has no schema, the second one's is copied with size 0 and its own text refused. |
| `object` | ActionRequest | holds | A list of strings, then an object with one required number: an input is skipped only behind a list that was found good, nothing found bad reaches the action, every request is answered. |
| `hang` | ActionRequest | violated | `RequestEnds`: a number of one digit as third input sets `i` back for ever. |
| `wizard` | ThingCLI | holds | Every Thing within the bounds, entered in every way: the HTTP table is right, the WebSocket tables are right exactly if the Thing is orderly, actions are rendered as entered unless a file was refused, terms land in the HTTP form until one is asked for the other. |
| `port` | ThingCLI | violated | `PortIsAsked`: a Thing with WebSocket forms and no events is built without a WebSocket port. |
| `counter` | CounterThing | holds | Two clients, connections lost between the handlers, a pool that runs full: entries belong to open slots, nothing is recorded twice, a confirmed client is recorded while a whole subscription fits, only confirmed channels are notified, a round passes over a live subscriber only behind a gap, and once the network is calm every client is, and stays, subscribed again, unless a whole subscription does not fit into the pool any more or dead connections hold every slot. |
| `wifi` | WiFiThing | holds | Two consumers whose requests break off anywhere: answers are to the requests, notifications tell of one increment, everybody is served. |

`wizard` and `port` do not check for deadlock: the program ends after rendering
or with an exception, and a user who announced events without any action is
left at a prompt that accepts no answer (`stuck`). The other runs do check it.

### Bounds, and why they are enough

* *Slots*: two; three in `solo`. The hazards of the registries need two
  entries: one that is erased and one after it in the array that must survive
  (or be missed). The third slot puts a loss before, at and after the
  position of the loop.
* *Addresses*: two, plus 0.0.0.0; three in `solo`.
  In `midloss` the two real addresses are symmetric; its properties do
  not tell them apart. In the other runs they are not declared symmetric.
* *`MaxPerIP`*: 1 is a network where every consumer has its own address and
  comes back only after the loss was noticed; 2 lets channels share one.
* *`MaxEntries`*: objects of one address in one registry; never below the number
  of names, so that it does not bite when `NoDoubleEntries` holds.
* *Events*: one with both schemas and one with neither (subscribed on
  connection). One shape of message: whether a message fits a schema by name and
  by value is in `Messages`.
* *Actions*: one with input and WebSocket form, one without; each triggers
  another event.
* *`MaxLead`*: digits and items up to 2 move the index to, past and before every
  position of the inputs.
* *`MaxProps`, `MaxActions`, `MaxEvents`, `MaxTerms`*: one property, two actions,
  one event, one term. Two actions are the least for the order of actions to matter;
  names that collide need one property. The theorems about the tables have no bound.
* *`MaxAnswers`*: three terms in a dialogue: one form, the other, and back. The
  theorems hold for any number.
* *Schemas* (`schemas`, `refused`): two events, because the code treats the first
  and the others differently; schemas of one and two terms; a short name, which
  takes more than the renderer reckons, and a long one, which takes less. The
  theorems have no bound.
* *`counter`*: two clients and two slots, so that a slot changes hands;
  sizes of 1 for a slot and each copied key, so that a connection takes 2 units of the
  pool and a subscription 3 more. The pool has 20. The exceptions of
  `ConfirmedIsRecorded` and `SubscriptionsHeal` begin with the sixteenth, so that
  both clients are subscribed (10) and one is lost and subscribed again (15) before
  they do; and connections that end before they subscribe
  leave every remainder, so that every allocation fails in some state. The board's sizes
  are 16 bytes a slot, 2 and 7 a key, in 1024. `MaxValue` 1 is one round of
  notifications, `MaxSent` one message asked by hand; the proofs have no bound.
* *`wifi`*: one header field suffices for a request to break off before, at and
  behind it; three increments.
* *`MaxInputs`, `MaxFunctions`*: two inputs, for one of the actions (the code of
  an action touches no other's). Files, chosen to differ in what the parser does:
  accepted, refused at the second parameter, parameters in another order,
  function not found. After a refused file every file that still fits is tried.

No other counter is unbounded: `round.i` and `round.left` are bounded by the
array they run over.

### Fairness

`WF(Progress)` in ServientWS: `loop()` is called again and again by the Arduino
core, so it gets past an idle slot, an idle listener and a connection it finds
lost, and it finishes a loop it is in. Nothing is assumed of consumers or of the
network: `Accept`, `Upgrade`, `Text`, `Close`, `Lose` and HTTP requests may
never happen. `WF(Step)` in ActionRequest: validation computes without waiting.
`Receive` is not fair. CounterThing: `WF` of the visit of each slot, of the loop
of notifications, and of what each client's own `loop()` does (connect, read,
notice a loss); posts, losses and requests by hand may never happen, and
`SubscriptionsHeal` asks for a network that is calm from some time on. WiFiThing:
`WF(Loop)`, as `loop()` is called for ever, and of each consumer that it does not
stop half-way in its request for ever: it ends it or its connection ends (the
code has no timeout of its own). EventHub: `WF(Serve)`, which ServientHub shows
to follow from `WF(Progress)`. EventSchemas and ThingCLI have no liveness
property.

## What the disagreements say

Four runs find the code to differ from what the thesis
(`src/Tesi/Embedded-WoT/rossi_daniele_tesi.tex`) or a text of the program says:

1. `skipped`: a disconnection found by `sendTXT` inside the round removes an
   element of `ipe_arr` and sets the same `i`; a live subscriber is missed.
   `MissedBoundedByDrops` and EventHub's `Finish` show the extent: one per lost
   connection.
2. `hang`: a valid number with fewer digits than there are inputs before it sets
   the index back; `loop()` does not return, until the watchdog resets the board.
3. `port`: whether the WebSocket port is asked for depends on a global that
   `addForm` never sets (it assigns a local of the same name): a Thing
   with WebSocket forms but no events gets `portSocket` without value.
4. `refused`: `schema_size` is assigned for the schemas of the first event
   only. If it has none, those of the second are empty, and who sends the
   declared terms is answered "Subscription refused".

Without a run of their own, but visible in the modules:

* a second channel of an address is told "Subscription confirmed" but notified
  through the first; once the first closes, through none (1890-1896, 1272):
  `SubscriberIsRouted` holds only for `MaxPerIP = 1`;
* after a valid number of n digits validation goes on with input n + 2, wherever
  the number stood (1519), so that an input may never be looked at
  (`InvokedOnlyIfChecked` fails); theorem `SkippingIsBehindCounters` says how far
  this goes;
* only the last property of an object decides whether it is valid (1751;
  `EndProperties`): `InvokedOnlyIfGood` fails for an object with two properties,
  of which the first is invalid;
* a notification carries no data if its event declares some and the next event
  none, and for the last event the flag is read behind the table (1256; `DataFlag`);
* a loss inside `remoteIP` (1879) runs "remove all client subscriptions" (1810)
  before the subscription is recorded, under 0.0.0.0; the entry stays until the
  same slot number ends another connection (`UpgradeEvent` with `MidLoss`; the
  same at line 369 of `Thing_WebServer`);
* `value.remove(0)` (1419) empties a quoted value before it is looked at, and
  `'.'` and `'-'` are no digits at 1521 (`Texts`, `Number`);
* a schema with short names does not fit the document made for it (596-608;
  `Capacity`, `Need`), and a text with the terms of a schema in another order is
  refused (2212; `Accepts`);
* a file that is refused leaves its parameters behind (`refused` of ThingCLI), a
  Boolean term of an event ends the program (653; `EnterTerm`), and a Thing whose
  only WebSocket forms are on actions has none in its sketch (323; `IsWS`);
* in `Thing_WebServer` the loop of notifications ends before a subscriber whose
  slot lies behind one without entry (302; `NotifySlot`);
* in `Thing_WebServer` the send of "Subscription confirmed" (393) may find the connection
  lost and run the DISCONNECTED branch; the subscription is recorded afterwards, and
  the next client that gets the slot inherits it (368-373): with `MidLoss`,
  `NotifiedWasConfirmed` and `EntriesOfOpenSlots` fail.

## Proofs

All for every value of the constants within the assumptions of the modules.

**ServientWS, with losses inside handlers.** `TypeCorrect` and
`RegistriesCorrect`: `Spec => []TypeOK` and `Spec => []RegistriesAgree`. The
invariant is their conjunction `Inv`. It is inductive only together: `Forget`
erases the address it reads from `arr`, which the types make an address and
the agreement makes the right one. The first part of `ServientWS_proofs` shows of each operation
that it keeps a registry a registry, and `KeysAgree`. `Good(S)` states the
same of the record a handler works on, so that a handler is the composition of
its calls in the proof too; one lemma per action follows.

**ServientWS, without them (`~MidLoss`).** `OwnersAreOpen`, `EntriesAreUnique`,
`RoutesAreDefined`. The invariant is
`SafeInv == Inv /\ OwnersOpen /\ NoDoubleEntries /\ Routed`. `OwnersOpen` needs
the agreement of the registries (to know that a new address is in no array) and
itself for the *other* registry: the DISCONNECTED branch does not look at
the second registry after a hit in the first, which is right only because no
socket owns in both. `Routed` adds that at most one send is due for an address
(`round.left <= 1`), from `NoDoubleEntries`: the disconnection inside the last
due send may erase the route. `ErasedByOwnChannel` and `RequestsServedOnce` are
action properties from the same invariant: the only call that takes something out
of a registry is `Forget(r, n)`, and what it erases is kept under the address of
slot n, because the owner of an entry is open at that address. One lemma per
action (`Touches`) says which slots a handler ends.

**ServientHub, without them.** The invariant is
`SoloInv == SafeInv /\ Told /\ Scan /\ Answered`.
* `Scan` follows the loop over `ipe_arr`: what is at or behind the index was not
  notified yet, and `MissedBoundedByDrops` itself. A disconnection in the loop
  shortens the array under the index by one and so moves at most one live
  subscriber below it. `MissedAreBounded` needs nothing else, so it holds however
  many channels an address has.
* `Told` needs `MaxPerIP = 1`: an address has one channel, every object kept
  under it has the endpoint of that channel as key, and as flag what its consumer
  was told last. `EntriesAreFresh`, `SubscribersAreRouted` and
  `OnlySubscribersNotified` follow. The runs `shared` and `solo` differ in that
  constant; with several channels per address the code overwrites the one socket it
  keeps, and none of the three is claimed.
* `Answered`: the channel whose request runs a round is no subscriber, so that
  its end after the loop takes no subscription with it.

`RefinesHub` is the safety part of `ImplementsHub`: initial states are initial
states of EventHub, and each action is shown to be one of its actions or to
leave its variables alone. `HubCardinality` is there because the instance of EventHub has
a `Cardinality` of its own.

**ActionRequest.** `RequestTypeCorrect`, and with the strengthening
`Inv == TypeOK /\ HasBody /\ InLoop /\ InObject /\ SkippedOnlyPastCounter`
(parts that say where `i` stands in each loop and what was seen so far)
`SkippingIsBehindCounters`: an input that reached the action unchecked stands
behind one of a counting type that was found good. `AllInputsChecked`: if only the
last input, or none, is of a counting type, the action runs only after all were
checked. `InvokedIfAllGood`: without object inputs with properties, an action
never runs after a failed check. The last two delimit what goes wrong at 1519
and at 1751.

**Induction over data.** What a recursive function computes for every length is
proved by induction in the form of a fact about sets: a set of naturals that has
0 and the successor of each of its members has them all (`AllNaturals`, from the
least element of a set of naturals, `Least`). Each such proof first shows that
the function exists, then what it holds at each place. The theorems of the
library that take the induction formula as a parameter are not needed. For this
the models are written with recursive functions where folds would be shorter, and
sequences are selected by the ranks of their places (`Selected` in Rendering).

**Rendering and ThingCLI**, both in `ThingCLI_proofs`.
* *HTTP*. `HttpTableAlwaysRight`: for every Thing, the k-th request is answered by
  the function of its endpoint. The lemma `ReqParts` says where the four parts of
  `Req` begin; the theorem compares them with the cases of `HandleReq`.
* *WebSocket*. `WsTableRightIffOrderly`: for every Thing whose actions have
  distinct names the table is right if *and only if* the Thing is orderly. The
  lemmas on `Rank` and `Place` say that a selected list holds what fits, once, in
  order (`SelectedAll`, `SelectedSeq`); `FirstIn` what a search by name finds;
  `WsActionsHold` and `WsPropertiesHold` what the two lists hold. In the other
  direction, an action with WebSocket form behind one without stands too far in
  front in `ws_actions`, and two endpoints of one name get one answer.
* *Sessions*. `IInv == TypeOK /\ Histories`. As long as none of an action's files
  was refused, both copies of its inputs, the list by place (`functions`) and the
  dictionary by name (`td.actions`), are what was entered. It is inductive
  because a file is read into an action that is still empty, or into one that
  had a file refused, and because names that are taken are asked for again: a
  dictionary filled with names that are apart holds the same inputs as the list
  (`KeyedFresh`, `KeyedNew`).
  From it `SessionTyped`, `SessionRendersEntered`, and that every
  Thing a session can come to has lists of actions with distinct names, so that
  the two theorems on tables carry over: `HttpTableStaysRight` and
  `WsTableStaysRightIfOrderly`.
* *Dialogues*. `TermsLandAsAsked` and `FirstTermStays`, for dialogues of every
  length. The invariant along the answers: the flag of a form is set if and only if
  it was asked for; in a dialogue with one form, a name is known if and only if it
  was used, so that it is written once. `SessionTermsLandAsAsked` and
  `SessionTermsStay` say it of the states of a session.

**EventSchemas.** `PoolNeverOverrun`, `RegularCopiedWhole`, `ConfirmedAsDeclared`,
`NoticeAsDeclared`, for any number of events, any schemas and any lengths. The
invariant is `IInv`: the types and `CopiedTo(n)`, n being the places `setup()` has
passed: what is not reached is empty; regular schemas were copied whole; and as long as they
are regular, the document holds exactly `Need(n)`, an event has its object once
one of its schemas is declared, and `schema_size` is the length of the last
schema of the first event. `StoreTermWhole` and `StoreTermsWhole` say what the
loop over the terms stores if there is room, `StoreTermsTyped` that it takes no byte that
is not left, whatever was read. `ReadWhole` is where the schemas of later events
depend on the length of another event's. `AllCopied` sums this up for a sketch
whose `setup()` has ended, and the last two theorems follow from it and from the
least element of `Takers`.

**CounterThing.** With losses inside handlers: `RecordedAtMostOnce`, for which
`TypeOK /\ RecordedOnce` is inductive, and `CounterTyped`. Without them: `EntriesBelongToOpenSlots`,
`ConfirmedMeansRecorded`, `MissedOnlyBehindAGap`, `NotifiedWereConfirmed`, from
`Strong == Inv /\ Sound(Now) /\ Behind`. `Sound` says of each slot that an entry
belongs to an open channel that was told so, and that a channel told so has an
entry unless the document is too full for one; like `Good` above it speaks of the
record a handler works on. `Behind` says that the loop has sent to every live
subscriber it passed; the rest of `MissedOnlyBehindGap` is counting: without a gap
below it, a slot has at least as many members of `doc` up to it as its number says,
so the loop is not over before it. All for any number of clients and slots and
any sizes.

**WiFiThing.** `WiFiTypeCorrect`, `AnswersAreToRequests`, `NotificationsAreOfSteps`.
The invariant says where the first line of a request is: with its consumer until
it is read (`Waiting`, `Queued`), then at the head of `header` (`Serving`), which
is empty between connections (`NothingLeft`); and that `last` equals `value`
between requests.

**Model-checked only.** All liveness (`LostOwnerIsForgotten`, `RoundEnds`,
`RequestEnds`, `SubscriptionsHeal`, `EverybodyIsServed`, and the fairness of
EventHub within `ImplementsHub`), which the prover does not do. Every invariant
and every action property that a run checks is the statement of a theorem.

## Plan

1. *Done*: all modules above, their runs and proofs.
2. The pools of the servient's own documents (585-616), which free nothing on
   `remove`: CounterThing models that life for the predecessor.
3. The types of properties in ThingCLI.

## Not modelled, and why

The CLI's `compile` and `flash` pass the output of `arduino-cli` on; `renderTD.py`
renders once and holds no state; the JSON schemas are data; the exercises
other than the prototypes share no logic with the servient; the vendored
libraries are third-party code, modelled where the behaviour of the servient or
of its prototypes hangs on them (WebSockets, the memory of ArduinoJson). They are
all but a few thousand of the repository's lines of code, and the template
itself, which most modules translate, is a text file.
