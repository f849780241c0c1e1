------------------------------ MODULE CounterThing ------------------------------
(***************************************************************************)
(* The hand-written forerunner of the generated servient, Thing_WebServer, *)
(* with consumers that run WebSocketClient: a counter over HTTP, and over  *)
(* WebSocket the event "change", which a consumer subscribes to with a     *)
(* text of its own and is told of at every increment.                      *)
(*                                                                         *)
(* Unlike its successor the server keeps what is subscribed by the number  *)
(* of the slot, in one JSON document of a fixed size that frees nothing.   *)
(* Messages of a connection arrive in order; a connection may be lost at   *)
(* any time, and the server may learn of it later than the consumer.       *)
(***************************************************************************)
EXTENDS Integers, Sequences, FiniteSets

CONSTANTS
  Clients,    \* the boards that run WebSocketClient
  ByHand,     \* those of them whose user also sends "Subscribe change" again
  ClientMax,  \* WEBSOCKETS_SERVER_CLIENT_MAX
  PoolSize,   \* capacity of doc, in the unit of the three sizes that follow
  SlotSize,   \* sizeof(VariantSlot)
  NumKeySize, \* the copy of the key "<num>"
  EventSize,  \* the copy of the key "change"
  MidLoss,    \* may a handler find its own connection lost half-way?
  MaxValue,   \* bound: increments
  MaxSent     \* bound: messages under way to the server

Nums  == 0 .. ClientMax - 1
NoNum == -1

ASSUME SizeAssumption ==
  /\ ClientMax \in Nat \ {0}
  /\ PoolSize \in Nat /\ SlotSize \in Nat \ {0}
  /\ NumKeySize \in Nat \ {0} /\ EventSize \in Nat \ {0}
ASSUME CounterAssumption ==
  /\ ByHand \subseteq Clients
  /\ MidLoss \in BOOLEAN /\ MaxValue \in Nat /\ MaxSent \in Nat

VARIABLES
  slots,    \* _clients[] of the server: status, whether TCP is up, and told,
            \* whether "Subscription confirmed" was sent (a history)
  inbox,    \* inbox[n]: what the consumer on slot n sent, not read yet
  outbox,   \* outbox[n]: what was sent to it, not read yet
  doc,      \* doc["<n>"]: how many of its objects have "change", or Absent
  junk,     \* members of doc whose key could not be copied
  used,     \* bytes of the pool of doc that are taken
  value,    \* property1_value
  round,    \* the loop of notifications of handleReq4
  cl        \* the consumers: _client.status, TCP, slot, subscribed

server == <<slots, inbox, outbox, doc, junk, used, value, round>>
vars   == <<slots, inbox, outbox, doc, junk, used, value, round, cl>>

Absent == -1
Free   == [status |-> "free", up |-> FALSE, told |-> FALSE]
Slot   == [status : {"free", "header", "open"}, up : BOOLEAN, told : BOOLEAN]
Client == [status : {"down", "header", "open"}, at : Nums \cup {NoNum},
           subscribed : BOOLEAN]
Round  == [i : Nat \cup {NoNum}, sent : SUBSET Nums]
Idle   == [i |-> NoNum, sent |-> {}]
Busy   == round.i # NoNum

Requests == {"upgrade", "Connected", "Subscribe change"}
Answers  == {"switch", "Connection confirmed", "Subscription confirmed"}
Messages == [kind : Answers \cup {"change"}, value : Nat]
Answer(kind) == [kind |-> kind, value |-> 0]

TypeOK ==
  /\ slots \in [Nums -> Slot]
  /\ inbox \in [Nums -> Seq(Requests)] /\ outbox \in [Nums -> Seq(Messages)]
  /\ doc \in [Nums -> Nat \cup {Absent}]
  /\ junk \in Nat /\ used \in 0 .. PoolSize /\ value \in 0 .. MaxValue
  /\ round \in Round
  /\ cl \in [Clients -> Client]

Up(c)   == cl[c].at # NoNum
Peer(n) == {c \in Clients : cl[c].at = n}

-------------------------------------------------------------------------------
(* The document.  J is [doc, junk, used].  A member takes a slot and then  *)
(* the copy of its key; if only the slot fits, a member without key stays. *)
(* remove() unlinks and frees nothing.                                     *)
Json == [doc |-> doc, junk |-> junk, used |-> used]

Fits(used0, size) == used0 + size <= PoolSize

(* Mutant of AddArray: a failed copy of the key is not noticed.            *)
AddArrayUnchecked(J, n) ==
  IF Fits(J.used, SlotSize)
  THEN [J EXCEPT !.doc[n] = 0, !.used = @ + SlotSize + NumKeySize]
  ELSE J

(* createNestedArray(nums).                                                *)
AddArray(J, n) ==
  IF Fits(J.used, SlotSize + NumKeySize)
  THEN [J EXCEPT !.doc[n] = 0, !.used = @ + SlotSize + NumKeySize]
  ELSE IF Fits(J.used, SlotSize)
       THEN [J EXCEPT !.junk = @ + 1, !.used = @ + SlotSize]
       ELSE J

(* createNestedObject(), then obj["change"] = true.                        *)
AddObject(J, n) ==
  IF Fits(J.used, SlotSize + SlotSize + EventSize)
  THEN [J EXCEPT !.doc[n] = @ + 1, !.used = @ + SlotSize + SlotSize + EventSize]
  ELSE IF Fits(J.used, SlotSize + SlotSize)
       THEN [J EXCEPT !.used = @ + SlotSize + SlotSize]
       ELSE IF Fits(J.used, SlotSize) THEN [J EXCEPT !.used = @ + SlotSize] ELSE J

(* Mutant of Subscribe: the objects already there are not looked at.       *)
SubscribeAgain(J, n) ==
  LET A == IF J.doc[n] = Absent THEN AddArray(J, n) ELSE J
  IN  IF A.doc[n] # Absent THEN AddObject(A, n) ELSE A

(* Mutant of Subscribe: it is recorded only if the slot has no array yet.  *)
SubscribeIfNew(J, n) ==
  LET A == AddArray(J, n)
  IN  IF J.doc[n] = Absent /\ A.doc[n] = 0 THEN AddObject(A, n) ELSE J

(* The subscription: an array if there is none, and an object unless one   *)
(* of the objects has the event already.                                   *)
Subscribe(J, n) ==
  LET A == IF J.doc[n] = Absent THEN AddArray(J, n) ELSE J
  IN  IF A.doc[n] = 0 THEN AddObject(A, n) ELSE A

Keys     == {n \in Nums : doc[n] # Absent}
DocSize  == Cardinality(Keys) + junk

-------------------------------------------------------------------------------
(* The state a handler of the server works on.                             *)
Now == [slots |-> slots, in |-> inbox, out |-> outbox, json |-> Json]

Become(S) ==
  /\ slots' = S.slots /\ inbox' = S.in /\ outbox' = S.out
  /\ doc' = S.json.doc /\ junk' = S.json.junk /\ used' = S.json.used

(* Mutant of Disconnect: the subscriptions stay.                           *)
DisconnectOnly(S, n) ==
  [S EXCEPT !.slots[n] = Free, !.in[n] = << >>, !.out[n] = << >>]

(* clientDisconnect with the DISCONNECTED branch of webSocketEvent.        *)
Disconnect(S, n) ==
  [S EXCEPT !.slots[n] = Free, !.in[n] = << >>, !.out[n] = << >>,
            !.json.doc[n] = Absent]

Losses == IF MidLoss THEN {"never", "inside"} ELSE {"never"}

Put(S, n, msg) == [S EXCEPT !.out[n] = Append(@, msg)]
Open(S, n)     == [S EXCEPT !.slots[n].status = "open"]
Tell(S, n)     == [S EXCEPT !.slots[n].told = TRUE]
Keep(S, J)     == [S EXCEPT !.json = J]

(* remoteIP and the first sendTXT may find the connection lost; what was   *)
(* to be sent is then not sent.                                            *)
Send(S, n, loss, msg) ==
  IF loss = "inside" THEN Disconnect(S, n) ELSE Put(S, n, msg)

(* What the consumer on slot n sees of it.                                 *)
CutOff(n, loss) ==
  cl' = [c \in Clients |-> IF loss = "inside" /\ cl[c].at = n
                           THEN [cl[c] EXCEPT !.at = NoNum] ELSE cl[c]]

-------------------------------------------------------------------------------
(* The server's callbacks.                                                 *)
Reading(n) == ~Busy /\ slots[n].up /\ inbox[n] # << >>

Read(n) == [Now EXCEPT !.in[n] = Tail(@)]

(* handleHeader, then CONNECTED: "Connection confirmed" first, then an     *)
(* array for the slot if there is none.                                    *)
Upgrade(n) ==
  /\ Reading(n) /\ slots[n].status = "header" /\ Head(inbox[n]) = "upgrade"
  /\ \E loss \in Losses :
       LET R == Put(Open(Read(n), n), n, Answer("switch"))
           T == Send(R, n, loss, Answer("Connection confirmed"))
       IN  /\ Become(IF T.json.doc[n] = Absent THEN Keep(T, AddArray(T.json, n)) ELSE T)
           /\ CutOff(n, loss)
  /\ UNCHANGED <<value, round>>

(* TEXT "Subscribe change".                                                *)
SubscribeText(n) ==
  /\ Reading(n) /\ slots[n].status = "open" /\ Head(inbox[n]) = "Subscribe change"
  /\ \E loss \in Losses :
       LET T == Send(Read(n), n, loss, Answer("Subscription confirmed"))
           U == IF loss = "never" THEN Tell(T, n) ELSE T
       IN  /\ Become(Keep(U, Subscribe(U.json, n)))
           /\ CutOff(n, loss)
  /\ UNCHANGED <<value, round>>

(* TEXT "Connected", which no branch answers; the address is asked for.    *)
OtherText(n) ==
  /\ Reading(n) /\ slots[n].status = "open" /\ Head(inbox[n]) = "Connected"
  /\ \E loss \in Losses :
       /\ Become(IF loss = "inside" THEN Disconnect(Now, n) ELSE Read(n))
       /\ CutOff(n, loss)
  /\ UNCHANGED <<value, round>>

(* The visit of a slot whose connection is lost.                           *)
Reap(n) ==
  /\ ~Busy /\ slots[n].status # "free" /\ ~slots[n].up
  /\ Become(Disconnect(Now, n))
  /\ UNCHANGED <<value, round, cl>>

(* POST of increment: the answer goes back, the loop begins.               *)
HandleReq4 ==
  /\ ~Busy /\ value < MaxValue
  /\ value' = value + 1
  /\ round' = [i |-> 0, sent |-> {}]

(* Mutant of NotifySlot: the entry is not looked at.                       *)
NotifyAll ==
  /\ Busy /\ round.i < DocSize
  /\ round' = [i |-> round.i + 1, sent |-> round.sent \cup {n \in Nums : n = round.i}]
  /\ outbox' = [n \in Nums |-> IF n = round.i /\ slots[n].up /\ slots[n].status = "open"
                              THEN Append(outbox[n], [kind |-> "change", value |-> value])
                              ELSE outbox[n]]
  /\ UNCHANGED <<slots, inbox, doc, junk, used, value, cl>>

(* Mutant of NotifySlot: the loop counts from 1.                           *)
NotifyFromOne ==
  /\ Busy /\ round.i < DocSize
  /\ LET n == round.i + 1
     IN  /\ round' = [i |-> n, sent |-> round.sent \cup {m \in Nums : m = n /\ doc[m] > 0}]
         /\ outbox' = [m \in Nums |-> IF m = n /\ doc[m] > 0 /\ slots[m].up
                                     THEN Append(outbox[m], [kind |-> "change", value |-> value])
                                     ELSE outbox[m]]
  /\ UNCHANGED <<slots, inbox, doc, junk, used, value, cl>>

(* One iteration: the index of the loop is both the place in doc and the   *)
(* number of the slot.  A slot found lost is disconnected by the send.     *)
NotifySlot ==
  /\ Busy /\ round.i < DocSize
  /\ LET n     == round.i
         due   == n \in Nums /\ doc[n] > 0
         lost  == due /\ slots[n].status # "free" /\ ~slots[n].up
         sends == due /\ slots[n].status = "open" /\ slots[n].up
         msg   == [kind |-> "change", value |-> value]
     IN  /\ Become(IF lost THEN Disconnect(Now, n)
                   ELSE IF sends THEN Put(Now, n, msg) ELSE Now)
         /\ round' = [i |-> n + 1, sent |-> IF sends THEN round.sent \cup {n} ELSE round.sent]
  /\ UNCHANGED <<value, cl>>

EndRound ==
  /\ Busy /\ round.i >= DocSize
  /\ round' = Idle
  /\ UNCHANGED <<slots, inbox, outbox, doc, junk, used, value, cl>>

-------------------------------------------------------------------------------
(* The consumer.                                                           *)
Usable == {n \in Nums : ~slots[n].up}

(* WebSocketsClient::loop without connection: connect, and ask for the     *)
(* upgrade; newClient takes the first slot that is free or found lost.     *)
Connect(c) ==
  /\ ~Busy /\ cl[c].status = "down"
  /\ \E n \in Usable :
       LET S == IF slots[n].status = "free" THEN Now ELSE Disconnect(Now, n)
       IN  /\ \A m \in Usable : n <= m
           /\ Become([S EXCEPT !.slots[n] = [status |-> "header", up |-> TRUE, told |-> FALSE],
                               !.in[n] = <<"upgrade">>, !.out[n] = << >>])
           /\ cl' = [cl EXCEPT ![c].status = "header", ![c].at = n]
  /\ UNCHANGED <<value, round>>

(* Mutant of Receive: the consumer subscribes once only.                   *)
ReceiveOnce(c) ==
  /\ Up(c) /\ outbox[cl[c].at] # << >>
  /\ LET n == cl[c].at
         k == Head(outbox[n]).kind
     IN  /\ outbox' = [outbox EXCEPT ![n] = Tail(@)]
         /\ inbox' =
              [inbox EXCEPT ![n] =
                 IF k = "switch" THEN Append(@, "Connected")
                 ELSE IF k = "Connection confirmed" /\ ~cl[c].subscribed
                      THEN Append(@, "Subscribe change") ELSE @]
         /\ cl' = [cl EXCEPT ![c].status = "open",
                             ![c].subscribed = @ \/ k = "Connection confirmed"]
  /\ UNCHANGED <<slots, doc, junk, used, value, round>>

(* WebSocketsClient reads one message and calls webSocketEvent: CONNECTED  *)
(* says "Connected", the text "Connection confirmed" asks for the event.   *)
Receive(c) ==
  /\ Up(c) /\ outbox[cl[c].at] # << >>
  /\ LET n == cl[c].at
         k == Head(outbox[n]).kind
     IN  /\ outbox' = [outbox EXCEPT ![n] = Tail(@)]
         /\ inbox' =
              [inbox EXCEPT ![n] = IF k = "switch" THEN Append(@, "Connected")
                                   ELSE IF k = "Connection confirmed"
                                        THEN Append(@, "Subscribe change") ELSE @]
         /\ cl' = [cl EXCEPT ![c].status = IF k = "switch" THEN "open" ELSE @,
                             ![c].subscribed = @ \/ k = "Connection confirmed"]
  /\ UNCHANGED <<slots, doc, junk, used, value, round>>

(* The loss is noticed: DISCONNECTED, which leaves subscribed as it is.    *)
Notice(c) ==
  /\ cl[c].status # "down" /\ ~Up(c)
  /\ cl' = [cl EXCEPT ![c].status = "down"]
  /\ UNCHANGED server

(* loop() of a consumer that asked for the event once posts the action.    *)
Post(c) ==
  /\ cl[c].subscribed
  /\ HandleReq4
  /\ UNCHANGED <<slots, inbox, outbox, doc, junk, used, cl>>

(* A user asks for the event again, with every answer so far read.         *)
AskAgain(c) ==
  /\ c \in ByHand /\ Up(c) /\ cl[c].status = "open"
  /\ outbox[cl[c].at] = << >> /\ Len(inbox[cl[c].at]) < MaxSent
  /\ inbox' = [inbox EXCEPT ![cl[c].at] = Append(@, "Subscribe change")]
  /\ UNCHANGED <<slots, outbox, doc, junk, used, value, round, cl>>

-------------------------------------------------------------------------------
(* The network drops a connection.  The server learns of it at once, with  *)
(* what was under way lost, or later, and still reads what was sent.       *)
Lose(c) ==
  /\ Up(c)
  /\ cl' = [cl EXCEPT ![c].at = NoNum]
  /\ LET n == cl[c].at
     IN  /\ outbox' = [outbox EXCEPT ![n] = << >>]
         /\ \/ UNCHANGED <<slots, inbox>>
            \/ /\ slots' = [slots EXCEPT ![n].up = FALSE]
               /\ inbox' = [inbox EXCEPT ![n] = << >>]
  /\ UNCHANGED <<doc, junk, used, value, round>>

Lapse(n) ==
  /\ slots[n].up /\ Peer(n) = {}
  /\ slots' = [slots EXCEPT ![n].up = FALSE]
  /\ inbox' = [inbox EXCEPT ![n] = << >>] /\ outbox' = [outbox EXCEPT ![n] = << >>]
  /\ UNCHANGED <<doc, junk, used, value, round, cl>>

-------------------------------------------------------------------------------
Init ==
  /\ slots = [n \in Nums |-> Free]
  /\ inbox = [n \in Nums |-> << >>] /\ outbox = [n \in Nums |-> << >>]
  /\ doc = [n \in Nums |-> Absent] /\ junk = 0 /\ used = 0
  /\ value = 0 /\ round = Idle
  /\ cl = [c \in Clients |-> [status |-> "down", at |-> NoNum, subscribed |-> FALSE]]

Visit(n)   == Upgrade(n) \/ SubscribeText(n) \/ OtherText(n) \/ Reap(n)
Notify     == NotifySlot \/ EndRound
Consume(c) == Connect(c) \/ Receive(c) \/ Notice(c)

Next ==
  \/ \E n \in Nums : Visit(n) \/ Lapse(n)
  \/ Notify
  \/ \E c \in Clients : Consume(c) \/ Post(c) \/ AskAgain(c) \/ Lose(c)

Spec == Init /\ [][Next]_vars

(* Both programs call loop() again and again.                              *)
FairSpec == /\ Spec
            /\ \A n \in Nums : WF_vars(Visit(n))
            /\ WF_vars(Notify)
            /\ \A c \in Clients : WF_vars(Consume(c))

-------------------------------------------------------------------------------
(* Properties.                                                             *)

(* "rimozione di tutte le sottoscrizioni del client" (line 343): what doc  *)
(* keeps under a slot belongs to the channel that is open on it, however   *)
(* often the slot changed hands.                                           *)
EntriesOfOpenSlots ==
  \A n \in Nums : doc[n] # Absent => slots[n].status = "open"

(* A consumer that asks for the event again, or whose slot inherited an    *)
(* entry, is never recorded twice (lines 399-409).                         *)
RecordedOnce == \A n \in Nums : doc[n] \in {Absent, 0, 1}

(* "notifica client sottoscritti all'evento change" (line 297): it is sent *)
(* only on a channel that was told "Subscription confirmed".               *)
NotifiedWasConfirmed ==
  [][\A n \in round'.sent \ round.sent : slots[n].status = "open" /\ slots[n].told]_vars

Live(n) == slots[n].status = "open" /\ slots[n].up /\ doc[n] > 0

(* The loop of handleReq4 runs over as many slots as doc has members: when *)
(* it ends, a live subscriber it passed over has a slot without entry      *)
(* below its own.                                                          *)
MissedOnlyBehindGap ==
  Busy /\ round.i >= DocSize =>
    \A n \in Nums : Live(n) /\ n \notin round.sent => \E m \in 0 .. n - 1 : doc[m] = Absent

(* What one subscription takes of the document, array included.            *)
Cycle == SlotSize + NumKeySize + SlotSize + SlotSize + EventSize

(* "Subscription confirmed" is sent before the subscription is recorded: a *)
(* consumer that was told so is in doc, unless the pool of doc has run so  *)
(* low that a whole subscription does not fit any more.                    *)
ConfirmedIsRecorded ==
  \A n \in Nums : slots[n].told => doc[n] > 0 \/ ~Fits(used, Cycle)

Recorded(c) == Up(c) /\ doc[cl[c].at] > 0
NoRoom(c)   == ~Up(c) /\ Usable = {}
Calm        == <>[][\A c \in Clients : ~Lose(c)]_vars

(* Once the network is calm every consumer is, and stays, subscribed again,*)
(* although its flag subscribed was never reset: unless the pool of doc is *)
(* exhausted, or dead connections hold every slot.                         *)
SubscriptionsHeal ==
  Calm => <>[](\A c \in Clients : Recorded(c) \/ NoRoom(c) \/ ~Fits(used, Cycle))
===============================================================================
