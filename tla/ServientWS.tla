------------------------------ MODULE ServientWS ------------------------------
(***************************************************************************)
(* The WebSocket side of a generated servient: the slots of the WebSockets *)
(* library, the callback webSocketEvent that keeps the two registries, and *)
(* the round of notifications an action starts when the condition of its   *)
(* event holds.                                                            *)
(*                                                                         *)
(* The firmware is one thread.  loop() takes new TCP connections, then     *)
(* visits the slots in order and hands each at most one message, then      *)
(* serves HTTP; pos is how far it has come.  A handler is one action, save *)
(* that a round of notifications is taken one send at a time, because a    *)
(* send that finds its connection lost calls webSocketEvent(DISCONNECTED)  *)
(* from inside the round.  The network may drop a connection at any time.  *)
(***************************************************************************)
EXTENDS ClientRegistry, FiniteSets

CONSTANTS
  IPs,          \* addresses of the consumers
  ZeroIP,       \* what remoteIP answers for a slot that is not connected
  NumEvents,    \* events_number
  Schemas,      \* the shapes a subscription or cancellation message may have
  NoSchema,     \* an event without such a schema; a message of no known shape
  SubSchema,    \* subscription schema of each event
  CanSchema,    \* cancellation schema of each event
  NumProps,     \* requests of ws_requests before the actions
  NumWsActions, \* ws_actionsNumber
  NumActions,   \* numactions
  NoInput,      \* action<k>_inputsNumber == 0, for each action
  Trigger,      \* the event whose condition follows action k, 0 for none
  MidLoss,      \* may a handler find its own connection lost half-way?
  MaxPerIP,     \* bound: slots one address holds at once
  MaxEntries    \* bound: objects of one address in one registry

Events   == 1 .. NumEvents
Requests == 1 .. NumProps + NumWsActions
Actions  == 1 .. NumActions

ASSUME AddrAssumption == Addr = IPs \cup {ZeroIP} /\ ZeroIP \notin IPs
ASSUME ThingAssumption ==
  /\ NumEvents \in Nat /\ NumProps \in Nat
  /\ NumActions \in Nat /\ NumWsActions \in 0 .. NumActions
  /\ SubSchema \in [Events -> Schemas \cup {NoSchema}]
  /\ CanSchema \in [Events -> Schemas \cup {NoSchema}]
  /\ NoSchema \notin Schemas
  /\ NoInput \in [Actions -> BOOLEAN]
  /\ Trigger \in [Actions -> Events \cup {0}]
ASSUME BoundsAssumption == MidLoss \in BOOLEAN /\ MaxPerIP \in Nat /\ MaxEntries \in Nat

VARIABLES
  slots,   \* _clients[]: status, whether TCP is still up, remote address
  ev,      \* the registry of event channels
  ia,      \* the registry of property and action channels
  view,    \* what the consumer on each slot was last told (a history)
  round,   \* the round of notifications under way, or Idle
  pos      \* what loop() does next

vars == <<slots, ev, ia, view, round, pos>>

HttpTurn   == ClientMax
AcceptTurn == ClientMax + 1

Slot   == [status : {"free", "header", "open"}, up : BOOLEAN, ip : Addr]
Free   == [status |-> "free", up |-> FALSE, ip |-> ZeroIP]

\* The event a channel was opened for (0: none) and whether its consumer
\* was told "Subscription confirmed" last.
View   == [ep : Events \cup {0}, sub : BOOLEAN]
NoView == [ep |-> 0, sub |-> FALSE]

Messages == [schema : Schemas \cup {NoSchema}, exact : BOOLEAN]

\* i is the global loop index (from 1), left the objects of address ip still
\* to be answered for, sent the slots a notification was delivered to, drops
\* the connections found lost, reply the slot whose request ran the action.
Round == [ev : Events, i : Nat \ {0}, ip : Addr, left : Nat, sent : SUBSET Nums,
          drops : Nat, reply : Nums \cup {NoNum}]
Idle  == [ev |-> 0, i |-> 0, ip |-> ZeroIP, left |-> 0, sent |-> {},
          drops |-> 0, reply |-> NoNum]

Busy == round.ev # 0

TypeOK ==
  /\ slots \in [Nums -> Slot]
  /\ ev \in Registry(Events) /\ ia \in Registry(Requests)
  /\ view \in [Nums -> View]
  /\ round \in Round \cup {Idle}
  /\ pos \in 0 .. AcceptTurn

-------------------------------------------------------------------------------
(* The state a handler works on, so that a handler can be written as the   *)
(* composition of the calls it makes.                                      *)
Now == [slots |-> slots, ev |-> ev, ia |-> ia, view |-> view]

Become(S) ==
  /\ slots' = S.slots
  /\ ev' = S.ev
  /\ ia' = S.ia
  /\ view' = S.view

(* Mutant of Disconnect: the callback is not called.                       *)
DisconnectSilently(S, n) ==
  [S EXCEPT !.slots[n] = Free, !.view[n] = NoView]

(* clientDisconnect(n), with the DISCONNECTED branch of webSocketEvent it  *)
(* calls: the second registry is searched only if the first knew nothing.  *)
Disconnect(S, n) ==
  [slots |-> [S.slots EXCEPT ![n] = Free],
   ev    |-> Forget(S.ev, n),
   ia    |-> IF IsOwner(S.ev, n) THEN S.ia ELSE Forget(S.ia, n),
   view  |-> [S.view EXCEPT ![n] = NoView]]

(* The value the global index i has when that branch returns, from 1.      *)
IndexAfterDisconnect(S, n) ==
  IF NumEvents > 0 /\ IsOwner(S.ev, n) THEN StopsAt(S.ev, n) ELSE StopsAt(S.ia, n)

(* A handler may find its own connection lost when it asks for the remote  *)
(* address, or at its first send.                                          *)
Losses == IF MidLoss THEN {"never", "address", "send"} ELSE {"never"}

DropAt(S, n, loss, where) == IF loss = where THEN Disconnect(S, n) ELSE S

AddressOf(n, loss) == IF loss = "address" THEN ZeroIP ELSE slots[n].ip

(* Mutant of Advance: loop() does not start again.                         *)
AdvanceOver == pos' = pos + 1

Advance == pos' = IF pos = AcceptTurn THEN 0 ELSE pos + 1

-------------------------------------------------------------------------------
(* A round starts when an action has run and the condition of its event    *)
(* held; an action without event, refused input or a false condition only  *)
(* answers the request.                                                    *)
MayNotify(action, replyTo) ==
  \/ /\ Trigger[action] # 0
     /\ round' = [Idle EXCEPT !.ev = Trigger[action], !.i = 1, !.reply = replyTo]
  \/ UNCHANGED round

(* CONNECTED, for the endpoint of event e.                                 *)
ConnectEvent(S, n, a, e, loss) ==
  LET auto   == SubSchema[e] = NoSchema
      told   == IF loss = "never" THEN [ep |-> e, sub |-> auto /\ ~HasKey(S.ev, a, e)]
                                  ELSE S.view[n]
      before == [S EXCEPT !.ev = Record(@, a, n, [key |-> e, flag |-> auto]),
                          !.view[n] = told]
      gone   == Disconnect(before, n)
      k      == IndexAfterDisconnect(before, n)
  IN  \/ /\ HasKey(S.ev, a, e)
         /\ Become(DropAt([S EXCEPT !.view[n] = told], n, loss, "send"))
      \/ /\ ~HasKey(S.ev, a, e) /\ loss # "send"
         /\ Become(before)
      \/ /\ ~HasKey(S.ev, a, e) /\ loss = "send"
         /\ \E entry \in IF k \in Events
                         THEN {[key |-> k, flag |-> SubSchema[k] = NoSchema]}
                         ELSE Entry(Events) :
              Become([gone EXCEPT !.ev = Overwrite(@, a, entry)])

(* CONNECTED, for the endpoint of a property (or of all of them): the      *)
(* value is the answer.                                                    *)
ConnectProperty(S, n, a, q, loss) ==
  Become(DropAt(IF HasKey(S.ia, a, q) THEN S
                ELSE [S EXCEPT !.ia = Record(@, a, n, [key |-> q, flag |-> TRUE])],
                n, loss, "send"))

(* CONNECTED, for the endpoint of the j-th action of ws_actions: one that  *)
(* takes no input is run at once.  The generated switch runs action j.     *)
ConnectAction(S, n, a, j, loss) ==
  LET q      == NumProps + j
      runs   == NoInput[j]
      before == [S EXCEPT !.ia = Record(@, a, n, [key |-> q, flag |-> runs])]
      gone   == Disconnect(before, n)
      k      == IndexAfterDisconnect(before, n)
  IN  /\ \/ /\ HasKey(S.ia, a, q)
            /\ Become(DropAt(S, n, loss, "send"))
         \/ /\ ~HasKey(S.ia, a, q) /\ loss # "send"
            /\ Become(before)
         \/ /\ ~HasKey(S.ia, a, q) /\ loss = "send"
            /\ \E key \in IF k \in Requests THEN {k} ELSE Requests \cup {Junk} :
                 Become([gone EXCEPT !.ia = Overwrite(@, a, [key |-> key, flag |-> runs])])
      /\ IF runs /\ ~HasKey(S.ia, a, q) THEN MayNotify(j, n) ELSE UNCHANGED round

(* TEXT: the first object of the address one of whose schemas the message  *)
(* has the names of takes it; the flag turns if the values match too.      *)
Takes(entry, m) ==
  /\ entry.key \in Events
  /\ m.schema # NoSchema
  /\ m.schema = IF entry.flag THEN CanSchema[entry.key] ELSE SubSchema[entry.key]

Takers(S, a, m) == {i \in DOMAIN S.ev.doc[a] : Takes(S.ev.doc[a][i], m)}

(* Otherwise the first action channel of the address not used yet takes it.*)
Pending(S, a) ==
  {i \in DOMAIN S.ia.doc[a] : S.ia.doc[a][i].key > NumProps /\ ~S.ia.doc[a][i].flag}

-------------------------------------------------------------------------------
(* The callbacks, each at its place in loop().                             *)
Turn(p) == ~Busy /\ pos = p

SlotsOf(a) == {n \in Nums : slots[n].status # "free" /\ slots[n].ip = a}

(* newClient: the first slot that is free, or whose connection is found    *)
(* lost and disconnected on the spot.                                      *)
Usable == {n \in Nums : ~slots[n].up}

Accept(a) ==
  /\ Turn(AcceptTurn)
  /\ Cardinality(SlotsOf(a)) < MaxPerIP
  /\ Usable # {}
  /\ LET n == Min(Usable)
         S == IF slots[n].status = "free" THEN Now ELSE Disconnect(Now, n)
     IN  Become([S EXCEPT !.slots[n] = [status |-> "header", up |-> TRUE, ip |-> a]])
  /\ UNCHANGED <<round, pos>>

(* Mutant of Skip: a slot without data is not asked for its connection.    *)
SkipLost ==
  /\ ~Busy
  /\ Advance
  /\ UNCHANGED <<slots, ev, ia, view, round>>

(* No (more) new connection, no data on the slot, or no HTTP request.      *)
Skip ==
  /\ ~Busy
  /\ pos \in Nums => slots[pos].status = "free" \/ slots[pos].up
  /\ Advance
  /\ UNCHANGED <<slots, ev, ia, view, round>>

(* clientIsConnected finds the connection lost.                            *)
Reap(n) ==
  /\ Turn(n)
  /\ slots[n].status # "free" /\ ~slots[n].up
  /\ Become(Disconnect(Now, n))
  /\ Advance
  /\ UNCHANGED round

(* A close frame, or a header that asks for no WebSocket.                  *)
Close(n) ==
  /\ Turn(n)
  /\ slots[n].up
  /\ Become(Disconnect(Now, n))
  /\ Advance
  /\ UNCHANGED round

(* handleHeader has read the last line: the callback is told CONNECTED.    *)
Opened(n, loss) ==
  DropAt([Now EXCEPT !.slots[n].status = "open"], n, loss, "address")

Upgrading(n) ==
  /\ Turn(n)
  /\ slots[n].status = "header" /\ slots[n].up
  /\ \A a \in Addr : Len(ev.doc[a]) < MaxEntries /\ Len(ia.doc[a]) < MaxEntries
  /\ Advance

UpgradeEvent(n) ==
  /\ Upgrading(n)
  /\ \E e \in Events, loss \in Losses :
       ConnectEvent(Opened(n, loss), n, AddressOf(n, loss), e, loss)
  /\ UNCHANGED round

UpgradeProperty(n) ==
  /\ Upgrading(n)
  /\ \E q \in 1 .. NumProps, loss \in Losses :
       ConnectProperty(Opened(n, loss), n, AddressOf(n, loss), q, loss)
  /\ UNCHANGED round

UpgradeAction(n) ==
  /\ Upgrading(n)
  /\ \E j \in 1 .. NumWsActions, loss \in Losses :
       ConnectAction(Opened(n, loss), n, AddressOf(n, loss), j, loss)

(* An endpoint of neither list: no branch of CONNECTED answers it.         *)
UpgradeUnknown(n) ==
  /\ Upgrading(n)
  /\ \E loss \in Losses : Become(Opened(n, loss))
  /\ UNCHANGED round

Receiving(n) ==
  /\ Turn(n)
  /\ slots[n].status = "open" /\ slots[n].up
  /\ Advance

(* A text an event channel of the address takes.                           *)
EventText(n, m) ==
  /\ Receiving(n)
  /\ \E loss \in Losses :
       LET S == DropAt(Now, n, loss, "address")
           a == AddressOf(n, loss)
           i == Min(Takers(S, a, m))
           f == ~S.ev.doc[a][i].flag
           T == [S EXCEPT !.ev = SetFlag(@, a, i, f),
                          !.view[n].sub = IF loss = "address" THEN @ ELSE f]
       IN  /\ Takers(S, a, m) # {}
           /\ Become(DropAt(IF m.exact THEN T ELSE S, n, loss, "send"))
  /\ UNCHANGED round

(* A text an unused action channel of the address takes, as the body of    *)
(* its one request.                                                        *)
ActionText(n, m) ==
  /\ Receiving(n)
  /\ \E loss \in Losses :
       LET S == DropAt(Now, n, loss, "address")
           a == AddressOf(n, loss)
           i == Min(Pending(S, a))
       IN  /\ Takers(S, a, m) = {} /\ Pending(S, a) # {}
           /\ Become(DropAt([S EXCEPT !.ia = SetFlag(@, a, i, TRUE)], n, loss, "send"))
           /\ IF loss = "send" THEN UNCHANGED round
                               ELSE MayNotify(S.ia.doc[a][i].key - NumProps, n)

(* "Invalid message", or a text that is no JSON.                           *)
InvalidText(n) ==
  /\ Receiving(n)
  /\ \E loss \in Losses \ {"never"} : Become(DropAt(Now, n, loss, loss))
  /\ UNCHANGED round

(* POST of an action: handleReq runs the same request function.            *)
HttpAction(action) ==
  /\ Turn(HttpTurn)
  /\ MayNotify(action, NoNum)
  /\ Advance
  /\ UNCHANGED <<slots, ev, ia, view>>

-------------------------------------------------------------------------------
(* Mutants of ScanAddress: an address without subscription is not counted, *)
(* or counts twice.                                                        *)
ScanAddressStuck ==
  /\ Busy /\ round.left = 0 /\ round.i <= Len(ev.arr)
  /\ LET a == ev.arr[round.i].ip
     IN  round' = [round EXCEPT !.ip = a, !.left = Cardinality(Flagged(ev, a, round.ev))]
  /\ UNCHANGED <<slots, ev, ia, view, pos>>

ScanAddressByTwo ==
  /\ Busy /\ round.left = 0 /\ round.i <= Len(ev.arr)
  /\ LET a == ev.arr[round.i].ip
         k == Cardinality(Flagged(ev, a, round.ev))
     IN  round' = IF k = 0 THEN [round EXCEPT !.i = @ + 2]
                           ELSE [round EXCEPT !.ip = a, !.left = k]
  /\ UNCHANGED <<slots, ev, ia, view, pos>>

(* One round: for each address of ipe_arr in turn, one send per object of  *)
(* it that carries the event with a true flag.                             *)
ScanAddress ==
  /\ Busy /\ round.left = 0 /\ round.i <= Len(ev.arr)
  /\ LET a == ev.arr[round.i].ip
         k == Cardinality(Flagged(ev, a, round.ev))
     IN  round' = IF k = 0 THEN [round EXCEPT !.i = @ + 1]
                           ELSE [round EXCEPT !.ip = a, !.left = k]
  /\ UNCHANGED <<slots, ev, ia, view, pos>>

(* sendTXT(ipe_doc[ip], msg).  A missing key reads as socket 0.  A lost    *)
(* connection is disconnected inside the call, which leaves i where that   *)
(* branch left it.                                                         *)
Notify ==
  /\ Busy /\ round.left > 0
  /\ LET n    == IF ev.num[round.ip] = NoNum THEN 0 ELSE ev.num[round.ip]
         lost == slots[n].status # "free" /\ ~slots[n].up
         i    == IF lost THEN IndexAfterDisconnect(Now, n) ELSE round.i
     IN  /\ Become(IF lost THEN Disconnect(Now, n) ELSE Now)
         /\ round' =
              [round EXCEPT !.left = @ - 1,
                            !.i = IF round.left = 1 THEN i + 1 ELSE i,
                            !.sent = IF slots[n].up /\ slots[n].status = "open"
                                     THEN @ \cup {n} ELSE @,
                            !.drops = IF lost THEN @ + 1 ELSE @]
  /\ UNCHANGED pos

(* The loop is over; the request that ran the action is answered.          *)
EndRound ==
  /\ Busy /\ round.left = 0 /\ round.i > Len(ev.arr)
  /\ LET n    == round.reply
         lost == n # NoNum /\ slots[n].status # "free" /\ ~slots[n].up
     IN  Become(IF lost THEN Disconnect(Now, n) ELSE Now)
  /\ round' = Idle
  /\ UNCHANGED pos

(* The network drops a connection; the server has not noticed yet.         *)
Lose(n) ==
  /\ slots[n].up
  /\ slots' = [slots EXCEPT ![n].up = FALSE]
  /\ UNCHANGED <<ev, ia, view, round, pos>>

-------------------------------------------------------------------------------
Init ==
  /\ slots = [n \in Nums |-> Free]
  /\ ev = EmptyRegistry /\ ia = EmptyRegistry
  /\ view = [n \in Nums |-> NoView]
  /\ round = Idle
  /\ pos = AcceptTurn

Upgrade(n) == UpgradeEvent(n) \/ UpgradeProperty(n) \/ UpgradeAction(n) \/ UpgradeUnknown(n)

Text(n) == (\E m \in Messages : EventText(n, m) \/ ActionText(n, m)) \/ InvalidText(n)

Visit(n) == Reap(n) \/ Close(n) \/ Upgrade(n) \/ Text(n)

Run == ScanAddress \/ Notify \/ EndRound

Next ==
  \/ \E a \in IPs : Accept(a)
  \/ Skip
  \/ \E n \in Nums : Visit(n) \/ Lose(n)
  \/ \E action \in Actions : HttpAction(action)
  \/ Run

Spec == Init /\ [][Next]_vars

(* loop() is called again and again: it always gets past an idle slot, an  *)
(* idle listener or a lost connection, and finishes a loop it is in.       *)
Progress == Skip \/ (\E n \in Nums : Reap(n)) \/ Run

FairSpec == Spec /\ WF_vars(Progress)

-------------------------------------------------------------------------------
(* Properties.                                                             *)

(* In each registry the three documents name the same addresses and agree  *)
(* on the socket of each (lines 1811-1848, 1890-1906, 1932-1948).          *)
RegistriesAgree == KeysAgree(ev) /\ KeysAgree(ia)

(* The socket recorded for an address is an open channel of that address,  *)
(* no socket is recorded twice, and none in both registries, so the        *)
(* disconnection branch may stop at its first hit and skip the second      *)
(* registry after a hit in the first ("deleted", lines 1804-1837).         *)
OwnersOpen ==
  /\ \A r \in {ev, ia} :
       /\ OwnersDistinct(r)
       /\ \A i \in DOMAIN r.arr : /\ slots[r.arr[i].num].status = "open"
                                 /\ slots[r.arr[i].num].ip = r.arr[i].ip
  /\ \A n \in Nums : ~(IsOwner(ev, n) /\ IsOwner(ia, n))

(* No address is recorded twice for an event or for a request, however its *)
(* sockets come, go and reconnect.                                         *)
NoDoubleEntries == OneEntryPerKey(ev) /\ OneEntryPerKey(ia)

(* A notification is never routed by a missing ipe_doc key, which the code *)
(* would read as socket 0 (lines 1272-1273).                               *)
RouteDefined == round.left > 0 => ev.num[round.ip] # NoNum

(* "remove all client subscriptions" (line 1810): every event object       *)
(* belongs to a channel that is still open at that event's endpoint.       *)
NoStaleEntries ==
  \A a \in Addr : \A i \in DOMAIN ev.doc[a] :
    \E n \in Nums : /\ slots[n].status = "open" /\ slots[n].ip = a
                   /\ view[n].ep = ev.doc[a][i].key

Subscribed(n) == slots[n].status = "open" /\ view[n].sub

(* A consumer that was told "Subscription confirmed" on a channel, and not *)
(* "Cancellation confirmed" since, is the one notifications of the event   *)
(* of that channel go to.                                                  *)
SubscriberIsRouted ==
  \A n \in Nums : Subscribed(n) =>
    /\ Flagged(ev, slots[n].ip, view[n].ep) # {}
    /\ ev.num[slots[n].ip] = n

(* A notification reaches only a channel whose consumer subscribed to that *)
(* event and did not cancel.                                               *)
NotifiedIsSubscriber ==
  [][\A n \in round'.sent \ round.sent :
       Subscribed(n) /\ view[n].ep = round.ev]_vars

Missed ==
  {k \in 1 .. round.i - 1 : /\ k <= Len(ev.arr)
                            /\ Flagged(ev, ev.arr[k].ip, round.ev) # {}
                            /\ slots[ev.arr[k].num].up
                            /\ ev.arr[k].num \notin round.sent}

(* The loop over ipe_arr passes over at most one live subscriber for each  *)
(* connection it finds lost on the way, whatever the disconnection branch  *)
(* does to the array and to the index under it.                            *)
MissedBoundedByDrops == Cardinality(Missed) <= round.drops

(* "whenever the event occurs ... the server will send it a notification": *)
(* when the loop ends it has passed over no live subscriber.               *)
EverySubscriberNotified ==
  Busy /\ round.left = 0 /\ round.i > Len(ev.arr) => Missed = {}

(* What is kept under an address is erased only when a channel of that     *)
(* very address ends.                                                      *)
OnlyOwnChannelsErase ==
  [][\A a \in IPs :
       ev.doc[a] # << >> /\ ev'.doc[a] = << >> =>
         \E n \in Nums : /\ slots[n].status = "open" /\ slots[n].ip = a
                        /\ slots'[n].status # "open"]_vars

Spent(a, k) ==
  LET Of == {i \in DOMAIN ia.doc[a] : ia.doc[a][i].key = k}
  IN  Of # {} /\ \A i \in Of : ia.doc[a][i].flag

(* A channel of an action serves one request, valid or not (lines 2262 to  *)
(* 2271): connecting again, from whatever channel of the address, gives no *)
(* second one, only the end of a channel of the address does.              *)
ServedOnce ==
  [][\A a \in IPs, k \in NumProps + 1 .. NumProps + NumWsActions :
       Spent(a, k) /\ ~Spent(a, k)' =>
         \E n \in Nums : /\ slots[n].status = "open" /\ slots[n].ip = a
                        /\ slots'[n].status # "open"]_vars

(* A registration does not outlive its connection for ever: the server     *)
(* notices the loss and erases it, even with no further traffic.           *)
LostOwnerIsForgotten ==
  \A n \in Nums :
    IsOwner(ev, n) /\ ~slots[n].up ~> ~IsOwner(ev, n)

(* The notification loop ends although a disconnection inside it may set   *)
(* its index back.                                                         *)
RoundEnds == Busy ~> ~Busy
===============================================================================
