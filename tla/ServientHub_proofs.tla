-------------------------- MODULE ServientHub_proofs --------------------------
(***************************************************************************)
(* The servient implements EventHub, for every Thing, every number of      *)
(* slots and of addresses, when an address holds one channel at a time and *)
(* no handler loses its own connection half-way.  On the way: a consumer   *)
(* that was told it is subscribed is the one notifications go to, and the  *)
(* notification loop passes over no more live subscribers than it found    *)
(* connections lost.                                                       *)
(***************************************************************************)
EXTENDS ServientHub, ServientWS_safety

(* What a step does to a slot, the event registry and what its consumer was *)
(* told: the channel of slot n ends; a consumer of address a enters; the    *)
(* header is read; the consumer joins event e; its subscription turns.      *)
Ending(n) ==
  /\ slots' = [slots EXCEPT ![n] = Free]
  /\ ev' = Forget(ev, n)
  /\ view' = [view EXCEPT ![n] = NoView]

Entering(n, a) ==
  /\ ~slots[n].up
  /\ slots' = [slots EXCEPT ![n] = [status |-> "header", up |-> TRUE, ip |-> a]]
  /\ \/ slots[n].status = "free" /\ ev' = ev /\ view' = view
     \/ ev' = Forget(ev, n) /\ view' = [view EXCEPT ![n] = NoView]

Opening(n) ==
  /\ slots[n].status = "header" /\ slots[n].up
  /\ slots' = [slots EXCEPT ![n] = [slots[n] EXCEPT !.status = "open"]]

Joining(n, e) ==
  /\ ev' = Record(ev, slots[n].ip, n, [key |-> e, flag |-> SubSchema[e] = NoSchema])
  /\ view' = [view EXCEPT ![n] = [ep |-> e, sub |-> SubSchema[e] = NoSchema]]

Turning(n, i, f) ==
  LET a == slots[n].ip
  IN  /\ slots[n].status = "open" /\ slots[n].up
      /\ i \in DOMAIN ev.doc[a] /\ ev.doc[a][i].key \in Events
      /\ f = ~ev.doc[a][i].flag
      /\ slots' = slots
      /\ ev' = SetFlag(ev, a, i, f)
      /\ view' = [view EXCEPT ![n] = [view[n] EXCEPT !.sub = f]]

LEMMA EndingKind ==
  ASSUME NEW n, Become(Disconnect(Now, n))
  PROVE  Ending(n)
BY DEF Become, Disconnect, Now, Ending

LEMMA NoneOf ==
  ASSUME MaxPerIP = 1, NEW a, Cardinality(SlotsOf(a)) < MaxPerIP
  PROVE  SlotsOf(a) = {}
<1>1. IsFiniteSet(Nums)
  BY ClientMaxAssumption, FS_Interval DEF Nums
<1>2. IsFiniteSet(SlotsOf(a)) /\ Cardinality(SlotsOf(a)) \in Nat
  BY <1>1, FS_Subset, FS_CardinalityType DEF SlotsOf
<1> QED BY <1>2, FS_EmptySet

LEMMA AcceptKind ==
  ASSUME SafeInv, NEW a \in IPs, Accept(a)
  PROVE  \E n \in Nums : Entering(n, a)
<1> DEFINE n == Min(Usable)
           S == IF slots[n].status = "free" THEN Now ELSE Disconnect(Now, n)
           x == [status |-> "header", up |-> TRUE, ip |-> a]
<1>1. n \in Nums /\ ~slots[n].up
  BY UsableMin DEF Accept
<1>2. Become([S EXCEPT !.slots[n] = x])
  BY DEF Accept
<1>3. Sound(S) /\ S \in State /\ slots \in [Nums -> Slot]
  BY <1>1, NowSound, DisconnectSound DEF Sound, Good, SafeInv, Inv, TypeOK
<1>4. (slots[n].status = "free" /\ S = Now) \/ S = Disconnect(Now, n)
  OBVIOUS
<1> HIDE DEF n, S, x
<1>5. slots' = [S.slots EXCEPT ![n] = x] /\ ev' = S.ev /\ view' = S.view
  BY <1>2, <1>3 DEF Become, State
<1>6. CASE slots[n].status = "free" /\ S = Now
  BY <1>1, <1>5, <1>6 DEF Now, Entering, x
<1>7. CASE S = Disconnect(Now, n)
  <2>1. S.slots = [slots EXCEPT ![n] = Free] /\ S.ev = Forget(ev, n)
        /\ S.view = [view EXCEPT ![n] = NoView]
    BY <1>7 DEF Disconnect, Now
  <2>2. slots' = [slots EXCEPT ![n] = x]
    BY <1>3, <1>5, <2>1
  <2> QED BY <1>1, <1>5, <2>1, <2>2 DEF Entering, x
<1> QED BY <1>4, <1>6, <1>7

LEMMA OpenedSlots ==
  ASSUME SafeInv, ~MidLoss, NEW n \in Nums, NEW loss \in Losses
  PROVE  /\ Opened(n, loss).slots = [slots EXCEPT ![n] = [slots[n] EXCEPT !.status = "open"]]
         /\ Opened(n, loss).ev = ev /\ Opened(n, loss).ia = ia /\ Opened(n, loss).view = view
<1>1. Opened(n, loss) = [Now EXCEPT !.slots[n].status = "open"]
  BY NoLoss DEF Opened
<1> QED BY <1>1 DEF Now

LEMMA UpgradeEventKind ==
  ASSUME SafeInv, ~MidLoss, NEW n \in Nums, UpgradeEvent(n)
  PROVE  /\ Opening(n)
         /\ \E e \in Events : HasKey(ev, slots[n].ip, e) \/ Joining(n, e)
<1>1. PICK e \in Events, loss \in Losses :
        ConnectEvent(Opened(n, loss), n, AddressOf(n, loss), e, loss)
  BY DEF UpgradeEvent
<1> DEFINE a     == slots[n].ip
           S     == Opened(n, loss)
           auto  == SubSchema[e] = NoSchema
           told  == [ep |-> e, sub |-> auto /\ ~HasKey(S.ev, a, e)]
           entry == [key |-> e, flag |-> auto]
           T     == [S EXCEPT !.view[n] = told]
           R     == [S EXCEPT !.ev = Record(@, a, n, entry), !.view[n] = told]
<1>2. loss = "never" /\ DropAt(T, n, loss, "send") = T /\ AddressOf(n, loss) = a
  BY NoLoss
<1>3. Become(T) \/ (~HasKey(S.ev, a, e) /\ Become(R))
  BY ZenonT(40), <1>1, <1>2 DEF ConnectEvent
<1>4. HasKey(S.ev, a, e) \/ (~HasKey(S.ev, a, e) /\ Become(R))
  BY <1>1, <1>2 DEF ConnectEvent
<1>5. ~HasKey(S.ev, a, e) => told = [ep |-> e, sub |-> auto]
  OBVIOUS
<1> HIDE DEF told, entry, a
<1>6. /\ S.ev = ev /\ S.view = view
      /\ S.slots = [slots EXCEPT ![n] = [slots[n] EXCEPT !.status = "open"]]
      /\ S = [slots |-> S.slots, ev |-> ev, ia |-> ia, view |-> view]
  BY OpenedSlots, OpenedFields
<1> HIDE DEF S
<1>7. T.slots = S.slots
  BY <1>6
<1>8. R.slots = S.slots /\ R.ev = Record(ev, a, n, entry) /\ R.view = [view EXCEPT ![n] = told]
  BY <1>6
<1> HIDE DEF T, R
<1>9. Opening(n)
  <2>1. slots' = S.slots
    BY <1>3, <1>7, <1>8 DEF Become
  <2> QED BY <1>6, <2>1 DEF Opening, UpgradeEvent, Upgrading
<1>10. CASE ~HasKey(S.ev, a, e) /\ Become(R)
  <2>1. ev' = Record(ev, a, n, entry) /\ view' = [view EXCEPT ![n] = told]
    BY <1>8, <1>10 DEF Become
  <2>2. told = [ep |-> e, sub |-> auto]
    BY <1>5, <1>10
  <2>3. Joining(n, e)
    BY <2>1, <2>2 DEF Joining, entry, a
  <2> QED BY <1>9, <2>3
<1>11. CASE HasKey(S.ev, a, e)
  BY <1>6, <1>9, <1>11 DEF a
<1> QED BY <1>4, <1>10, <1>11

LEMMA OtherUpgradeKind ==
  ASSUME SafeInv, ~MidLoss, NEW n \in Nums,
         UpgradeProperty(n) \/ UpgradeAction(n) \/ UpgradeUnknown(n)
  PROVE  /\ Opening(n) /\ ev' = ev /\ view' = view
         /\ UNCHANGED round \/ \E j \in Actions, m \in {n, NoNum} : MayNotify(j, m)
<1>1. ASSUME NEW S, NEW loss \in Losses, S = Opened(n, loss), Upgrading(n),
             Become(S) \/ \E r : Become([S EXCEPT !.ia = r])
      PROVE  Opening(n) /\ ev' = ev /\ view' = view
  <2>1. /\ S.ev = ev /\ S.view = view
        /\ S.slots = [slots EXCEPT ![n] = [slots[n] EXCEPT !.status = "open"]]
        /\ S = [slots |-> S.slots, ev |-> ev, ia |-> ia, view |-> view]
    BY <1>1, OpenedSlots, OpenedFields
  <2>2. \A r : /\ [S EXCEPT !.ia = r].slots = S.slots /\ [S EXCEPT !.ia = r].ev = ev
               /\ [S EXCEPT !.ia = r].view = view
    BY <2>1
  <2>3. slots' = S.slots /\ ev' = ev /\ view' = view
    BY <1>1, <2>1, <2>2 DEF Become
  <2> QED BY <1>1, <2>1, <2>3 DEF Opening, Upgrading
<1>2. CASE UpgradeProperty(n)
  <2>1. PICK q \in 1 .. NumProps, loss \in Losses :
          ConnectProperty(Opened(n, loss), n, AddressOf(n, loss), q, loss)
    BY <1>2 DEF UpgradeProperty
  <2> DEFINE S == Opened(n, loss)
             r == Record(S.ia, AddressOf(n, loss), n, [key |-> q, flag |-> TRUE])
             T == IF HasKey(S.ia, AddressOf(n, loss), q) THEN S
                  ELSE [S EXCEPT !.ia = Record(@, AddressOf(n, loss), n, [key |-> q, flag |-> TRUE])]
  <2>2. Become(DropAt(T, n, loss, "send"))
    BY <2>1 DEF ConnectProperty
  <2>3. DropAt(T, n, loss, "send") = T
    <3> HIDE DEF T
    <3> QED BY NoLoss
  <2>4. S = [slots |-> S.slots, ev |-> ev, ia |-> ia, view |-> view]
    BY OpenedFields
  <2> HIDE DEF S
  <2>5. T = S \/ T = [S EXCEPT !.ia = r]
    BY <2>4
  <2> HIDE DEF T, r
  <2>6. Become(S) \/ \E x : Become([S EXCEPT !.ia = x])
    BY <2>2, <2>3, <2>5
  <2> QED BY <1>1, <1>2, <2>6 DEF S, UpgradeProperty
<1>3. CASE UpgradeAction(n)
  <2>1. PICK j \in 1 .. NumWsActions, loss \in Losses :
          ConnectAction(Opened(n, loss), n, AddressOf(n, loss), j, loss)
    BY <1>3 DEF UpgradeAction
  <2> DEFINE S == Opened(n, loss)
             a == AddressOf(n, loss)
             e == [key |-> NumProps + j, flag |-> NoInput[j]]
             r == Record(S.ia, a, n, e)
  <2>2. loss = "never" /\ DropAt(S, n, loss, "send") = S
    BY NoLoss
  <2>3. Become(S) \/ Become([S EXCEPT !.ia = Record(@, a, n, e)])
    BY <2>1, <2>2 DEF ConnectAction
  <2>4. S = [slots |-> S.slots, ev |-> ev, ia |-> ia, view |-> view]
    BY OpenedFields
  <2>5. (MayNotify(j, n) \/ UNCHANGED round) /\ j \in Actions
    BY <2>1, ThingAssumption DEF ConnectAction, Actions
  <2> HIDE DEF S, a, e
  <2>6. [S EXCEPT !.ia = Record(@, a, n, e)] = [S EXCEPT !.ia = r]
    BY <2>4
  <2> HIDE DEF r
  <2>7. Become(S) \/ \E x : Become([S EXCEPT !.ia = x])
    BY <2>3, <2>6
  <2> QED BY <1>1, <1>3, <2>5, <2>7 DEF S, UpgradeAction
<1>4. CASE UpgradeUnknown(n)
  <2>1. PICK loss \in Losses : Become(Opened(n, loss))
    BY <1>4 DEF UpgradeUnknown
  <2> QED BY <1>1, <1>4, <2>1 DEF UpgradeUnknown
<1> QED BY <1>2, <1>3, <1>4

LEMMA EventTextKind ==
  ASSUME SafeInv, ~MidLoss, NEW n \in Nums, NEW m \in Messages, EventText(n, m)
  PROVE  UNCHANGED <<slots, ev, view>> \/ \E i, f : Turning(n, i, f)
<1>1. PICK loss \in Losses :
       LET S == DropAt(Now, n, loss, "address")
           a == AddressOf(n, loss)
           i == Min(Takers(S, a, m))
           f == ~S.ev.doc[a][i].flag
           T == [S EXCEPT !.ev = SetFlag(@, a, i, f),
                          !.view[n].sub = IF loss = "address" THEN @ ELSE f]
       IN  /\ Takers(S, a, m) # {}
           /\ Become(DropAt(IF m.exact THEN T ELSE S, n, loss, "send"))
  BY DEF EventText
<1> DEFINE a == slots[n].ip
           i == Min(Takers(Now, a, m))
           f == ~Now.ev.doc[a][i].flag
           T == [Now EXCEPT !.ev = SetFlag(@, a, i, f), !.view[n].sub = f]
<1>2. loss = "never" /\ DropAt(Now, n, loss, "address") = Now /\ AddressOf(n, loss) = a
  BY NoLoss
<1>3. Takers(Now, a, m) # {} /\ Become(IF m.exact THEN T ELSE Now)
  BY <1>1, <1>2 DEF DropAt
<1>4. a \in Addr /\ ev \in Registry(Events)
  BY DEF SafeInv, Inv, TypeOK, Slot
<1>5. Now.ev = ev /\ Now.view = view /\ Now.slots = slots
  BY DEF Now
<1> HIDE DEF a
<1>6. i \in DOMAIN ev.doc[a] /\ ev.doc[a][i].key \in Events
  <2>1. ev.doc[a] \in Seq(Entry(Events))
    BY <1>4, RegistryFields
  <2>2. Takers(Now, a, m) \subseteq DOMAIN ev.doc[a] /\ DOMAIN ev.doc[a] \subseteq Nat
    BY <1>5, <2>1 DEF Takers
  <2>3. i \in Takers(Now, a, m)
    BY <1>3, <2>2, MinIsLeast
  <2> HIDE DEF i
  <2> QED BY <1>5, <2>2, <2>3 DEF Takers, Takes
<1> HIDE DEF i
<1>7. f = ~ev.doc[a][i].flag
  BY <1>5
<1> HIDE DEF f
<1>8. T.ev = SetFlag(ev, a, i, f) /\ T.slots = slots
      /\ T.view = [view EXCEPT ![n] = [view[n] EXCEPT !.sub = f]]
  BY DEF Now
<1> HIDE DEF T
<1>9. CASE Become(Now)
  BY <1>5, <1>9 DEF Become
<1>10. CASE Become(T)
  <2>1. /\ slots' = slots /\ ev' = SetFlag(ev, a, i, f)
        /\ view' = [view EXCEPT ![n] = [view[n] EXCEPT !.sub = f]]
    BY <1>8, <1>10 DEF Become
  <2>2. Turning(n, i, f)
    BY <1>6, <1>7, <2>1 DEF Turning, EventText, Receiving, a
  <2> QED BY <2>2
<1> QED BY Zenon, <1>3, <1>9, <1>10

(* The slot whose request starts a round is recorded for that action.       *)
LEMMA ActionTextKind ==
  ASSUME SafeInv, ~MidLoss, NEW n \in Nums, NEW m \in Messages, ActionText(n, m)
  PROVE  /\ UNCHANGED <<slots, ev, view>> /\ ia.doc[slots[n].ip] # << >>
         /\ \E j \in Actions : MayNotify(j, n)
<1>1. PICK loss \in Losses :
       LET S == DropAt(Now, n, loss, "address")
           a == AddressOf(n, loss)
           i == Min(Pending(S, a))
       IN  /\ Takers(S, a, m) = {} /\ Pending(S, a) # {}
           /\ Become(DropAt([S EXCEPT !.ia = SetFlag(@, a, i, TRUE)], n, loss, "send"))
           /\ IF loss = "send" THEN UNCHANGED round
                               ELSE MayNotify(S.ia.doc[a][i].key - NumProps, n)
  BY DEF ActionText
<1> DEFINE a == slots[n].ip
           i == Min(Pending(Now, a))
           T == [Now EXCEPT !.ia = SetFlag(@, a, i, TRUE)]
           j == Now.ia.doc[a][i].key - NumProps
<1>2. loss = "never" /\ DropAt(Now, n, loss, "address") = Now /\ AddressOf(n, loss) = a
  BY NoLoss
<1>3. Pending(Now, a) # {} /\ Become(T) /\ MayNotify(j, n)
  BY <1>1, <1>2 DEF DropAt
<1>4. a \in Addr /\ ia \in Registry(Requests)
  BY DEF SafeInv, Inv, TypeOK, Slot
<1>5. Now.ia = ia
  BY DEF Now
<1>6. T.slots = slots /\ T.ev = ev /\ T.view = view
  BY DEF Now
<1> HIDE DEF T
<1>7. UNCHANGED <<slots, ev, view>>
  BY <1>3, <1>6 DEF Become
<1>8. ia.doc[a] \in Seq(Entry(Requests))
  BY <1>4, RegistryFields
<1> HIDE DEF a
<1>9. i \in Pending(Now, a)
  <2>1. Pending(Now, a) \subseteq Nat
    BY <1>5, <1>8 DEF Pending
  <2> QED BY <1>3, <2>1, MinIsLeast
<1> HIDE DEF i
<1>10. i \in DOMAIN ia.doc[a] /\ ia.doc[a][i].key > NumProps
  BY <1>5, <1>9 DEF Pending
<1>11. j \in Actions
  <2>1. ia.doc[a][i] \in Entry(Requests)
    BY <1>8, <1>10, ElementOfSeq
  <2>2. ia.doc[a][i].key \in Requests \cup {0}
    BY <2>1 DEF Entry, Junk
  <2> QED BY <1>5, <1>10, <2>2, ThingAssumption DEF Requests, Actions
<1>12. ia.doc[a] # << >>
  BY <1>10
<1> HIDE DEF j
<1> QED BY <1>3, <1>7, <1>11, <1>12 DEF a

-------------------------------------------------------------------------------
(* One channel for an address: the objects kept under it are those of its   *)
(* channel, and their flag is what its consumer was told last.              *)
Alone == \A n, m \in Nums :
  slots[n].status # "free" /\ slots[m].status # "free" /\ slots[n].ip = slots[m].ip => n = m

Tells(n) ==
  LET doc == ev.doc[slots[n].ip]
  IN  /\ slots[n].status # "open" => view[n] = NoView
      /\ slots[n].status = "open" =>
           /\ \A i \in DOMAIN doc : doc[i].key = view[n].ep /\ doc[i].flag = view[n].sub
           /\ view[n].ep # 0 => doc # << >>
           /\ view[n].sub => view[n].ep # 0

Told == Alone /\ \A n \in Nums : Tells(n)

LEMMA SafeTypes ==
  ASSUME SafeInv
  PROVE  /\ slots \in [Nums -> Slot] /\ view \in [Nums -> View]
         /\ ev \in Registry(Events) /\ ia \in Registry(Requests)
         /\ KeysAgree(ev) /\ KeysAgree(ia) /\ OneEntryPerKey(ev)
         /\ Owned(ev, slots) /\ Owned(ia, slots) /\ Apart(ev, ia)
         /\ \A n \in Nums : slots[n].ip \in Addr /\ view[n] \in View
         /\ round \in Round \cup {Idle}
<1>1. Owned(ev, slots) /\ Owned(ia, slots) /\ Apart(ev, ia)
  BY DEF SafeInv, OwnersOpen, Owned, Apart
<1>2. slots \in [Nums -> Slot] /\ view \in [Nums -> View]
  BY DEF SafeInv, Inv, TypeOK
<1>3. \A n \in Nums : slots[n].ip \in Addr /\ view[n] \in View
  BY <1>2 DEF Slot
<1> QED BY <1>1, <1>2, <1>3 DEF SafeInv, Inv, TypeOK, RegistriesAgree, NoDoubleEntries

(* Who owns what is kept under an address.                                  *)
LEMMA DocOwner ==
  ASSUME NEW K, NEW r \in Registry(K), KeysAgree(r), Owned(r, slots), NEW a \in Addr,
         r.doc[a] # << >>
  PROVE  /\ r.num[a] \in Nums /\ IsOwner(r, r.num[a])
         /\ slots[r.num[a]].status = "open" /\ slots[r.num[a]].ip = a
<1>1. PICK j \in DOMAIN r.arr : r.arr[j].ip = a
  BY DEF KeysAgree
<1>2. r.num[a] = r.arr[j].num
  BY <1>1 DEF KeysAgree
<1>3. r.arr[j].num \in Nums
  BY RegistryFields
<1> QED BY <1>1, <1>2, <1>3 DEF Owned, IsOwner

LEMMA ToldOf ==
  ASSUME SafeInv, Told, NEW a \in Addr, ev.doc[a] # << >>, NEW n \in Nums,
         slots[n].status # "free", slots[n].ip = a
  PROVE  ev.num[a] = n /\ slots[n].status = "open" /\ IsOwner(ev, n)
<1>1. /\ ev.num[a] \in Nums /\ IsOwner(ev, ev.num[a])
      /\ slots[ev.num[a]].status = "open" /\ slots[ev.num[a]].ip = a
  BY SafeTypes, DocOwner
<1>2. ev.num[a] = n
  BY <1>1 DEF Told, Alone
<1> QED BY <1>1, <1>2

(* A slot of which a step changes nothing that matters here.                *)
LEMMA TellsSame ==
  ASSUME NEW m, Tells(m), slots'[m].status = slots[m].status, view'[m] = view[m],
         slots[m].status = "open" =>
           slots'[m].ip = slots[m].ip /\ ev'.doc[slots[m].ip] = ev.doc[slots[m].ip]
  PROVE  Tells(m)'
<1>1. CASE slots[m].status = "open"
  <2>1. slots'[m].ip = slots[m].ip /\ ev'.doc[slots'[m].ip] = ev.doc[slots[m].ip]
    BY <1>1
  <2> QED BY <1>1, <2>1 DEF Tells
<1>2. CASE slots[m].status # "open"
  BY <1>2 DEF Tells
<1> QED BY <1>1, <1>2

LEMMA ForgetOthers ==
  ASSUME SafeInv, Told, NEW n \in Nums, NEW m \in Nums, m # n, slots[m].status = "open"
  PROVE  Forget(ev, n).doc[slots[m].ip] = ev.doc[slots[m].ip]
<1>1. CASE ~IsOwner(ev, n)
  BY <1>1 DEF Forget
<1>2. CASE IsOwner(ev, n)
  <2> DEFINE p == StopsAt(ev, n)
             b == ev.arr[p].ip
  <2>1. p \in DOMAIN ev.arr /\ ev.arr[p].num = n
    BY <1>2, SafeTypes, StopsAtOwner
  <2>2. Forget(ev, n).doc = [ev.doc EXCEPT ![b] = << >>] /\ ev.doc \in [Addr -> Seq(Entry(Events))]
    BY <1>2, SafeTypes, RegistryFields DEF Forget
  <2>3. slots[n].status = "open" /\ slots[n].ip = b
    BY <2>1, SafeTypes DEF Owned
  <2> HIDE DEF b, p
  <2>4. slots[m].ip # b
    BY <2>3 DEF Told, Alone
  <2> QED BY <2>2, <2>4, SafeTypes
<1> QED BY <1>1, <1>2

LEMMA QuietTold ==
  ASSUME Told, UNCHANGED <<slots, ev, view>>
  PROVE  Told'
BY DEF Told, Alone, Tells

LEMMA EndingTold ==
  ASSUME SafeInv, Told, NEW n \in Nums, Ending(n)
  PROVE  Told'
<1>1. /\ slots' = [slots EXCEPT ![n] = Free] /\ view' = [view EXCEPT ![n] = NoView]
      /\ ev' = Forget(ev, n)
  BY DEF Ending
<1>2. slots'[n] = Free /\ view'[n] = NoView
      /\ \A m \in Nums \ {n} : slots'[m] = slots[m] /\ view'[m] = view[m]
  BY <1>1, SafeTypes
<1>3. Alone'
  BY <1>2 DEF Told, Alone, Free
<1>4. Tells(n)'
  BY <1>2 DEF Tells, Free
<1>5. ASSUME NEW m \in Nums \ {n} PROVE Tells(m)'
  <2>1. slots[m].status = "open" => ev'.doc[slots[m].ip] = ev.doc[slots[m].ip]
    BY <1>1, ForgetOthers
  <2> QED BY <1>2, <2>1, TellsSame DEF Told
<1> QED BY <1>3, <1>4, <1>5 DEF Told

LEMMA EnteringTold ==
  ASSUME SafeInv, Told, NEW n \in Nums, NEW a \in IPs, Entering(n, a), SlotsOf(a) = {}
  PROVE  Told'
<1>1. slots' = [slots EXCEPT ![n] = [status |-> "header", up |-> TRUE, ip |-> a]]
  BY DEF Entering
<1>2. /\ slots'[n].status = "header" /\ slots'[n].ip = a
      /\ \A m \in Nums \ {n} : slots'[m] = slots[m]
  BY <1>1, SafeTypes
<1>3. \A m \in Nums \ {n} : slots[m].status # "free" => slots[m].ip # a
  BY DEF SlotsOf
<1>4. Alone'
  BY <1>2, <1>3 DEF Told, Alone
<1>5. view'[n] = NoView /\ \A m \in Nums \ {n} : view'[m] = view[m]
  <2>1. CASE slots[n].status = "free" /\ ev' = ev /\ view' = view
    BY <2>1 DEF Told, Tells
  <2>2. CASE view' = [view EXCEPT ![n] = NoView]
    BY <2>2, SafeTypes
  <2> QED BY <2>1, <2>2 DEF Entering
<1>6. Tells(n)'
  BY <1>2, <1>5 DEF Tells
<1>7. ASSUME NEW m \in Nums \ {n} PROVE Tells(m)'
  <2>1. slots[m].status = "open" => ev'.doc[slots[m].ip] = ev.doc[slots[m].ip]
    BY ForgetOthers DEF Entering
  <2> QED BY <1>2, <1>5, <2>1, TellsSame DEF Told
<1> QED BY <1>4, <1>6, <1>7 DEF Told

LEMMA OpeningSlots ==
  ASSUME SafeInv, Told, NEW n \in Nums, Opening(n)
  PROVE  /\ slots'[n].status = "open" /\ slots'[n].ip = slots[n].ip /\ slots'[n].up
         /\ \A m \in Nums \ {n} : slots'[m] = slots[m]
         /\ Alone' /\ view[n] = NoView /\ ev.doc[slots[n].ip] = << >>
<1>1. slots' = [slots EXCEPT ![n] = [slots[n] EXCEPT !.status = "open"]] /\ slots[n] \in Slot
      /\ slots[n].status = "header"
  BY SafeTypes DEF Opening
<1>2. /\ slots'[n].status = "open" /\ slots'[n].ip = slots[n].ip /\ slots'[n].up
      /\ \A m \in Nums \ {n} : slots'[m] = slots[m]
  BY <1>1, SafeTypes DEF Slot, Opening
<1>3. Alone'
  BY <1>1, <1>2 DEF Told, Alone
<1>4. ev.doc[slots[n].ip] = << >>
  BY <1>1, SafeTypes, ToldOf
<1> QED BY <1>1, <1>2, <1>3, <1>4 DEF Told, Tells

LEMMA OpeningTold ==
  ASSUME SafeInv, Told, NEW n \in Nums, Opening(n), ev' = ev, view' = view
  PROVE  Told'
<1>1. Tells(n)'
  BY OpeningSlots DEF Tells, NoView
<1>2. ASSUME NEW m \in Nums \ {n} PROVE Tells(m)'
  BY OpeningSlots, TellsSame DEF Told
<1> QED BY <1>1, <1>2, OpeningSlots DEF Told

LEMMA JoiningTold ==
  ASSUME SafeInv, Told, NEW n \in Nums, NEW e \in Events, Opening(n), Joining(n, e)
  PROVE  Told'
<1> DEFINE a     == slots[n].ip
           auto  == SubSchema[e] = NoSchema
           entry == [key |-> e, flag |-> auto]
           v     == [ep |-> e, sub |-> auto]
<1>1. ev' = Record(ev, a, n, entry) /\ view' = [view EXCEPT ![n] = v]
  BY DEF Joining
<1>2. entry \in Entry(Events) /\ entry.key = v.ep /\ entry.flag = v.sub /\ v.ep # 0
  BY Constants DEF Entry
<1>3. a \in Addr /\ ev \in Registry(Events) /\ ev.doc[a] = << >>
  BY SafeTypes, OpeningSlots
<1> HIDE DEF a, entry, v
<1>4. ev.doc \in [Addr -> Seq(Entry(Events))]
  BY <1>3, RegistryFields
<1>5. ev'.doc[a] = << entry >>
  <2>1. ev'.doc = [ev.doc EXCEPT ![a] = Append(ev.doc[a], entry)]
    BY <1>1, <1>4 DEF Record
  <2> QED BY <1>3, <1>4, <2>1
<1>6. \A b \in Addr \ {a} : ev'.doc[b] = ev.doc[b]
  BY <1>1, <1>2, <1>3, RecordDoc
<1>7. view'[n] = v /\ \A m \in Nums \ {n} : view'[m] = view[m]
  BY <1>1, SafeTypes
<1>8. Tells(n)'
  <2>1. slots'[n].status = "open" /\ ev'.doc[slots'[n].ip] = << entry >>
    BY <1>5, OpeningSlots DEF a
  <2> QED BY <1>2, <1>7, <2>1 DEF Tells
<1>9. ASSUME NEW m \in Nums \ {n} PROVE Tells(m)'
  <2>1. slots[m].status = "open" => slots[m].ip \in Addr \ {a}
    BY SafeTypes DEF Told, Alone, Opening, a
  <2> QED BY <1>6, <1>7, <2>1, OpeningSlots, TellsSame DEF Told
<1> QED BY <1>8, <1>9, OpeningSlots DEF Told

LEMMA TurningTold ==
  ASSUME SafeInv, Told, NEW n \in Nums, NEW i, NEW f, Turning(n, i, f)
  PROVE  /\ Told'
         /\ view[n].ep \in Events /\ view[n].sub = ~f /\ f \in BOOLEAN
<1> DEFINE a == slots[n].ip
           s == ev.doc[a]
<1>1. /\ slots[n].status = "open" /\ i \in DOMAIN s /\ s[i].key \in Events /\ f = ~s[i].flag
      /\ slots' = slots /\ ev' = SetFlag(ev, a, i, f)
      /\ view' = [view EXCEPT ![n] = [view[n] EXCEPT !.sub = f]]
  BY DEF Turning
<1>2. a \in Addr /\ ev \in Registry(Events) /\ s \in Seq(Entry(Events))
      /\ ev.doc \in [Addr -> Seq(Entry(Events))]
  BY SafeTypes, RegistryFields
<1>3. s[i].key = view[n].ep /\ s[i].flag = view[n].sub /\ view[n] \in View
  BY ZenonT(40), <1>1, SafeTypes DEF Told, Tells
<1>4. f \in BOOLEAN
  BY <1>1
<1>5. \A j \in DOMAIN s : j = i
  <2>1. \A j \in DOMAIN s : s[j].key = s[i].key
    BY <1>1, <1>3 DEF Told, Tells
  <2>2. \A j, k \in DOMAIN s : s[j].key = s[k].key => j = k
    BY <1>2, SafeTypes DEF OneEntryPerKey
  <2> HIDE DEF s
  <2> QED BY <1>1, <2>1, <2>2
<1>6. s[i] \in Entry(Events)
  <2> HIDE DEF s
  <2> QED BY <1>1, <1>2, ElementOfSeq
<1> DEFINE t == [s EXCEPT ![i] = [s[i] EXCEPT !.flag = f]]
<1>7. ev'.doc = [ev.doc EXCEPT ![a] = t]
  BY <1>1, <1>2 DEF SetFlag, Registry
<1>8. DOMAIN t = DOMAIN s /\ t[i].key = view[n].ep /\ t[i].flag = f
  BY <1>1, <1>3, <1>4, <1>6 DEF Entry
<1>9. view'[n].ep = view[n].ep /\ view'[n].sub = f
      /\ \A m \in Nums \ {n} : view'[m] = view[m]
  BY <1>1, <1>3, SafeTypes DEF View
<1>10. ev'.doc[a] = t
  BY <1>2, <1>7
<1>11. \A b \in Addr \ {a} : ev'.doc[b] = ev.doc[b]
  BY <1>2, <1>7
<1>12. view[n].ep # 0
  BY <1>1, <1>3, Constants
<1>13. t # << >>
  <2> HIDE DEF s, t
  <2> QED BY <1>1, <1>8
<1> HIDE DEF t
<1>14. \A j \in DOMAIN t : t[j].key = view'[n].ep /\ t[j].flag = view'[n].sub
  <2>1. t[i].key = view'[n].ep /\ t[i].flag = view'[n].sub
    BY <1>8, <1>9
  <2> QED BY <1>5, <1>8, <2>1
<1>15. Tells(n)'
  <2>1. slots'[n].status = "open" /\ ev'.doc[slots'[n].ip] = t /\ view'[n].ep # 0
    BY ZenonT(40), <1>1, <1>9, <1>10, <1>12
  <2> QED BY <1>13, <1>14, <2>1 DEF Tells
<1>16. ASSUME NEW m \in Nums \ {n} PROVE Tells(m)'
  <2>1. slots[m].status = "open" => slots[m].ip \in Addr \ {a}
    BY ZenonT(40), <1>1, SafeTypes DEF Told, Alone
  <2> QED BY ZenonT(40), <1>1, <1>9, <1>11, <2>1, TellsSame DEF Told
<1>17. Alone'
  BY <1>1 DEF Told, Alone
<1>18. view[n].sub = ~f
  BY <1>1, <1>3, SafeTypes DEF View
<1> QED BY ZenonT(40), <1>1, <1>3, <1>4, <1>15, <1>16, <1>17, <1>18 DEF Told

LEMMA LoseTold ==
  ASSUME SafeInv, Told, NEW n \in Nums, Lose(n)
  PROVE  Told'
<1>1. slots' = [slots EXCEPT ![n] = [slots[n] EXCEPT !.up = FALSE]] /\ ev' = ev /\ view' = view
  BY DEF Lose
<1>2. \A m \in Nums : slots'[m].status = slots[m].status /\ slots'[m].ip = slots[m].ip
  BY <1>1, SafeTypes DEF Slot
<1>3. Alone'
  BY <1>2 DEF Told, Alone
<1> QED BY <1>1, <1>2, <1>3, TellsSame DEF Told

-------------------------------------------------------------------------------
(* The round: a notification that is due is that of the address the index   *)
(* stands at, whoever comes after the index was not told yet, and what the  *)
(* index has passed over is bounded by the connections found lost.          *)
Scan ==
  /\ round.left > 0 => /\ round.i \in DOMAIN ev.arr /\ ev.arr[round.i].ip = round.ip
                       /\ Flagged(ev, round.ip, round.ev) # {}
  /\ \A k \in DOMAIN ev.arr : k >= round.i => ev.arr[k].num \notin round.sent
  /\ MissedBoundedByDrops

LEMMA Small ==
  ASSUME NEW i \in Nat, NEW S, S \subseteq 1 .. i - 1
  PROVE  IsFiniteSet(S) /\ Cardinality(S) \in Nat
<1>1. IsFiniteSet(1 .. i - 1)
  BY FS_Interval
<1> QED BY <1>1, FS_Subset, FS_CardinalityType

LEMMA MissedFinite ==
  ASSUME SafeInv
  PROVE  round.i \in Nat /\ round.drops \in Nat /\ IsFiniteSet(Missed) /\ Cardinality(Missed) \in Nat
<1>1. round.i \in Nat /\ round.drops \in Nat
  BY SafeTypes DEF Round, Idle
<1>2. Missed \subseteq 1 .. round.i - 1
  BY DEF Missed
<1> QED BY <1>1, <1>2, Small

(* Before a round and at its start nothing has been passed over.            *)
LEMMA FreshScan ==
  ASSUME round'.left = 0, round'.i \in {0, 1}, round'.sent = {}, round'.drops = 0
  PROVE  Scan'
<1>1. Missed' = {}
  <2>1. 1 .. round'.i - 1 = {}
    OBVIOUS
  <2> QED BY <2>1 DEF Missed
<1>2. MissedBoundedByDrops'
  BY <1>1, FS_EmptySet DEF MissedBoundedByDrops
<1> QED BY <1>2 DEF Scan

LEMMA IdleRound == SafeInv /\ ~Busy => round = Idle
BY Constants, SafeTypes DEF Busy, Round

LEMMA CalmScan ==
  ASSUME SafeInv, ~Busy, UNCHANGED round \/ \E j, m : MayNotify(j, m)
  PROVE  Scan'
<1>1. CASE UNCHANGED round
  <2>1. round' = Idle
    BY <1>1, IdleRound
  <2> QED BY <2>1, FreshScan DEF Idle
<1>2. ASSUME NEW j, NEW m, round' = [Idle EXCEPT !.ev = Trigger[j], !.i = 1, !.reply = m]
      PROVE  Scan'
  BY <1>2, FreshScan DEF Idle
<1> QED BY <1>1, <1>2 DEF MayNotify

LEMMA ScanAddressScan ==
  ASSUME SafeInv, Scan, ScanAddress
  PROVE  Scan'
<1> DEFINE a == ev.arr[round.i].ip
           hits == Flagged(ev, a, round.ev)
           k == Cardinality(hits)
<1>1. round \in Round /\ round.i \in Nat \ {0} /\ round.left = 0 /\ round.i <= Len(ev.arr)
  BY RoundFields, SafeTypes DEF ScanAddress
<1>2. DOMAIN ev.arr = 1 .. Len(ev.arr) /\ Len(ev.arr) \in Nat /\ round.i \in DOMAIN ev.arr
  BY <1>1, SafeTypes, RegistryFields
<1>3. round' = (IF k = 0 THEN [round EXCEPT !.i = @ + 1]
                         ELSE [round EXCEPT !.ip = a, !.left = k])
      /\ ev' = ev /\ slots' = slots
  BY DEF ScanAddress
<1>4. IsFiniteSet(hits)
  <2>1. a \in Addr
    BY <1>2, SafeTypes, RegistryFields
  <2>2. ev.doc[a] \in Seq(Entry(Events))
    BY <2>1, SafeTypes, RegistryFields
  <2>3. DOMAIN ev.doc[a] = 1 .. Len(ev.doc[a]) /\ Len(ev.doc[a]) \in Int /\ 1 \in Int
    BY <2>2
  <2>4. IsFiniteSet(DOMAIN ev.doc[a])
    BY <2>3, FS_Interval
  <2> QED BY <2>4, FS_Subset DEF Flagged
<1>5. k = 0 <=> hits = {}
  BY <1>4, FS_EmptySet
<1>6. Cardinality(Missed) <= round.drops
  BY DEF Scan, MissedBoundedByDrops
<1>7. CASE k = 0
  <2>1. hits = {}
    BY <1>5, <1>7
  <2> HIDE DEF k, hits
  <2>2. round' = [round EXCEPT !.i = @ + 1]
    BY <1>3, <1>7
  <2>3. /\ round'.i = round.i + 1 /\ round'.left = 0 /\ round'.sent = round.sent
        /\ round'.drops = round.drops /\ round'.ev = round.ev
    BY <1>1, <2>2 DEF Round
  <2>4. Missed' \subseteq Missed
    <3> SUFFICES ASSUME NEW j \in Missed' PROVE j \in Missed
      OBVIOUS
    <3>1. /\ j \in 1 .. round.i /\ j <= Len(ev.arr)
          /\ Flagged(ev, ev.arr[j].ip, round.ev) # {}
          /\ slots[ev.arr[j].num].up /\ ev.arr[j].num \notin round.sent
      <4>1. \A c : Flagged(ev', c, round'.ev) = Flagged(ev, c, round.ev)
        BY <1>3, <2>3 DEF Flagged
      <4>2. round'.i - 1 = round.i
        BY <1>1, <2>3
      <4>3. UNCHANGED <<slots, ev>> /\ round'.sent = round.sent
        BY <1>3, <2>3
      <4> QED BY <4>1, <4>2, <4>3, Zenon DEF Missed
    <3>2. j # round.i
      BY <2>1, <3>1 DEF hits
    <3> QED BY <1>1, <3>1, <3>2 DEF Missed
  <2>5. Cardinality(Missed') <= round.drops
    BY <1>6, <2>4, MissedFinite, FS_Subset, FS_CardinalityType
  <2>6. \A j \in DOMAIN ev'.arr : j >= round'.i => ev'.arr[j].num \notin round'.sent
    BY <1>1, <1>2, <1>3, <2>3 DEF Scan
  <2> QED BY <2>3, <2>5, <2>6 DEF Scan, MissedBoundedByDrops
<1>8. CASE k # 0
  <2>1. hits # {}
    BY <1>5, <1>8
  <2> HIDE DEF k
  <2>2. round' = [round EXCEPT !.ip = a, !.left = k]
    BY <1>3, <1>8
  <2>3. /\ round'.i = round.i /\ round'.sent = round.sent /\ round'.ip = a
        /\ round'.drops = round.drops /\ round'.ev = round.ev
    BY <1>1, <2>2 DEF Round
  <2>4. Missed' = Missed
    <3>1. \A c : Flagged(ev, c, round.ev)' = Flagged(ev, c, round.ev)
      BY <1>3, <2>3 DEF Flagged
    <3>2. UNCHANGED <<slots, ev>>
      BY <1>3
    <3> QED BY <2>3, <3>1, <3>2, Zenon DEF Missed
  <2>5. MissedBoundedByDrops'
    BY <1>6, <2>3, <2>4 DEF MissedBoundedByDrops
  <2>6. Flagged(ev', round'.ip, round'.ev) # {}
    BY ZenonT(40), <1>3, <2>1, <2>3 DEF Flagged
  <2>7. \A j \in DOMAIN ev'.arr : j >= round'.i => ev'.arr[j].num \notin round'.sent
    BY <1>3, <2>3 DEF Scan
  <2> QED BY <1>2, <1>3, <2>3, <2>5, <2>6, <2>7 DEF Scan
<1> QED BY <1>7, <1>8

(* A send goes to the owner the index stands at, and either reaches it or   *)
(* ends its channel.                                                        *)
LEMMA NotifyKind ==
  ASSUME SafeInv, Scan, Notify, NEW n, n = ev.arr[round.i].num
  PROVE  /\ n \in Nums /\ slots[n].status = "open" /\ slots[n].ip = round.ip
         /\ round.i \in DOMAIN ev.arr /\ round.i \in Nat \ {0} /\ IsOwner(ev, n)
         /\ round.ev \in Events
         /\ round'.left = 0 /\ round'.i = round.i + 1
         /\ round'.ev = round.ev /\ round'.reply = round.reply
         /\ \/ /\ slots[n].up /\ UNCHANGED <<slots, ev, view>>
               /\ round'.sent = round.sent \cup {n} /\ round'.drops = round.drops
            \/ /\ ~slots[n].up /\ Ending(n) /\ StopsAt(ev, n) = round.i
               /\ round'.sent = round.sent /\ round'.drops = round.drops + 1
<1>1. round \in Round /\ round.left > 0 /\ round.left = 1
  <2>1. Busy /\ round.left > 0
    BY DEF Notify
  <2>2. round.left <= 1
    BY DEF SafeInv, Routed
  <2>3. round \in Round /\ round.left \in Nat
    BY <2>1, SafeTypes, RoundFields
  <2> QED BY <2>1, <2>2, <2>3
<1>2. round.i \in DOMAIN ev.arr /\ ev.arr[round.i].ip = round.ip
  BY <1>1 DEF Scan
<1>3. ev.num[round.ip] = n /\ n \in Nums
  BY <1>2, SafeTypes, RegistryFields DEF KeysAgree
<1>4. slots[n].status = "open" /\ slots[n].ip = round.ip /\ IsOwner(ev, n)
  BY <1>2, SafeTypes DEF Owned, IsOwner
<1>5. StopsAt(ev, n) = round.i
  BY <1>2, <1>4, SafeTypes, StopsAtOwner DEF Owned, OwnersDistinct
<1>6. round.ev \in Events /\ NumEvents > 0 /\ round.i \in Nat \ {0}
  BY <1>1, ThingAssumption DEF Round, Events
<1> DEFINE lost == slots[n].status # "free" /\ ~slots[n].up
           j    == IF lost THEN IndexAfterDisconnect(Now, n) ELSE round.i
           on   == slots[n].up /\ slots[n].status = "open"
<1>7. ev.num[round.ip] # NoNum
  BY <1>3, Constants DEF NoNum
<1>8. /\ Become(IF lost THEN Disconnect(Now, n) ELSE Now)
      /\ round' = [round EXCEPT !.left = @ - 1,
                                !.i = IF round.left = 1 THEN j + 1 ELSE j,
                                !.sent = IF on THEN @ \cup {n} ELSE @,
                                !.drops = IF lost THEN @ + 1 ELSE @]
  BY <1>3, <1>7 DEF Notify
<1>9. j = round.i
  <2>1. Now.ev = ev
    BY DEF Now
  <2>2. lost => IndexAfterDisconnect(Now, n) = round.i
    BY <1>4, <1>5, <1>6, <2>1 DEF IndexAfterDisconnect
  <2> QED BY <2>2
<1> HIDE DEF j
<1> DEFINE s == IF on THEN round.sent \cup {n} ELSE round.sent
           d == IF lost THEN round.drops + 1 ELSE round.drops
<1>10. /\ round'.left = 0 /\ round'.i = round.i + 1
       /\ round'.ev = round.ev /\ round'.reply = round.reply
       /\ round'.sent = s /\ round'.drops = d
  <2> HIDE DEF on, lost
  <2>0. round' = [round EXCEPT !.left = @ - 1,
                               !.i = IF round.left = 1 THEN j + 1 ELSE j,
                               !.sent = IF on THEN @ \cup {n} ELSE @,
                               !.drops = IF lost THEN @ + 1 ELSE @]
    BY <1>8
  <2>1. round' = [round EXCEPT !.left = 0, !.i = round.i + 1, !.sent = s, !.drops = d]
    BY ONLY <1>1, <1>9, <2>0 DEF Round
  <2> HIDE DEF s, d
  <2> QED BY ONLY <1>1, <2>1 DEF Round
<1>11. CASE slots[n].up
  <2>1. on /\ ~lost
    BY <1>4, <1>11
  <2>2. Become(Now)
    BY <1>8, <2>1
  <2>3. UNCHANGED <<slots, ev, view>>
    BY <2>2 DEF Become, Now
  <2> QED BY <1>2, <1>3, <1>4, <1>6, <1>10, <1>11, <2>1, <2>3
<1>12. CASE ~slots[n].up
  <2>1. ~on /\ lost
    BY <1>4, <1>12
  <2>2. Ending(n)
    BY <1>8, <2>1, EndingKind
  <2> QED BY <1>2, <1>3, <1>4, <1>5, <1>6, <1>10, <1>12, <2>1, <2>2
<1> QED BY Zenon, <1>11, <1>12

(* When the owner at the index p is forgotten, what stands before p stays.  *)
LEMMA ForgetBefore ==
  ASSUME SafeInv, NEW p \in DOMAIN ev.arr, NEW n \in Nums, StopsAt(ev, n) = p, IsOwner(ev, n),
         NEW f, f = Forget(ev, n)
  PROVE  /\ Len(f.arr) = Len(ev.arr) - 1
         /\ \A k \in 1 .. p - 1 : /\ f.arr[k] = ev.arr[k] /\ ev.arr[k].num # n
                                  /\ f.doc[ev.arr[k].ip] = ev.doc[ev.arr[k].ip]
         /\ \A k \in p .. Len(ev.arr) - 1 : f.arr[k] = ev.arr[k + 1]
<1>1. /\ ev.arr[p].num = n /\ \A j \in 1 .. p - 1 : ev.arr[j].num # n
  BY SafeTypes, StopsAtOwner
<1>2. /\ Len(f.arr) = Len(ev.arr) - 1
      /\ \A k \in 1 .. p - 1 : f.arr[k] = ev.arr[k]
      /\ \A k \in p .. Len(ev.arr) - 1 : f.arr[k] = ev.arr[k + 1]
  BY SafeTypes, ForgetArr
<1>3. f.doc = [ev.doc EXCEPT ![ev.arr[p].ip] = << >>] /\ ev.doc \in [Addr -> Seq(Entry(Events))]
  BY SafeTypes, RegistryFields DEF Forget
<1>4. \A k \in 1 .. p - 1 : k \in DOMAIN ev.arr /\ k # p
  BY SafeTypes, RegistryFields
<1>5. \A k \in 1 .. p - 1 : ev.arr[k].ip # ev.arr[p].ip /\ ev.arr[k].ip \in Addr
  BY <1>4, SafeTypes, RegistryFields DEF KeysAgree
<1>6. \A k \in 1 .. p - 1 : f.doc[ev.arr[k].ip] = ev.doc[ev.arr[k].ip]
  BY <1>3, <1>5
<1> QED BY <1>1, <1>2, <1>6

LEMMA NotifyScan ==
  ASSUME SafeInv, Scan, Notify
  PROVE  Scan'
<1> DEFINE n == ev.arr[round.i].num
           p == round.i
<1>1. /\ n \in Nums /\ slots[n].status = "open" /\ p \in DOMAIN ev.arr /\ p \in Nat \ {0}
      /\ IsOwner(ev, n)
      /\ round'.left = 0 /\ round'.i = p + 1 /\ round'.ev = round.ev
      /\ \/ /\ slots[n].up /\ UNCHANGED <<slots, ev, view>>
            /\ round'.sent = round.sent \cup {n} /\ round'.drops = round.drops
         \/ /\ ~slots[n].up /\ Ending(n) /\ StopsAt(ev, n) = p
            /\ round'.sent = round.sent /\ round'.drops = round.drops + 1
  BY NotifyKind
<1>2. DOMAIN ev.arr = 1 .. Len(ev.arr) /\ Len(ev.arr) \in Nat
  BY SafeTypes, RegistryFields
<1>3. Cardinality(Missed) <= round.drops
  BY DEF Scan, MissedBoundedByDrops
<1>4. n = ev.arr[p].num /\ p = round.i
  OBVIOUS
<1>5. \A j \in DOMAIN ev.arr : ev.arr[j].num = n => j = p
  BY <1>1, SafeTypes DEF Owned, OwnersDistinct
<1> HIDE DEF n, p
<1>6. CASE /\ slots[n].up /\ UNCHANGED <<slots, ev, view>>
           /\ round'.sent = round.sent \cup {n} /\ round'.drops = round.drops
  <2>1. Missed' \subseteq Missed
    <3> SUFFICES ASSUME NEW j \in Missed' PROVE j \in Missed
      OBVIOUS
    <3>1. /\ j \in 1 .. p /\ j <= Len(ev.arr)
          /\ Flagged(ev, ev.arr[j].ip, round.ev) # {}
          /\ slots[ev.arr[j].num].up /\ ev.arr[j].num \notin round.sent \cup {n}
      BY <1>1, <1>6 DEF Missed, Flagged
    <3>2. j # p
      BY <3>1, <1>4
    <3> QED BY <1>1, <1>4, <3>1, <3>2 DEF Missed
  <2>2. Cardinality(Missed') <= round.drops
    BY <1>3, <2>1, MissedFinite, FS_Subset, FS_CardinalityType
  <2>3. \A j \in DOMAIN ev.arr : j >= p + 1 => ev.arr[j].num # n
    BY <1>1, <1>2, <1>5
  <2>4. \A j \in DOMAIN ev'.arr : j >= round'.i => ev'.arr[j].num \notin round'.sent
    BY <1>1, <1>2, <1>6, <1>4, <2>3 DEF Scan
  <2> QED BY <1>1, <1>6, <2>2, <2>4 DEF Scan, MissedBoundedByDrops
<1>7. CASE /\ ~slots[n].up /\ Ending(n) /\ StopsAt(ev, n) = p
           /\ round'.sent = round.sent /\ round'.drops = round.drops + 1
  <2>1. ev' = Forget(ev, n) /\ slots' = [slots EXCEPT ![n] = Free]
    BY <1>7 DEF Ending
  <2>2. /\ Len(ev'.arr) = Len(ev.arr) - 1
        /\ \A k \in 1 .. p - 1 : /\ ev'.arr[k] = ev.arr[k] /\ ev.arr[k].num # n
                                 /\ ev'.doc[ev.arr[k].ip] = ev.doc[ev.arr[k].ip]
        /\ \A k \in p .. Len(ev.arr) - 1 : ev'.arr[k] = ev.arr[k + 1]
    BY <1>1, <1>7, <2>1, ForgetBefore
  <2>3. Missed' \subseteq Missed \cup {p}
    <3> SUFFICES ASSUME NEW j \in Missed', j # p PROVE j \in Missed
      OBVIOUS
    <3>1. /\ j \in 1 .. p /\ j <= Len(ev'.arr)
          /\ Flagged(ev', ev'.arr[j].ip, round.ev) # {}
          /\ slots'[ev'.arr[j].num].up /\ ev'.arr[j].num \notin round.sent
      <4>1. round'.i - 1 = p /\ round'.ev = round.ev /\ round'.sent = round.sent
        BY <1>1, <1>7
      <4> QED BY <4>1 DEF Missed
    <3>2. j \in 1 .. p - 1
      BY <1>1, <3>1
    <3>3. ev'.arr[j] = ev.arr[j] /\ ev.arr[j].num # n
          /\ ev'.doc[ev.arr[j].ip] = ev.doc[ev.arr[j].ip]
      BY <2>2, <3>2
    <3>4. Flagged(ev, ev.arr[j].ip, round.ev) # {}
      BY ZenonT(40), <3>1, <3>3 DEF Flagged
    <3>5. j \in DOMAIN ev.arr /\ ev.arr[j].num \in Nums
      BY <1>1, <1>2, <3>2, SafeTypes, RegistryFields
    <3>6. slots'[ev.arr[j].num] = slots[ev.arr[j].num]
      BY <2>1, <3>3, <3>5, SafeTypes
    <3> QED BY <1>2, <1>4, <3>1, <3>2, <3>3, <3>4, <3>5, <3>6 DEF Missed
  <2>4. Cardinality(Missed') <= round.drops + 1
    <3>1. IsFiniteSet(Missed) /\ Cardinality(Missed) \in Nat /\ round.drops \in Nat
      BY MissedFinite
    <3>2. IsFiniteSet(Missed \cup {p}) /\ Cardinality(Missed \cup {p}) <= Cardinality(Missed) + 1
      BY <3>1, FS_AddElement
    <3>3. Cardinality(Missed') <= Cardinality(Missed \cup {p})
      BY <2>3, <3>2, FS_Subset
    <3>4. Cardinality(Missed \cup {p}) \in Nat /\ Cardinality(Missed') \in Nat
      BY <2>3, <3>2, FS_Subset, FS_CardinalityType
    <3> QED BY <1>3, <3>1, <3>2, <3>3, <3>4
  <2>5. ASSUME NEW j \in DOMAIN ev'.arr, j >= p + 1
        PROVE  ev'.arr[j].num \notin round.sent
    <3>1. DOMAIN ev'.arr = 1 .. Len(ev'.arr)
      BY <2>1, SafeTypes, ForgetType, RegistryFields
    <3>2. j \in p .. Len(ev.arr) - 1 /\ j + 1 \in DOMAIN ev.arr /\ j + 1 >= p
      BY <1>1, <1>2, <2>2, <2>5, <3>1
    <3> QED BY <1>4, <2>2, <3>2 DEF Scan
  <2> QED BY <1>1, <1>7, <2>4, <2>5 DEF Scan, MissedBoundedByDrops
<1> QED BY <1>1, <1>6, <1>7

LEMMA LoseScan ==
  ASSUME SafeInv, Scan, NEW n \in Nums, Lose(n)
  PROVE  Scan'
<1>1. slots' = [slots EXCEPT ![n] = [slots[n] EXCEPT !.up = FALSE]]
      /\ ev' = ev /\ round' = round
  BY DEF Lose
<1>2. \A m \in Nums : slots'[m].up => slots[m].up
  BY <1>1, SafeTypes DEF Slot
<1>3. Missed' \subseteq Missed
  <2> SUFFICES ASSUME NEW j \in Missed' PROVE j \in Missed
    OBVIOUS
  <2>1. /\ j \in 1 .. round.i - 1 /\ j <= Len(ev.arr)
        /\ Flagged(ev, ev.arr[j].ip, round.ev) # {}
        /\ slots'[ev.arr[j].num].up /\ ev.arr[j].num \notin round.sent
    BY <1>1 DEF Missed, Flagged
  <2>2. ev.arr[j].num \in Nums
    <3>1. DOMAIN ev.arr = 1 .. Len(ev.arr) /\ Len(ev.arr) \in Nat
      BY SafeTypes, RegistryFields
    <3>2. j \in DOMAIN ev.arr
      BY <2>1, <3>1, MissedFinite
    <3> QED BY <3>2, SafeTypes, RegistryFields
  <2> QED BY <1>2, <2>1, <2>2 DEF Missed
<1>4. MissedBoundedByDrops'
  BY <1>1, <1>3, MissedFinite, FS_Subset, FS_CardinalityType DEF Scan, MissedBoundedByDrops
<1> QED BY <1>1, <1>4 DEF Scan, Flagged

LEMMA ScanStep ==
  ASSUME ~MidLoss, SafeInv, Scan, [Next]_vars
  PROVE  Scan'
<1>1. ASSUME NEW a \in IPs, Accept(a) PROVE Scan'
  BY <1>1, CalmScan DEF Accept, Turn
<1>2. ASSUME Skip PROVE Scan'
  BY <1>2, CalmScan DEF Skip
<1>3. ASSUME NEW n \in Nums, Visit(n) PROVE Scan'
  <2>1. CASE Reap(n) \/ Close(n)
    BY <2>1, CalmScan DEF Reap, Close, Turn
  <2>2. CASE Upgrade(n)
    <3>1. ~Busy
      BY <2>2 DEF Upgrade, UpgradeEvent, UpgradeProperty, UpgradeAction, UpgradeUnknown,
                  Upgrading, Turn
    <3>2. UNCHANGED round \/ \E j \in Actions, m \in {n, NoNum} : MayNotify(j, m)
      BY <2>2, OtherUpgradeKind DEF Upgrade, UpgradeEvent
    <3> QED BY <3>1, <3>2, CalmScan
  <2>3. ASSUME NEW m \in Messages, EventText(n, m) PROVE Scan'
    BY <2>3, CalmScan DEF EventText, Receiving, Turn
  <2>4. ASSUME NEW m \in Messages, ActionText(n, m) PROVE Scan'
    <3>1. ~Busy
      BY <2>4 DEF ActionText, Receiving, Turn
    <3> QED BY <2>4, <3>1, ActionTextKind, CalmScan
  <2>5. CASE InvalidText(n)
    BY <2>5, CalmScan DEF InvalidText, Receiving, Turn
  <2> QED BY <1>3, <2>1, <2>2, <2>3, <2>4, <2>5 DEF Visit, Text
<1>4. ASSUME NEW n \in Nums, Lose(n) PROVE Scan'
  BY <1>4, LoseScan
<1>5. ASSUME NEW action \in Actions, HttpAction(action) PROVE Scan'
  BY <1>5, CalmScan DEF HttpAction, Turn
<1>6. ASSUME Run PROVE Scan'
  <2>1. CASE EndRound
    <3>1. round' = Idle
      BY <2>1 DEF EndRound
    <3> QED BY <3>1, FreshScan DEF Idle
  <2> QED BY <1>6, <2>1, ScanAddressScan, NotifyScan DEF Run
<1>7. CASE UNCHANGED vars
  BY <1>7 DEF vars, Scan, MissedBoundedByDrops, Missed, Flagged
<1> QED BY <1>1, <1>2, <1>3, <1>4, <1>5, <1>6, <1>7 DEF Next

-------------------------------------------------------------------------------
(* The state of EventHub a state of the servient stands for.                *)
Sub  == [n \in Nums |-> SubscribedTo(n)]
Live == {n \in Nums : slots[n].up}

HubStep == [Hub!Next]_(Hub!vars)

LEMMA SubAt == \A n \in Nums : Sub[n] = SubscribedTo(n)
BY DEF Sub

LEMMA StaysSubscribed ==
  ASSUME NEW m, slots'[m].status = slots[m].status, view'[m] = view[m]
  PROVE  SubscribedTo(m)' = SubscribedTo(m)
BY DEF SubscribedTo, Subscribed

LEMMA SubChange ==
  ASSUME NEW n \in Nums, NEW x, SubscribedTo(n)' = x,
         \A m \in Nums \ {n} : slots'[m].status = slots[m].status /\ view'[m] = view[m]
  PROVE  Sub' = [Sub EXCEPT ![n] = x]
<1>1. \A m \in Nums \ {n} : SubscribedTo(m)' = SubscribedTo(m)
  BY StaysSubscribed
<1>2. Sub' = [m \in Nums |-> SubscribedTo(m)']
  BY DEF Sub
<1>3. [Sub EXCEPT ![n] = x] = [m \in Nums |-> IF m = n THEN x ELSE SubscribedTo(m)]
  BY DEF Sub
<1> QED BY <1>1, <1>2, <1>3

LEMMA SubStays ==
  ASSUME \A m \in Nums : SubscribedTo(m)' = SubscribedTo(m)
  PROVE  Sub' = Sub
BY DEF Sub

LEMMA SubSame ==
  ASSUME NEW n \in Nums, NEW x, Sub[n] = x
  PROVE  [Sub EXCEPT ![n] = x] = Sub
BY DEF Sub

LEMMA EndingHub ==
  ASSUME SafeInv, NEW n \in Nums, Ending(n)
  PROVE  Sub' = [Sub EXCEPT ![n] = 0] /\ Live' = Live \ {n}
<1>1. /\ slots'[n] = Free /\ view'[n] = NoView
      /\ \A m \in Nums \ {n} : slots'[m] = slots[m] /\ view'[m] = view[m]
  BY SafeTypes DEF Ending
<1>2. SubscribedTo(n)' = 0
  BY <1>1 DEF SubscribedTo, Subscribed, Free
<1>3. Live' = Live \ {n}
  BY <1>1 DEF Live, Free
<1> QED BY <1>1, <1>2, <1>3, SubChange

LEMMA EnteringHub ==
  ASSUME SafeInv, NEW n \in Nums, NEW a \in IPs, Entering(n, a)
  PROVE  Sub' = [Sub EXCEPT ![n] = 0] /\ Live' = Live \cup {n} /\ n \notin Live
<1>1. slots' = [slots EXCEPT ![n] = [status |-> "header", up |-> TRUE, ip |-> a]]
      /\ ~slots[n].up
  BY DEF Entering
<1>2. /\ slots'[n].status = "header" /\ slots'[n].up
      /\ \A m \in Nums \ {n} : slots'[m] = slots[m]
  BY <1>1, SafeTypes
<1>3. \A m \in Nums \ {n} : view'[m] = view[m]
  BY SafeTypes DEF Entering
<1>4. SubscribedTo(n)' = 0
  BY <1>2 DEF SubscribedTo, Subscribed
<1>5. Live' = Live \cup {n} /\ n \notin Live
  BY <1>1, <1>2 DEF Live
<1> QED BY <1>2, <1>3, <1>4, <1>5, SubChange

LEMMA OpeningHub ==
  ASSUME SafeInv, Told, NEW n \in Nums, Opening(n)
  PROVE  /\ Live' = Live /\ n \in Live /\ Sub[n] = 0
         /\ view' = view => Sub' = Sub
         /\ \A e \in Events : Joining(n, e) =>
              Sub' = [Sub EXCEPT ![n] = IF SubSchema[e] = NoSchema THEN e ELSE 0]
<1>1. /\ slots'[n].status = "open" /\ slots'[n].up /\ slots[n].up /\ slots[n].status = "header"
      /\ \A m \in Nums \ {n} : slots'[m] = slots[m]
      /\ view[n] = NoView
  BY OpeningSlots DEF Opening
<1>2. Live' = Live /\ n \in Live
  BY <1>1 DEF Live
<1>3. Sub[n] = 0
  BY <1>1, SubAt DEF SubscribedTo, Subscribed
<1>4. ASSUME view' = view PROVE Sub' = Sub
  <2>1. SubscribedTo(n)' = 0
    BY <1>1, <1>4 DEF SubscribedTo, Subscribed, NoView
  <2> QED BY <1>1, <1>3, <1>4, <2>1, SubChange, SubSame
<1>5. ASSUME NEW e \in Events, Joining(n, e)
      PROVE  Sub' = [Sub EXCEPT ![n] = IF SubSchema[e] = NoSchema THEN e ELSE 0]
  <2> DEFINE auto == SubSchema[e] = NoSchema
  <2>1. view'[n] = [ep |-> e, sub |-> auto] /\ \A m \in Nums \ {n} : view'[m] = view[m]
    BY <1>5, SafeTypes DEF Joining
  <2>2. auto \in BOOLEAN
    OBVIOUS
  <2> HIDE DEF auto
  <2>3. view'[n].ep = e /\ view'[n].sub = auto
    BY <2>1
  <2>4. Subscribed(n)' <=> auto
    BY <1>1, <2>3, <2>2 DEF Subscribed
  <2>5. SubscribedTo(n)' = IF auto THEN e ELSE 0
    <3>1. SubscribedTo(n)' = IF Subscribed(n)' THEN view'[n].ep ELSE 0
      BY DEF SubscribedTo
    <3> QED BY <2>3, <2>4, <3>1
  <2>6. Sub' = [Sub EXCEPT ![n] = IF auto THEN e ELSE 0]
    BY <1>1, <2>1, <2>5, SubChange
  <2> QED BY <2>6 DEF auto
<1> QED BY <1>2, <1>3, <1>4, <1>5

LEMMA TurningHub ==
  ASSUME SafeInv, Told, NEW n \in Nums, NEW i, NEW f, Turning(n, i, f)
  PROVE  /\ Live' = Live /\ n \in Live
         /\ \/ /\ Sub[n] = 0 /\ view[n].ep \in Events
               /\ Sub' = [Sub EXCEPT ![n] = view[n].ep]
            \/ Sub[n] # 0 /\ Sub' = [Sub EXCEPT ![n] = 0]
<1>1. view[n].ep \in Events /\ view[n].sub = ~f /\ f \in BOOLEAN
  BY TurningTold
<1>2. slots' = slots /\ slots[n].status = "open" /\ slots[n].up
      /\ view' = [view EXCEPT ![n] = [view[n] EXCEPT !.sub = f]]
  BY DEF Turning
<1>3. /\ view'[n].sub = f /\ view'[n].ep = view[n].ep
      /\ \A m \in Nums \ {n} : view'[m] = view[m]
  BY <1>2, SafeTypes DEF View
<1>4. Live' = Live /\ n \in Live
  BY <1>2 DEF Live
<1>5. CASE f
  <2>1. SubscribedTo(n) = 0 /\ SubscribedTo(n)' = view[n].ep
    BY <1>1, <1>2, <1>3, <1>5 DEF SubscribedTo, Subscribed
  <2> QED BY <1>1, <1>2, <1>3, <1>4, <2>1, SubAt, SubChange
<1>6. CASE ~f
  <2>0. view[n].sub /\ ~view'[n].sub
    BY <1>1, <1>3, <1>6
  <2>1. SubscribedTo(n) = view[n].ep /\ SubscribedTo(n)' = 0
    BY <1>2, <2>0 DEF SubscribedTo, Subscribed
  <2>2. view[n].ep # 0
    BY <1>1, Constants
  <2> QED BY <1>2, <1>3, <1>4, <2>1, <2>2, SubAt, SubChange
<1> QED BY <1>1, <1>5, <1>6

LEMMA QuietHub ==
  ASSUME UNCHANGED <<slots, view>>
  PROVE  Sub' = Sub /\ Live' = Live
BY DEF Sub, Live, SubscribedTo, Subscribed

(* The steps of EventHub, each from what it asks for.                       *)
LEMMA HubStutter ==
  ASSUME Sub' = Sub, Live' = Live, round'.ev = round.ev, round'.sent = round.sent,
         round'.drops = round.drops
  PROVE  HubStep
BY DEF HubStep, Hub!vars, Sub, Live

LEMMA HubConnect ==
  ASSUME NEW n \in Nums, ~Busy, n \notin Live, Live' = Live \cup {n},
         Sub' = [Sub EXCEPT ![n] = 0], round' = round
  PROVE  HubStep
<1>1. Hub!Connect(n)
  BY DEF Hub!Connect, Hub!Publishing, Busy, Sub, Live
<1> QED BY <1>1 DEF HubStep, Hub!Next

LEMMA HubSubscribe ==
  ASSUME NEW n \in Nums, NEW e \in Events, ~Busy, n \in Live, Sub[n] = 0, Live' = Live,
         Sub' = [Sub EXCEPT ![n] = e], round' = round
  PROVE  HubStep
<1>1. Hub!Subscribe(n, e)
  BY DEF Hub!Subscribe, Hub!Publishing, Busy, Sub, Live
<1> QED BY <1>1 DEF HubStep, Hub!Next

LEMMA HubCancel ==
  ASSUME NEW n \in Nums, ~Busy, Sub[n] # 0, Live' \in {Live, Live \ {n}},
         Sub' = [Sub EXCEPT ![n] = 0], round' = round
  PROVE  HubStep
<1>1. Hub!Cancel(n)
  BY DEF Hub!Cancel, Hub!Publishing, Busy, Sub, Live
<1> QED BY <1>1 DEF HubStep, Hub!Next

LEMMA HubLose ==
  ASSUME NEW n \in Nums, n \in Live, Live' = Live \ {n}, Sub' = Sub, round' = round
  PROVE  HubStep
<1>1. Hub!Lose(n)
  BY DEF Hub!Lose, Sub, Live
<1> QED BY <1>1 DEF HubStep, Hub!Next

LEMMA HubDeliver ==
  ASSUME NEW n \in Nums, Busy, n \in Live, Sub[n] = round.ev, n \notin round.sent,
         Sub' = Sub, Live' = Live, round'.ev = round.ev, round'.drops = round.drops,
         round'.sent = round.sent \cup {n}
  PROVE  HubStep
<1>1. Hub!Deliver(n)
  BY DEF Hub!Deliver, Hub!Publishing, Hub!Subscribers, Busy, Sub, Live
<1> QED BY <1>1 DEF HubStep, Hub!Next, Hub!Serve

LEMMA HubDrop ==
  ASSUME NEW n \in Nums, Busy, n \notin Live, Sub[n] = round.ev, n \notin round.sent,
         Sub' = [Sub EXCEPT ![n] = 0], Live' = Live, round'.ev = round.ev,
         round'.drops = round.drops + 1, round'.sent = round.sent
  PROVE  HubStep
<1>1. Hub!Drop(n)
  BY DEF Hub!Drop, Hub!Publishing, Hub!Subscribers, Busy, Sub, Live
<1> QED BY <1>1 DEF HubStep, Hub!Next, Hub!Serve

LEMMA HubCardinality == \A S : Hub!Cardinality(S) = Cardinality(S)
BY DEF Hub!Cardinality, Cardinality

LEMMA HubFinish ==
  ASSUME Busy, Sub' = Sub, Live' = Live, round' = Idle,
         Cardinality({n \in Nums : Sub[n] = round.ev /\ n \in Live /\ n \notin round.sent})
           <= round.drops
  PROVE  HubStep
<1>1. (Hub!Subscribers \cap Live) \ round.sent =
      {n \in Nums : Sub[n] = round.ev /\ n \in Live /\ n \notin round.sent}
  BY DEF Hub!Subscribers, Sub, Live
<1>2. round'.ev = 0 /\ round'.sent = {} /\ round'.drops = 0
  BY DEF Idle
<1>3. Hub!Cardinality((Hub!Subscribers \cap Live) \ round.sent) <= round.drops
  BY <1>1, HubCardinality
<1>4. Hub!Finish
  BY <1>2, <1>3 DEF Hub!Finish, Hub!Publishing, Busy, Sub, Live
<1> QED BY <1>4 DEF HubStep, Hub!Next, Hub!Serve

LEMMA CalmHub ==
  ASSUME SafeInv, ~Busy, Sub' = Sub, Live' = Live,
         UNCHANGED round \/ \E j \in Actions, m \in Nums \cup {NoNum} : MayNotify(j, m)
  PROVE  HubStep
<1>1. CASE UNCHANGED round
  BY <1>1, HubStutter
<1>2. ASSUME NEW j \in Actions, NEW m, Trigger[j] # 0,
             round' = [Idle EXCEPT !.ev = Trigger[j], !.i = 1, !.reply = m]
      PROVE  HubStep
  <2>1. Trigger[j] \in Events
    BY <1>2, ThingAssumption
  <2>2. round'.ev = Trigger[j] /\ round'.sent = {} /\ round'.drops = 0
    BY <1>2 DEF Idle
  <2>3. round.sent = {} /\ round.drops = 0
    BY IdleRound DEF Idle
  <2>4. Hub!Publish(Trigger[j])
    BY <2>2, <2>3 DEF Hub!Publish, Hub!Publishing, Busy, Sub, Live
  <2> QED BY <2>1, <2>4 DEF HubStep, Hub!Next
<1> QED BY <1>1, <1>2 DEF MayNotify

(* The end of a channel outside a round, of a subscriber or not.            *)
LEMMA CalmEnding ==
  ASSUME SafeInv, ~Busy, NEW n \in Nums, Ending(n), round' = round
  PROVE  HubStep
<1>1. Sub' = [Sub EXCEPT ![n] = 0] /\ Live' = Live \ {n}
  BY EndingHub
<1>2. CASE Sub[n] # 0
  BY <1>1, <1>2, HubCancel
<1>3. CASE Sub[n] = 0
  <2>1. Sub' = Sub
    BY <1>1, <1>3, SubSame
  <2>2. CASE n \in Live
    BY <1>1, <2>1, <2>2, HubLose
  <2>3. CASE n \notin Live
    <3>1. Live' = Live
      BY <1>1, <2>3
    <3> QED BY <2>1, <3>1, HubStutter
  <2> QED BY <2>2, <2>3
<1> QED BY <1>2, <1>3

-------------------------------------------------------------------------------
(* The invariant of the refinement: besides what was shown above, the slot  *)
(* whose request runs a round is no subscriber, so that its end, after the  *)
(* loop, takes no subscription with it.                                     *)
Answered == round.reply # NoNum => ~Subscribed(round.reply)

SoloInv == SafeInv /\ Told /\ Scan /\ Answered

LEMMA IdleAnswered ==
  ASSUME SafeInv, ~Busy, round' = round
  PROVE  Answered'
BY IdleRound DEF Answered, Idle

(* Who is recorded for an action subscribed to nothing.                     *)
LEMMA ActionChannel ==
  ASSUME SafeInv, Told, NEW n \in Nums, slots[n].status = "open", ia.doc[slots[n].ip] # << >>
  PROVE  ~view[n].sub
<1>1. /\ ia.num[slots[n].ip] \in Nums /\ IsOwner(ia, ia.num[slots[n].ip])
      /\ slots[ia.num[slots[n].ip]].status = "open"
      /\ slots[ia.num[slots[n].ip]].ip = slots[n].ip
  BY SafeTypes, DocOwner
<1>2. IsOwner(ia, n)
  BY <1>1 DEF Told, Alone
<1>3. view[n].sub => IsOwner(ev, n)
  BY SafeTypes, ToldOf DEF Told, Tells
<1> QED BY <1>2, <1>3, SafeTypes DEF Apart

LEMMA StartAnswered ==
  ASSUME SafeInv, ~Busy, NEW n \in Nums, ~view'[n].sub,
         UNCHANGED round \/ \E j \in Actions, m \in {n, NoNum} : MayNotify(j, m)
  PROVE  Answered'
<1>1. CASE UNCHANGED round
  BY <1>1, IdleAnswered
<1>2. ASSUME NEW j \in Actions, NEW m \in {n, NoNum},
             round' = [Idle EXCEPT !.ev = Trigger[j], !.i = 1, !.reply = m]
      PROVE  Answered'
  <2>1. round'.reply = m
    BY <1>2 DEF Idle
  <2> QED BY <2>1 DEF Answered, Subscribed
<1> QED BY <1>1, <1>2 DEF MayNotify

LEMMA EndingAnswered ==
  ASSUME SafeInv, Answered, NEW n \in Nums, Ending(n), round'.reply = round.reply,
         round.reply \in Nums \cup {NoNum}
  PROVE  Answered'
<1>1. /\ slots'[n] = Free
      /\ \A m \in Nums \ {n} : slots'[m] = slots[m] /\ view'[m] = view[m]
  BY SafeTypes DEF Ending
<1> QED BY <1>1 DEF Answered, Subscribed, Free

LEMMA ReplyType == SafeInv => round.reply \in Nums \cup {NoNum}
BY SafeTypes DEF Round, Idle

(* The subscribers the loop has not told when it ends.                      *)
LEMMA PassedOver ==
  ASSUME SafeInv, Told, Scan, EndRound
  PROVE  Cardinality({n \in Nums : Sub[n] = round.ev /\ n \in Live /\ n \notin round.sent})
           <= round.drops
<1> DEFINE P == {n \in Nums : Sub[n] = round.ev /\ n \in Live /\ n \notin round.sent}
           T == {ev.arr[k].num : k \in Missed}
           f == [k \in Missed |-> ev.arr[k].num]
<1>1. Busy /\ round.ev # 0 /\ round.i > Len(ev.arr)
  BY DEF EndRound, Busy
<1>2. P \subseteq T
  <2> SUFFICES ASSUME NEW n \in P PROVE n \in T
    OBVIOUS
  <2>1. Subscribed(n) /\ view[n].ep = round.ev /\ slots[n].up /\ n \notin round.sent
    BY <1>1, SubAt DEF SubscribedTo, Live
  <2>2. slots[n].status = "open" /\ view[n].sub
    BY <2>1 DEF Subscribed
  <2>3. /\ ev.doc[slots[n].ip] # << >>
        /\ \A i \in DOMAIN ev.doc[slots[n].ip] :
             /\ ev.doc[slots[n].ip][i].key = round.ev
             /\ ev.doc[slots[n].ip][i].flag
    BY <2>1, <2>2 DEF Told, Tells
  <2>4. Flagged(ev, slots[n].ip, round.ev) # {}
    <3>1. ev.doc[slots[n].ip] \in Seq(Entry(Events))
      BY SafeTypes, RegistryFields
    <3>2. 1 \in DOMAIN ev.doc[slots[n].ip]
      BY <2>3, <3>1
    <3> QED BY <2>3, <3>2 DEF Flagged
  <2>5. IsOwner(ev, n)
    BY <2>2, <2>3, SafeTypes, ToldOf
  <2>6. PICK k \in DOMAIN ev.arr : ev.arr[k].num = n
    BY <2>5 DEF IsOwner
  <2>7. ev.arr[k].ip = slots[n].ip
    BY <2>6, SafeTypes DEF Owned
  <2>8. k \in 1 .. Len(ev.arr) /\ Len(ev.arr) \in Nat
    BY SafeTypes, RegistryFields
  <2>9. k \in Missed
    BY <1>1, <2>1, <2>4, <2>6, <2>7, <2>8, MissedFinite DEF Missed
  <2> QED BY <2>6, <2>9
<1>3. f \in Surjection(Missed, T)
  BY DEF Surjection
<1> HIDE DEF P, T, f
<1>4. IsFiniteSet(T) /\ Cardinality(T) <= Cardinality(Missed)
  BY <1>3, MissedFinite, FS_Surjection
<1>5. Cardinality(P) <= Cardinality(T)
  BY <1>2, <1>4, FS_Subset
<1>6. Cardinality(P) \in Nat /\ Cardinality(T) \in Nat
  BY <1>2, <1>4, FS_Subset, FS_CardinalityType
<1>7. Cardinality(P) <= round.drops
  BY <1>4, <1>5, <1>6, MissedFinite DEF Scan, MissedBoundedByDrops
<1> QED BY <1>7 DEF P

(* The consumer a notification is due for.                                  *)
LEMMA DueSubscriber ==
  ASSUME SafeInv, Told, Scan, Notify, NEW n, n = ev.arr[round.i].num
  PROVE  n \in Nums /\ Subscribed(n) /\ view[n].ep = round.ev
<1>1. /\ n \in Nums /\ slots[n].status = "open" /\ slots[n].ip = round.ip
  BY NotifyKind
<1>2. round.left > 0
  BY DEF Notify
<1>3. PICK i \in DOMAIN ev.doc[round.ip] :
        ev.doc[round.ip][i].key = round.ev /\ ev.doc[round.ip][i].flag
  BY <1>2 DEF Scan, Flagged
<1>4. \A k \in DOMAIN ev.doc[round.ip] :
        ev.doc[round.ip][k].key = view[n].ep /\ ev.doc[round.ip][k].flag = view[n].sub
  BY ZenonT(40), <1>1 DEF Told, Tells
<1>5. view[n].ep = round.ev
  BY <1>3, <1>4
<1>6. view[n].sub
  <2>1. view[n].sub = ev.doc[round.ip][i].flag
    BY <1>4
  <2> QED BY <1>3, <2>1, Zenon
<1> QED BY <1>1, <1>5, <1>6 DEF Subscribed

LEMMA NotifySolo ==
  ASSUME SoloInv, Notify
  PROVE  Told' /\ Answered' /\ HubStep
<1> DEFINE n == ev.arr[round.i].num
<1> USE DEF SoloInv
<1>1. /\ n \in Nums /\ round.i \in DOMAIN ev.arr /\ round.i \in Nat \ {0}
      /\ round'.ev = round.ev /\ round'.reply = round.reply /\ round.ev \in Events
      /\ \/ /\ slots[n].up /\ UNCHANGED <<slots, ev, view>>
            /\ round'.sent = round.sent \cup {n} /\ round'.drops = round.drops
         \/ /\ ~slots[n].up /\ Ending(n)
            /\ round'.sent = round.sent /\ round'.drops = round.drops + 1
  BY NotifyKind
<1>2. Subscribed(n) /\ view[n].ep = round.ev
  BY DueSubscriber
<1>3. n \notin round.sent
  BY <1>1 DEF Scan
<1>4. Sub[n] = round.ev /\ Busy
  BY <1>1, <1>2, SubAt DEF SubscribedTo, Notify
<1> HIDE DEF n
<1>5. CASE /\ slots[n].up /\ UNCHANGED <<slots, ev, view>>
           /\ round'.sent = round.sent \cup {n} /\ round'.drops = round.drops
  <2>1. Sub' = Sub /\ Live' = Live /\ n \in Live
    BY <1>1, <1>5, QuietHub DEF Live
  <2>2. HubStep
    BY <1>1, <1>3, <1>4, <1>5, <2>1, HubDeliver
  <2>3. Answered'
    BY <1>1, <1>5 DEF Answered, Subscribed
  <2> QED BY <1>5, <2>2, <2>3, QuietTold
<1>6. CASE /\ ~slots[n].up /\ Ending(n)
           /\ round'.sent = round.sent /\ round'.drops = round.drops + 1
  <2>1. Sub' = [Sub EXCEPT ![n] = 0] /\ Live' = Live /\ n \notin Live
    BY <1>1, <1>6, EndingHub DEF Live
  <2>2. HubStep
    BY <1>1, <1>3, <1>4, <1>6, <2>1, HubDrop
  <2> QED BY <1>1, <1>6, <2>2, EndingTold, EndingAnswered, ReplyType
<1> QED BY <1>1, <1>5, <1>6

LEMMA EndRoundSolo ==
  ASSUME SoloInv, EndRound
  PROVE  Told' /\ Answered' /\ HubStep
<1> USE DEF SoloInv
<1> DEFINE n    == round.reply
           lost == n # NoNum /\ slots[n].status # "free" /\ ~slots[n].up
<1>1. Become(IF lost THEN Disconnect(Now, n) ELSE Now) /\ round' = Idle /\ Busy
  BY DEF EndRound
<1>2. Answered'
  BY <1>1 DEF Answered, Idle
<1>3. lost => n \in Nums /\ n \notin Live /\ ~Subscribed(n)
  BY ReplyType DEF Live, Answered
<1> HIDE DEF lost, n
<1>4. CASE lost
  <2>1. Ending(n) /\ n \in Nums
    BY <1>1, <1>3, <1>4, EndingKind
  <2>2. Sub[n] = 0
    BY <1>3, <1>4, <2>1, SubAt DEF SubscribedTo
  <2>3. Sub' = Sub /\ Live' = Live
    BY <1>3, <1>4, <2>1, <2>2, EndingHub, SubSame
  <2> QED BY <1>1, <1>2, <2>1, <2>3, EndingTold, PassedOver, HubFinish
<1>5. CASE ~lost
  <2>1. Become(Now)
    BY <1>1, <1>5
  <2>2. UNCHANGED <<slots, ev, view>>
    BY <2>1 DEF Become, Now
  <2> QED BY <1>1, <1>2, <2>2, QuietTold, QuietHub, PassedOver, HubFinish
<1> QED BY <1>4, <1>5

LEMMA VisitSolo ==
  ASSUME ~MidLoss, SoloInv, NEW n \in Nums, Visit(n)
  PROVE  Told' /\ Answered' /\ HubStep
<1> USE DEF SoloInv
<1>1. CASE Reap(n) \/ Close(n)
  <2>1. Ending(n) /\ ~Busy /\ round' = round
    BY <1>1, EndingKind DEF Reap, Close, Turn
  <2> QED BY <2>1, EndingTold, IdleAnswered, CalmEnding
<1>2. CASE UpgradeEvent(n)
  <2>1. ~Busy /\ round' = round
    BY <1>2 DEF UpgradeEvent, Upgrading, Turn
  <2>2. PICK e \in Events : Opening(n) /\ (HasKey(ev, slots[n].ip, e) \/ Joining(n, e))
    BY <1>2, UpgradeEventKind
  <2>3. ~HasKey(ev, slots[n].ip, e)
    BY <2>2, OpeningSlots DEF HasKey
  <2>4. Joining(n, e)
    BY <2>2, <2>3
  <2>5. HubStep
    <3>1. /\ Live' = Live /\ n \in Live /\ Sub[n] = 0
          /\ Sub' = [Sub EXCEPT ![n] = IF SubSchema[e] = NoSchema THEN e ELSE 0]
      BY <2>2, <2>4, OpeningHub
    <3>2. CASE SubSchema[e] = NoSchema
      BY <2>1, <3>1, <3>2, HubSubscribe
    <3>3. CASE SubSchema[e] # NoSchema
      <4>1. Sub' = Sub
        BY <3>1, <3>3, SubSame
      <4> QED BY <2>1, <3>1, <4>1, HubStutter
    <3> QED BY <3>2, <3>3
  <2> QED BY <2>1, <2>2, <2>4, <2>5, JoiningTold, IdleAnswered
<1>3. CASE UpgradeProperty(n) \/ UpgradeAction(n) \/ UpgradeUnknown(n)
  <2>1. ~Busy
    BY <1>3 DEF UpgradeProperty, UpgradeAction, UpgradeUnknown, Upgrading, Turn
  <2>2. /\ Opening(n) /\ ev' = ev /\ view' = view
        /\ UNCHANGED round \/ \E j \in Actions, m \in {n, NoNum} : MayNotify(j, m)
    BY <1>3, OtherUpgradeKind
  <2>3. ~view'[n].sub
    BY <2>2, OpeningSlots DEF NoView
  <2>4. Sub' = Sub /\ Live' = Live
    BY <2>2, OpeningHub
  <2> QED BY <2>1, <2>2, <2>3, <2>4, OpeningTold, StartAnswered, CalmHub
<1>4. ASSUME NEW m \in Messages, EventText(n, m) PROVE Told' /\ Answered' /\ HubStep
  <2>1. ~Busy /\ round' = round
    BY <1>4 DEF EventText, Receiving, Turn
  <2>2. CASE UNCHANGED <<slots, ev, view>>
    BY <2>1, <2>2, QuietTold, IdleAnswered, QuietHub, HubStutter
  <2>3. ASSUME NEW i, NEW f, Turning(n, i, f) PROVE Told' /\ Answered' /\ HubStep
    <3>1. /\ Live' = Live /\ n \in Live
          /\ \/ /\ Sub[n] = 0 /\ view[n].ep \in Events
                /\ Sub' = [Sub EXCEPT ![n] = view[n].ep]
             \/ Sub[n] # 0 /\ Sub' = [Sub EXCEPT ![n] = 0]
      BY <2>3, TurningHub
    <3>2. HubStep
      BY <2>1, <3>1, HubSubscribe, HubCancel
    <3> QED BY <2>1, <2>3, <3>2, TurningTold, IdleAnswered
  <2> QED BY <1>4, <2>2, <2>3, EventTextKind
<1>5. ASSUME NEW m \in Messages, ActionText(n, m) PROVE Told' /\ Answered' /\ HubStep
  <2>1. ~Busy /\ slots[n].status = "open"
    BY <1>5 DEF ActionText, Receiving, Turn
  <2>2. /\ UNCHANGED <<slots, ev, view>> /\ ia.doc[slots[n].ip] # << >>
        /\ \E j \in Actions : MayNotify(j, n)
    BY <1>5, ActionTextKind
  <2>3. ~view'[n].sub
    BY <2>1, <2>2, ActionChannel
  <2> QED BY <2>1, <2>2, <2>3, QuietTold, QuietHub, StartAnswered, CalmHub
<1>6. CASE InvalidText(n)
  BY <1>6, NoLoss DEF InvalidText
<1> QED BY <1>1, <1>2, <1>3, <1>4, <1>5, <1>6 DEF Visit, Upgrade, Text

LEMMA SoloStep ==
  ASSUME ~MidLoss, MaxPerIP = 1, SoloInv, [Next]_vars
  PROVE  SoloInv' /\ HubStep
<1> USE DEF SoloInv
<1>0. SafeInv' /\ Scan'
  BY SafeStep, ScanStep
<1>1. SUFFICES Told' /\ Answered' /\ HubStep
  BY <1>0
<1>2. ASSUME NEW a \in IPs, Accept(a) PROVE Told' /\ Answered' /\ HubStep
  <2>1. PICK n \in Nums : Entering(n, a)
    BY <1>2, AcceptKind
  <2>2. ~Busy /\ round' = round /\ SlotsOf(a) = {}
    BY <1>2, NoneOf DEF Accept, Turn
  <2>3. HubStep
    BY <2>1, <2>2, EnteringHub, HubConnect
  <2> QED BY <2>1, <2>2, <2>3, EnteringTold, IdleAnswered
<1>3. ASSUME UNCHANGED <<slots, ev, view, round>> PROVE Told' /\ Answered' /\ HubStep
  <2>1. Answered'
    BY <1>3 DEF Answered, Subscribed
  <2> QED BY <1>3, <2>1, QuietTold, QuietHub, HubStutter
<1>4. ASSUME NEW n \in Nums, Lose(n) PROVE Told' /\ Answered' /\ HubStep
  <2>1. slots' = [slots EXCEPT ![n] = [slots[n] EXCEPT !.up = FALSE]] /\ slots[n].up
        /\ view' = view /\ round' = round
    BY <1>4 DEF Lose
  <2>2. \A m \in Nums : slots'[m].status = slots[m].status
    BY <2>1, SafeTypes DEF Slot
  <2>3. Sub' = Sub
    BY <2>1, <2>2, StaysSubscribed, SubStays
  <2>4. Live' = Live \ {n} /\ n \in Live
    BY <2>1, SafeTypes DEF Live, Slot
  <2>5. Answered'
    BY <2>1, <2>2, ReplyType DEF Answered, Subscribed
  <2> QED BY <1>4, <2>1, <2>3, <2>4, <2>5, LoseTold, HubLose
<1>5. ASSUME NEW action \in Actions, HttpAction(action) PROVE Told' /\ Answered' /\ HubStep
  <2>1. ~Busy /\ MayNotify(action, NoNum) /\ UNCHANGED <<slots, ev, view>>
    BY <1>5 DEF HttpAction, Turn
  <2>2. Answered'
    <3>1. UNCHANGED round \/ round'.reply = NoNum
      BY <2>1 DEF MayNotify, Idle
    <3> QED BY <2>1, <3>1, IdleAnswered DEF Answered
  <2> QED BY <2>1, <2>2, QuietTold, QuietHub, CalmHub
<1>6. ASSUME ScanAddress PROVE Told' /\ Answered' /\ HubStep
  <2>1. UNCHANGED <<slots, ev, view>> /\ round \in Round
    BY <1>6, RoundFields, SafeTypes DEF ScanAddress
  <2>2. /\ round'.ev = round.ev /\ round'.sent = round.sent
        /\ round'.drops = round.drops /\ round'.reply = round.reply
    BY <1>6, <2>1 DEF ScanAddress, Round
  <2>3. Answered'
    BY <2>1, <2>2 DEF Answered, Subscribed
  <2> QED BY <2>1, <2>2, <2>3, QuietTold, QuietHub, HubStutter
<1>7. CASE Skip \/ UNCHANGED vars
  BY <1>3, <1>7 DEF Skip, vars
<1> QED BY <1>2, <1>4, <1>5, <1>6, <1>7, VisitSolo, NotifySolo, EndRoundSolo DEF Next, Run

LEMMA SoloInit == Init => SoloInv /\ Hub!Init
<1> SUFFICES ASSUME Init PROVE SoloInv /\ Hub!Init
  OBVIOUS
<1>1. slots = [n \in Nums |-> Free] /\ view = [n \in Nums |-> NoView] /\ round = Idle
  BY DEF Init
<1>2. Told
  BY <1>1 DEF Told, Alone, Tells, Free
<1>3. Scan
  <2>1. Missed = {}
    BY <1>1 DEF Missed, Idle
  <2> QED BY <1>1, <2>1, FS_EmptySet DEF Scan, MissedBoundedByDrops, Idle
<1>4. Answered
  BY <1>1 DEF Answered, Idle
<1>5. \A n \in Nums : SubscribedTo(n) = 0 /\ ~slots[n].up
  BY <1>1 DEF SubscribedTo, Subscribed, Free
<1>6. Hub!Init
  BY <1>1, <1>5 DEF Hub!Init, Idle
<1> QED BY <1>2, <1>3, <1>4, <1>6, SafeInit DEF SoloInv

LEMMA SoloAlways ==
  ASSUME ~MidLoss, MaxPerIP = 1
  PROVE  Spec => []SoloInv
<1>1. SoloInv /\ [Next]_vars => SoloInv'
  BY SoloStep
<1> QED BY SoloInit, <1>1, PTL DEF Spec

-------------------------------------------------------------------------------
(* The loop over ipe_arr passes over at most one live subscriber for each   *)
(* connection it finds lost, however many channels an address holds.        *)
THEOREM MissedAreBounded ==
  ASSUME ~MidLoss
  PROVE  Spec => []MissedBoundedByDrops
<1>1. Init => SafeInv /\ Scan
  BY SoloInit DEF SoloInv
<1>2. SafeInv /\ Scan /\ [Next]_vars => (SafeInv /\ Scan)'
  BY SafeStep, ScanStep
<1>3. SafeInv /\ Scan => MissedBoundedByDrops
  BY DEF Scan
<1> QED BY <1>1, <1>2, <1>3, PTL DEF Spec

(* Every event object belongs to a channel still open at that endpoint.     *)
THEOREM EntriesAreFresh ==
  ASSUME ~MidLoss, MaxPerIP = 1
  PROVE  Spec => []NoStaleEntries
<1>1. ASSUME SoloInv PROVE NoStaleEntries
  <2> SUFFICES ASSUME NEW a \in Addr, NEW i \in DOMAIN ev.doc[a]
               PROVE  \E n \in Nums : /\ slots[n].status = "open" /\ slots[n].ip = a
                                     /\ view[n].ep = ev.doc[a][i].key
    BY DEF NoStaleEntries
  <2>1. ev.doc[a] # << >>
    OBVIOUS
  <2> DEFINE n == ev.num[a]
  <2>2. n \in Nums /\ slots[n].status = "open" /\ slots[n].ip = a
    BY <1>1, <2>1, SafeTypes, DocOwner DEF SoloInv
  <2> HIDE DEF n
  <2>3. view[n].ep = ev.doc[a][i].key
    BY <1>1, <2>2 DEF SoloInv, Told, Tells
  <2> QED BY <2>2, <2>3
<1> QED BY <1>1, SoloAlways, PTL

(* A consumer that was told it is subscribed is the one notifications of    *)
(* its event go to.                                                         *)
THEOREM SubscribersAreRouted ==
  ASSUME ~MidLoss, MaxPerIP = 1
  PROVE  Spec => []SubscriberIsRouted
<1>1. ASSUME SoloInv PROVE SubscriberIsRouted
  <2> SUFFICES ASSUME NEW n \in Nums, Subscribed(n)
               PROVE  /\ Flagged(ev, slots[n].ip, view[n].ep) # {}
                      /\ ev.num[slots[n].ip] = n
    BY DEF SubscriberIsRouted
  <2>1. slots[n].status = "open" /\ view[n].sub /\ slots[n].ip \in Addr
    BY <1>1, SafeTypes DEF Subscribed, SoloInv
  <2>2. /\ ev.doc[slots[n].ip] # << >>
        /\ \A i \in DOMAIN ev.doc[slots[n].ip] :
             /\ ev.doc[slots[n].ip][i].key = view[n].ep
             /\ ev.doc[slots[n].ip][i].flag
    BY <1>1, <2>1 DEF SoloInv, Told, Tells
  <2>3. 1 \in DOMAIN ev.doc[slots[n].ip]
    <3>1. ev.doc[slots[n].ip] \in Seq(Entry(Events))
      BY <1>1, <2>1, SafeTypes, RegistryFields DEF SoloInv
    <3> QED BY <2>2, <3>1
  <2>4. Flagged(ev, slots[n].ip, view[n].ep) # {}
    BY <2>2, <2>3 DEF Flagged
  <2>5. ev.num[slots[n].ip] = n
    BY <1>1, <2>1, <2>2, ToldOf DEF SoloInv
  <2> QED BY <2>4, <2>5
<1> QED BY <1>1, SoloAlways, PTL

(* A notification reaches only a channel whose consumer subscribed to that  *)
(* event and did not cancel.                                                *)
THEOREM OnlySubscribersNotified ==
  ASSUME ~MidLoss, MaxPerIP = 1
  PROVE  Spec => NotifiedIsSubscriber
<1> DEFINE Step == \A n \in round'.sent \ round.sent : Subscribed(n) /\ view[n].ep = round.ev
<1>1. ASSUME SoloInv, [Next]_vars PROVE Step
  <2>1. CASE Notify
    <3> DEFINE n == ev.arr[round.i].num
    <3>1. round'.sent = round.sent \cup {n} \/ round'.sent = round.sent
      BY <1>1, <2>1, NotifyKind DEF SoloInv
    <3>2. Subscribed(n) /\ view[n].ep = round.ev
      BY <1>1, <2>1, DueSubscriber DEF SoloInv
    <3> HIDE DEF n
    <3> QED BY <3>1, <3>2
  <2>2. CASE ~Notify
    <3>1. round'.sent = {} \/ round'.sent = round.sent
      <4>1. CASE ScanAddress
        <5>1. round \in Round
          BY <1>1, <4>1, RoundFields, SafeTypes DEF SoloInv, ScanAddress
        <5> QED BY <4>1, <5>1 DEF ScanAddress, Round
      <4>2. CASE EndRound
        BY <4>2 DEF EndRound, Idle
      <4>3. ASSUME NEW j, NEW m, MayNotify(j, m) PROVE round'.sent = {} \/ round' = round
        BY <4>3 DEF MayNotify, Idle
      <4>4. ASSUME NEW n \in Nums, Visit(n) \/ Lose(n) PROVE round'.sent = {} \/ round' = round
        <5>1. round' = round \/ \E j, m : MayNotify(j, m)
          <6>1. ASSUME NEW loss \in Losses, UpgradeAction(n), NEW j,
                       ConnectAction(Opened(n, loss), n, AddressOf(n, loss), j, loss)
                PROVE  round' = round \/ MayNotify(j, n)
            BY <6>1 DEF ConnectAction
          <6>2. ASSUME NEW msg \in Messages, ActionText(n, msg)
                PROVE  round' = round \/ \E j, m : MayNotify(j, m)
            <7>1. \E loss \in Losses : \E j :
                    IF loss = "send" THEN UNCHANGED round ELSE MayNotify(j, n)
              BY <6>2 DEF ActionText
            <7> QED BY <7>1
          <6> QED BY <4>4, <6>1, <6>2 DEF Visit, Reap, Close, Upgrade, UpgradeEvent,
                 UpgradeProperty, UpgradeAction, UpgradeUnknown, Text, EventText, InvalidText,
                 Lose
        <5> QED BY <4>3, <5>1
      <4>5. ASSUME \E a \in IPs : Accept(a) PROVE round' = round
        BY <4>5 DEF Accept
      <4>6. ASSUME Skip \/ UNCHANGED vars PROVE round' = round
        BY <4>6 DEF Skip, vars
      <4>7. ASSUME NEW action, HttpAction(action) PROVE round'.sent = {} \/ round' = round
        BY <4>3, <4>7 DEF HttpAction
      <4> QED BY <1>1, <2>2, <4>1, <4>2, <4>4, <4>5, <4>6, <4>7 DEF Next, Run
    <3> QED BY <3>1
  <2> QED BY <2>1, <2>2
<1>2. SoloInv /\ [Next]_vars => [Step]_vars
  BY <1>1
<1> QED BY SoloAlways, <1>2, PTL DEF Spec, NotifiedIsSubscriber

(* The safety part of ImplementsHub: every behaviour of the servient is one *)
(* of EventHub, each step a step of it or none.                             *)
THEOREM RefinesHub ==
  ASSUME ~MidLoss, MaxPerIP = 1
  PROVE  Spec => Hub!Init /\ [][Hub!Next]_(Hub!vars)
<1>1. Init => Hub!Init
  BY SoloInit
<1>2. SoloInv /\ [Next]_vars => [Hub!Next]_(Hub!vars)
  BY SoloStep DEF HubStep
<1> QED BY <1>1, <1>2, SoloAlways, PTL DEF Spec
===============================================================================
