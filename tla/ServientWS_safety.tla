-------------------------- MODULE ServientWS_safety --------------------------
(* The servient's safety when a connection is noticed lost only between     *)
(* handlers or inside a round (~MidLoss): who owns a registration, one      *)
(* object per address and name, the route of every notification, and what   *)
(* erases a subscription or a served request.                               *)
EXTENDS ServientWS_proofs

(* The sockets recorded in r are distinct, open, and of the right address.  *)
Owned(r, sl) ==
  /\ OwnersDistinct(r)
  /\ \A i \in DOMAIN r.arr : /\ sl[r.arr[i].num].status = "open"
                             /\ sl[r.arr[i].num].ip = r.arr[i].ip

Apart(r1, r2) == \A n \in Nums : ~(IsOwner(r1, n) /\ IsOwner(r2, n))

(* What every handler may rely on and must keep.                            *)
Sound(S) ==
  /\ Good(S)
  /\ Owned(S.ev, S.slots) /\ Owned(S.ia, S.slots) /\ Apart(S.ev, S.ia)
  /\ OneEntryPerKey(S.ev) /\ OneEntryPerKey(S.ia)

(* A notification that is due has a route, and at most one is due for an    *)
(* address.                                                                 *)
Routed == round.left <= 1 /\ RouteDefined

SafeInv == Inv /\ OwnersOpen /\ NoDoubleEntries /\ Routed

LEMMA NowSound == SafeInv => Sound(Now)
<1> SUFFICES ASSUME SafeInv PROVE Sound(Now)
  OBVIOUS
<1>1. Good(Now)
  BY NowGood DEF SafeInv
<1>2. Now.slots = slots /\ Now.ev = ev /\ Now.ia = ia
  BY DEF Now
<1>3. Owned(ev, slots) /\ Owned(ia, slots) /\ Apart(ev, ia)
  BY DEF SafeInv, OwnersOpen, Owned, Apart
<1> QED BY <1>1, <1>2, <1>3 DEF Sound, SafeInv, NoDoubleEntries

LEMMA BecomeSound ==
  ASSUME NEW S, Sound(S), Become(S)
  PROVE  OwnersOpen' /\ NoDoubleEntries'
<1>1. slots' = S.slots /\ ev' = S.ev /\ ia' = S.ia
  BY DEF Become
<1>2. Owned(ev', slots') /\ Owned(ia', slots') /\ Apart(ev', ia')
  BY <1>1 DEF Sound
<1>3. OwnersOpen'
  BY <1>2 DEF OwnersOpen, Owned, Apart, OwnersDistinct, IsOwner
<1>4. NoDoubleEntries'
  BY <1>1 DEF Sound, NoDoubleEntries, OneEntryPerKey
<1> QED BY <1>3, <1>4

(* The objects of an address after the operations on a registry.            *)
LEMMA ForgetOneEntry ==
  ASSUME NEW K, NEW r \in Registry(K), NEW n, OneEntryPerKey(r)
  PROVE  OneEntryPerKey(Forget(r, n))
<1>1. CASE ~IsOwner(r, n)
  BY <1>1 DEF Forget
<1>2. CASE IsOwner(r, n)
  <2> DEFINE a == r.arr[StopsAt(r, n)].ip
  <2>1. Forget(r, n).doc = [r.doc EXCEPT ![a] = << >>]
    BY <1>2 DEF Forget
  <2>2. r.doc \in [Addr -> Seq(Entry(K))]
    BY RegistryFields
  <2> HIDE DEF a
  <2>3. \A b \in Addr : Forget(r, n).doc[b] = IF b = a THEN << >> ELSE r.doc[b]
    BY <2>1, <2>2
  <2> QED BY <2>3 DEF OneEntryPerKey
<1> QED BY <1>1, <1>2

LEMMA RecordOneEntry ==
  ASSUME NEW K, NEW r \in Registry(K), NEW a \in Addr, NEW n \in Nums, NEW entry \in Entry(K),
         OneEntryPerKey(r), ~HasKey(r, a, entry.key)
  PROVE  OneEntryPerKey(Record(r, a, n, entry))
<1> DEFINE f == Record(r, a, n, entry)
           s == r.doc[a]
<1>1. s \in Seq(Entry(K)) /\ r.doc \in [Addr -> Seq(Entry(K))]
  BY RegistryFields
<1>2. f.doc = [r.doc EXCEPT ![a] = Append(s, entry)]
  BY <1>1 DEF Record
<1>3. /\ Append(s, entry) \in Seq(Entry(K))
      /\ Len(Append(s, entry)) = Len(s) + 1
      /\ \A i \in 1 .. Len(s) : Append(s, entry)[i] = s[i]
      /\ Append(s, entry)[Len(s) + 1] = entry
  BY <1>1, AppendProperties
<1>4. DOMAIN Append(s, entry) = 1 .. Len(s) + 1 /\ DOMAIN s = 1 .. Len(s) /\ Len(s) \in Nat
  BY <1>1, <1>3
<1>5. \A i \in DOMAIN s : s[i].key # entry.key
  BY DEF HasKey
<1>6. \A i, j \in DOMAIN s : s[i].key = s[j].key => i = j
  BY DEF OneEntryPerKey
<1>7. f.doc[a] = Append(s, entry) /\ \A b \in Addr \ {a} : f.doc[b] = r.doc[b]
  BY <1>1, <1>2
<1> HIDE DEF f, s
<1>8. ASSUME NEW i \in DOMAIN f.doc[a], NEW j \in DOMAIN f.doc[a],
             f.doc[a][i].key = f.doc[a][j].key
      PROVE  i = j
  <2>1. \A h \in DOMAIN f.doc[a] : \/ h \in DOMAIN s /\ f.doc[a][h] = s[h]
                                   \/ h = Len(s) + 1 /\ f.doc[a][h] = entry
    BY <1>3, <1>4, <1>7
  <2> QED BY <1>5, <1>6, <1>8, <2>1
<1>9. \A b \in Addr \ {a} : \A i, j \in DOMAIN f.doc[b] :
        f.doc[b][i].key = f.doc[b][j].key => i = j
  BY <1>7 DEF OneEntryPerKey
<1> QED BY <1>8, <1>9 DEF OneEntryPerKey, f

LEMMA SetFlagOneEntry ==
  ASSUME NEW K, NEW r \in Registry(K), NEW a \in Addr, NEW i \in DOMAIN r.doc[a],
         NEW flag \in BOOLEAN, OneEntryPerKey(r)
  PROVE  OneEntryPerKey(SetFlag(r, a, i, flag))
<1> DEFINE f == SetFlag(r, a, i, flag)
<1>1. r.doc[a] \in Seq(Entry(K)) /\ r.doc \in [Addr -> Seq(Entry(K))]
  BY RegistryFields
<1>2. r.doc[a][i] \in Entry(K)
  BY <1>1, ElementOfSeq
<1>3. f.doc = [r.doc EXCEPT ![a] = [r.doc[a] EXCEPT ![i] = [r.doc[a][i] EXCEPT !.flag = flag]]]
  BY DEF SetFlag, Registry
<1>4. \A b \in Addr : DOMAIN f.doc[b] = DOMAIN r.doc[b]
  BY <1>1, <1>3
<1>5. \A b \in Addr : \A j \in DOMAIN r.doc[b] : f.doc[b][j].key = r.doc[b][j].key
  BY <1>1, <1>2, <1>3 DEF Entry
<1> HIDE DEF f
<1> QED BY <1>4, <1>5 DEF OneEntryPerKey, f

-------------------------------------------------------------------------------
(* What the calls inside a handler keep.                                    *)
LEMMA NotOpenNotOwner ==
  ASSUME NEW S, Sound(S), NEW n \in Nums, S.slots[n].status # "open"
  PROVE  ~IsOwner(S.ev, n) /\ ~IsOwner(S.ia, n)
BY DEF Sound, Owned, IsOwner

LEMMA DisconnectSound ==
  ASSUME NEW S, Sound(S), NEW n \in Nums
  PROVE  Sound(Disconnect(S, n))
<1> DEFINE D == Disconnect(S, n)
<1>1. Good(D)
  BY DisconnectGood DEF Sound
<1>2. /\ S.ev \in Registry(Events) /\ S.ia \in Registry(Requests)
      /\ S.slots \in [Nums -> Slot]
  BY DEF Sound, Good, State
<1>3. /\ D.ev = Forget(S.ev, n)
      /\ D.ia = IF IsOwner(S.ev, n) THEN S.ia ELSE Forget(S.ia, n)
      /\ D.slots = [S.slots EXCEPT ![n] = Free]
  BY DEF Disconnect
<1>4. /\ OwnersDistinct(Forget(S.ev, n)) /\ ~IsOwner(Forget(S.ev, n), n)
      /\ \A i \in DOMAIN Forget(S.ev, n).arr : \E j \in DOMAIN S.ev.arr :
           Forget(S.ev, n).arr[i] = S.ev.arr[j]
  BY <1>2, ForgetOwners DEF Sound, Owned
<1>5. /\ OwnersDistinct(D.ia) /\ ~IsOwner(D.ia, n)
      /\ \A i \in DOMAIN D.ia.arr : \E j \in DOMAIN S.ia.arr : D.ia.arr[i] = S.ia.arr[j]
  <2>1. CASE IsOwner(S.ev, n)
    BY <1>3, <2>1 DEF Sound, Owned, Apart
  <2>2. CASE ~IsOwner(S.ev, n)
    BY <1>2, <1>3, <2>2, ForgetOwners DEF Sound, Owned
  <2> QED BY <2>1, <2>2
<1>6. OneEntryPerKey(D.ev) /\ OneEntryPerKey(D.ia)
  BY <1>2, <1>3, ForgetOneEntry DEF Sound
<1>7. D.ev \in Registry(Events) /\ D.ia \in Registry(Requests)
  BY <1>1 DEF Good, State
<1> HIDE DEF D
<1>8. ASSUME NEW K, NEW r \in Registry(K), NEW d \in Registry(K), Owned(r, S.slots),
             OwnersDistinct(d), ~IsOwner(d, n),
             \A i \in DOMAIN d.arr : \E j \in DOMAIN r.arr : d.arr[i] = r.arr[j]
      PROVE  Owned(d, D.slots)
  <2> SUFFICES ASSUME NEW i \in DOMAIN d.arr
               PROVE  /\ D.slots[d.arr[i].num].status = "open"
                      /\ D.slots[d.arr[i].num].ip = d.arr[i].ip
    BY <1>8 DEF Owned
  <2>1. PICK j \in DOMAIN r.arr : d.arr[i] = r.arr[j]
    BY <1>8
  <2>2. d.arr[i].num # n /\ d.arr[i].num \in Nums
    BY <1>8, RegistryFields DEF IsOwner
  <2>3. D.slots[d.arr[i].num] = S.slots[d.arr[i].num]
    BY <1>2, <1>3, <2>2
  <2> QED BY <1>8, <2>1, <2>3 DEF Owned
<1>9. Owned(D.ev, D.slots)
  <2>1. Owned(S.ev, S.slots)
    BY DEF Sound
  <2> QED BY ONLY <1>2, <1>3, <1>4, <1>7, <1>8, <2>1
<1>10. Owned(D.ia, D.slots)
  <2>1. Owned(S.ia, S.slots)
    BY DEF Sound
  <2> QED BY ONLY <1>2, <1>5, <1>7, <1>8, <2>1
<1>11. Apart(D.ev, D.ia)
  <2>1. \A m \in Nums : IsOwner(D.ev, m) => IsOwner(S.ev, m)
    BY <1>3, <1>4 DEF IsOwner
  <2>2. \A m \in Nums : IsOwner(D.ia, m) => IsOwner(S.ia, m)
    BY <1>5 DEF IsOwner
  <2>3. Apart(S.ev, S.ia)
    BY DEF Sound
  <2> QED BY <2>1, <2>2, <2>3, Zenon DEF Apart
<1>12. Sound(D)
  BY <1>1, <1>6, <1>9, <1>10, <1>11 DEF Sound
<1> QED BY <1>12 DEF D

LEMMA OwnedSlot ==
  ASSUME NEW K, NEW r \in Registry(K), NEW sl \in [Nums -> Slot], Owned(r, sl),
         NEW n \in Nums, ~IsOwner(r, n), NEW x
  PROVE  Owned(r, [sl EXCEPT ![n] = x])
<1>1. \A i \in DOMAIN r.arr : r.arr[i].num \in Nums /\ r.arr[i].num # n
  BY RegistryFields DEF IsOwner
<1> QED BY <1>1 DEF Owned

(* A slot no registration names may change as it likes.                     *)
LEMMA SlotSound ==
  ASSUME NEW S, Sound(S), NEW n \in Nums, S.slots[n].status # "open", NEW x \in Slot
  PROVE  Sound([S EXCEPT !.slots[n] = x])
<1> DEFINE T == [S EXCEPT !.slots[n] = x]
<1>1. Good(T)
  BY SetSlot DEF Sound
<1>2. /\ T.ev = S.ev /\ T.ia = S.ia /\ T.slots = [S.slots EXCEPT ![n] = x]
      /\ S.slots \in [Nums -> Slot]
      /\ S.ev \in Registry(Events) /\ S.ia \in Registry(Requests)
  BY DEF Sound, Good, State
<1>3. ~IsOwner(S.ev, n) /\ ~IsOwner(S.ia, n)
  BY NotOpenNotOwner
<1> HIDE DEF T
<1>0. Owned(S.ev, S.slots) /\ Owned(S.ia, S.slots)
  BY DEF Sound
<1>4. Owned(T.ev, T.slots)
  BY ONLY <1>0, <1>2, <1>3, OwnedSlot
<1>5. Owned(T.ia, T.slots)
  BY ONLY <1>0, <1>2, <1>3, OwnedSlot
<1>6. Apart(T.ev, T.ia) /\ OneEntryPerKey(T.ev) /\ OneEntryPerKey(T.ia)
  BY <1>2 DEF Sound
<1> QED BY <1>1, <1>4, <1>5, <1>6 DEF Sound, T

(* A change of view or of up leaves the registrations in order.             *)
LEMMA ViewSound ==
  ASSUME NEW S, Sound(S), NEW n \in Nums, NEW v \in View
  PROVE  Sound([S EXCEPT !.view[n] = v])
<1>1. Good([S EXCEPT !.view[n] = v])
  BY SetView DEF Sound
<1>2. /\ [S EXCEPT !.view[n] = v].ev = S.ev /\ [S EXCEPT !.view[n] = v].ia = S.ia
      /\ [S EXCEPT !.view[n] = v].slots = S.slots
  BY DEF Sound, Good, State
<1> QED BY <1>1, <1>2 DEF Sound

(* Recording an open slot that owns nothing yet.                            *)
LEMMA RecordOwned ==
  ASSUME NEW K, NEW r \in Registry(K), NEW sl \in [Nums -> Slot], Owned(r, sl), KeysAgree(r),
         NEW a \in Addr, NEW n \in Nums, NEW entry \in Entry(K),
         ~IsOwner(r, n), sl[n].status = "open", sl[n].ip = a,
         NEW f, f = Record(r, a, n, entry)
  PROVE  /\ Owned(f, sl)
         /\ \A m \in Nums : IsOwner(f, m) => IsOwner(r, m) \/ m = n
<1> DEFINE l == Len(r.arr) + 1
<1> HIDE DEF l
<1>1. CASE r.doc[a] # << >>
  <2>1. f.arr = r.arr
    BY <1>1 DEF Record
  <2> QED BY <2>1 DEF Owned, OwnersDistinct, IsOwner
<1>2. CASE r.doc[a] = << >>
  <2>1. /\ DOMAIN f.arr = DOMAIN r.arr \cup {l}
        /\ \A i \in DOMAIN r.arr : f.arr[i] = r.arr[i]
        /\ f.arr[l] = [ip |-> a, num |-> n]
        /\ f.num = [r.num EXCEPT ![a] = n]
    BY <1>2, RecordArr DEF l
  <2>2. \A i \in DOMAIN r.arr : r.arr[i].num # n
    BY DEF IsOwner
  <2>3. OwnersDistinct(f)
    BY <2>1, <2>2 DEF OwnersDistinct, Owned
  <2>4. \A i \in DOMAIN f.arr : sl[f.arr[i].num].status = "open" /\ sl[f.arr[i].num].ip = f.arr[i].ip
    BY <2>1 DEF Owned
  <2>5. \A m \in Nums : IsOwner(f, m) => IsOwner(r, m) \/ m = n
    BY <2>1 DEF IsOwner
  <2> QED BY <2>3, <2>4, <2>5 DEF Owned
<1> QED BY <1>1, <1>2

LEMMA RecordEvSound ==
  ASSUME NEW S, Sound(S), NEW a \in Addr, NEW n \in Nums, NEW entry \in Entry(Events),
         ~IsOwner(S.ev, n), ~IsOwner(S.ia, n), S.slots[n].status = "open", S.slots[n].ip = a,
         ~HasKey(S.ev, a, entry.key)
  PROVE  Sound([S EXCEPT !.ev = Record(@, a, n, entry)])
<1> DEFINE r == Record(S.ev, a, n, entry)
           T == [S EXCEPT !.ev = Record(@, a, n, entry)]
<1>1. /\ S.ev \in Registry(Events) /\ S.slots \in [Nums -> Slot] /\ KeysAgree(S.ev)
      /\ Owned(S.ev, S.slots) /\ OneEntryPerKey(S.ev) /\ Good(S)
  BY DEF Sound, Good, State
<1>2. r \in Registry(Events) /\ KeysAgree(r) /\ OneEntryPerKey(r)
  BY <1>1, RecordType, RecordKeys, RecordOneEntry
<1>3. Owned(r, S.slots) /\ \A m \in Nums : IsOwner(r, m) => IsOwner(S.ev, m) \/ m = n
  BY <1>1, RecordOwned
<1>4. T = [S EXCEPT !.ev = r]
  BY DEF Sound, Good, State
<1> HIDE DEF r
<1>5. T.ev = r /\ T.ia = S.ia /\ T.slots = S.slots
  BY <1>1, <1>4 DEF Good, State
<1>6. Good(T)
  BY <1>1, <1>2, <1>4, SetEv
<1> HIDE DEF T
<1>7. Apart(r, S.ia)
  BY <1>3 DEF Sound, Apart
<1> QED BY <1>2, <1>3, <1>5, <1>6, <1>7 DEF Sound, T

LEMMA RecordIaSound ==
  ASSUME NEW S, Sound(S), NEW a \in Addr, NEW n \in Nums, NEW entry \in Entry(Requests),
         ~IsOwner(S.ev, n), ~IsOwner(S.ia, n), S.slots[n].status = "open", S.slots[n].ip = a,
         ~HasKey(S.ia, a, entry.key)
  PROVE  Sound([S EXCEPT !.ia = Record(@, a, n, entry)])
<1> DEFINE r == Record(S.ia, a, n, entry)
           T == [S EXCEPT !.ia = Record(@, a, n, entry)]
<1>1. /\ S.ia \in Registry(Requests) /\ S.slots \in [Nums -> Slot] /\ KeysAgree(S.ia)
      /\ Owned(S.ia, S.slots) /\ OneEntryPerKey(S.ia) /\ Good(S)
  BY DEF Sound, Good, State
<1>2. r \in Registry(Requests) /\ KeysAgree(r) /\ OneEntryPerKey(r)
  BY <1>1, RecordType, RecordKeys, RecordOneEntry
<1>3. Owned(r, S.slots) /\ \A m \in Nums : IsOwner(r, m) => IsOwner(S.ia, m) \/ m = n
  BY <1>1, RecordOwned
<1>4. T = [S EXCEPT !.ia = r]
  BY DEF Sound, Good, State
<1> HIDE DEF r
<1>5. T.ia = r /\ T.ev = S.ev /\ T.slots = S.slots
  BY <1>1, <1>4 DEF Good, State
<1>6. Good(T)
  BY <1>1, <1>2, <1>4, SetIa
<1> HIDE DEF T
<1>7. Apart(S.ev, r)
  BY <1>3 DEF Sound, Apart
<1> QED BY <1>2, <1>3, <1>5, <1>6, <1>7 DEF Sound, T

-------------------------------------------------------------------------------
(* The handlers, when no handler loses its own connection half-way.         *)
LEMMA NoLoss ==
  ASSUME ~MidLoss, NEW loss \in Losses
  PROVE  /\ loss = "never"
         /\ \A S, n, where : where # "never" => DropAt(S, n, loss, where) = S
         /\ \A n : AddressOf(n, loss) = slots[n].ip
BY DEF Losses, DropAt, AddressOf

(* The state in which CONNECTED starts: the slot is open and owns nothing.  *)
LEMMA OpenedSound ==
  ASSUME SafeInv, ~MidLoss, NEW n \in Nums, Upgrading(n), NEW loss \in Losses,
         NEW S, S = Opened(n, loss)
  PROVE  /\ Sound(S)
         /\ ~IsOwner(S.ev, n) /\ ~IsOwner(S.ia, n)
         /\ S.slots[n].status = "open" /\ S.slots[n].ip = slots[n].ip
         /\ slots[n].ip \in Addr
<1> DEFINE x == [slots[n] EXCEPT !.status = "open"]
<1>1. slots \in [Nums -> Slot] /\ slots[n].status = "header"
  BY DEF SafeInv, Inv, TypeOK, Upgrading
<1>2. x \in Slot /\ x.status = "open" /\ x.ip = slots[n].ip /\ slots[n].ip \in Addr
  BY <1>1 DEF Slot
<1>3. S = [Now EXCEPT !.slots[n] = x]
  <2>1. S = [Now EXCEPT !.slots[n].status = "open"]
    BY NoLoss DEF Opened
  <2> QED BY <2>1 DEF Now
<1>4. Now.slots = slots /\ Now.ev = ev /\ Now.ia = ia /\ Sound(Now)
  BY NowSound DEF Now
<1>5. ~IsOwner(ev, n) /\ ~IsOwner(ia, n)
  <2>1. ~IsOwner(Now.ev, n) /\ ~IsOwner(Now.ia, n)
    BY <1>1, <1>4, NotOpenNotOwner
  <2> QED BY <1>4, <2>1
<1> HIDE DEF x
<1>6. Sound([Now EXCEPT !.slots[n] = x])
  BY <1>1, <1>2, <1>4, SlotSound
<1>7. S.ev = ev /\ S.ia = ia /\ S.slots = [slots EXCEPT ![n] = x]
  BY <1>3 DEF Now
<1> QED BY <1>1, <1>2, <1>3, <1>5, <1>6, <1>7

LEMMA ConnectEventSound ==
  ASSUME ~MidLoss, NEW loss \in Losses, NEW S, Sound(S), NEW n \in Nums, NEW a \in Addr,
         ~IsOwner(S.ev, n), ~IsOwner(S.ia, n), S.slots[n].status = "open", S.slots[n].ip = a,
         NEW e \in Events, ConnectEvent(S, n, a, e, loss)
  PROVE  \E T : Sound(T) /\ Become(T)
<1> DEFINE auto  == SubSchema[e] = NoSchema
           told  == [ep |-> e, sub |-> auto /\ ~HasKey(S.ev, a, e)]
           entry == [key |-> e, flag |-> auto]
           T     == [S EXCEPT !.view[n] = told]
           R     == [S EXCEPT !.ev = Record(@, a, n, entry), !.view[n] = told]
<1>1. told \in View
  <2>1. (auto /\ ~HasKey(S.ev, a, e)) \in BOOLEAN
    OBVIOUS
  <2> HIDE DEF auto
  <2> QED BY <2>1 DEF View
<1>2. entry \in Entry(Events) /\ entry.key = e
  BY DEF Entry
<1>3. loss = "never" /\ DropAt(T, n, loss, "send") = T
  BY NoLoss
<1>4. \/ Become(T)
      \/ ~HasKey(S.ev, a, e) /\ Become(R)
  BY <1>3 DEF ConnectEvent
<1> HIDE DEF told, entry
<1>5. Sound(T)
  BY <1>1, ViewSound
<1>6. ASSUME ~HasKey(S.ev, a, e) PROVE Sound(R)
  <2>1. Sound([S EXCEPT !.ev = Record(@, a, n, entry)])
    BY <1>2, <1>6, RecordEvSound
  <2>2. R = [[S EXCEPT !.ev = Record(@, a, n, entry)] EXCEPT !.view[n] = told]
    BY DEF Sound, Good, State
  <2> QED BY <1>1, <2>1, <2>2, ViewSound
<1> HIDE DEF T, R
<1> QED BY <1>4, <1>5, <1>6

LEMMA ConnectPropertySound ==
  ASSUME ~MidLoss, NEW loss \in Losses, NEW S, Sound(S), NEW n \in Nums, NEW a \in Addr,
         ~IsOwner(S.ev, n), ~IsOwner(S.ia, n), S.slots[n].status = "open", S.slots[n].ip = a,
         NEW q \in Requests, ConnectProperty(S, n, a, q, loss)
  PROVE  \E T : Sound(T) /\ Become(T)
<1> DEFINE entry == [key |-> q, flag |-> TRUE]
           R     == [S EXCEPT !.ia = Record(@, a, n, entry)]
           T     == IF HasKey(S.ia, a, q) THEN S ELSE R
<1>1. entry \in Entry(Requests) /\ entry.key = q
  BY DEF Entry
<1>2. Become(T)
  <2>1. Become(DropAt(T, n, loss, "send"))
    BY DEF ConnectProperty
  <2> HIDE DEF T
  <2>2. DropAt(T, n, loss, "send") = T
    BY NoLoss
  <2> QED BY <2>1, <2>2
<1> HIDE DEF entry
<1>3. ASSUME ~HasKey(S.ia, a, q) PROVE Sound(R)
  BY <1>1, <1>3, RecordIaSound
<1> HIDE DEF R
<1>4. Sound(T)
  BY <1>3
<1> QED BY <1>2, <1>4

LEMMA ConnectActionSound ==
  ASSUME ~MidLoss, NEW loss \in Losses, NEW S, Sound(S), NEW n \in Nums, NEW a \in Addr,
         ~IsOwner(S.ev, n), ~IsOwner(S.ia, n), S.slots[n].status = "open", S.slots[n].ip = a,
         NEW j \in 1 .. NumWsActions, ConnectAction(S, n, a, j, loss)
  PROVE  \E T : Sound(T) /\ Become(T)
<1> DEFINE q     == NumProps + j
           runs  == NoInput[j]
           entry == [key |-> q, flag |-> runs]
           R     == [S EXCEPT !.ia = Record(@, a, n, entry)]
<1>1. q \in Requests /\ runs \in BOOLEAN
  BY ThingAssumption DEF Requests, Actions
<1>2. entry \in Entry(Requests) /\ entry.key = q
  <2> HIDE DEF q, runs
  <2> QED BY <1>1 DEF Entry
<1>3. loss = "never" /\ DropAt(S, n, loss, "send") = S
  BY NoLoss
<1>4. \/ Become(S)
      \/ ~HasKey(S.ia, a, q) /\ Become(R)
  BY <1>3 DEF ConnectAction
<1> HIDE DEF entry, q
<1>5. ASSUME ~HasKey(S.ia, a, q) PROVE Sound(R)
  BY <1>2, <1>5, RecordIaSound
<1> HIDE DEF R
<1> QED BY <1>4, <1>5

(* A registry that keeps its arr and its keys may replace the old one.      *)
LEMMA SameOwners ==
  ASSUME NEW K, NEW r \in Registry(K), NEW f \in Registry(K), f.arr = r.arr
  PROVE  /\ \A sl : Owned(r, sl) => Owned(f, sl)
         /\ \A m : IsOwner(f, m) <=> IsOwner(r, m)
BY DEF Owned, OwnersDistinct, IsOwner

LEMMA EventTextSound ==
  ASSUME SafeInv, ~MidLoss, NEW n \in Nums, NEW m \in Messages, EventText(n, m)
  PROVE  \E T : Sound(T) /\ Become(T)
<1>1. PICK loss \in Losses :
       LET S == DropAt(Now, n, loss, "address")
           a == AddressOf(n, loss)
           i == Min(Takers(S, a, m))
           f == ~S.ev.doc[a][i].flag
           T == [S EXCEPT !.ev = SetFlag(@, a, i, f),
                          !.view[n].sub = IF loss = "address" THEN @ ELSE f]
       IN  /\ Takers(S, a, m) # {}
           /\ Become(DropAt(IF m.exact THEN T ELSE S, n, loss, "send"))
  BY DEF EventText
<1> DEFINE S == Now
           a == slots[n].ip
           i == Min(Takers(S, a, m))
           f == ~S.ev.doc[a][i].flag
           g == SetFlag(S.ev, a, i, f)
           v == [S.view[n] EXCEPT !.sub = f]
           T == [S EXCEPT !.ev = SetFlag(@, a, i, f), !.view[n].sub = f]
           U == [S EXCEPT !.ev = g]
<1>2. loss = "never" /\ DropAt(Now, n, loss, "address") = Now /\ AddressOf(n, loss) = slots[n].ip
  BY NoLoss
<1>3. Takers(S, a, m) # {} /\ Become(IF m.exact THEN T ELSE S)
  BY <1>1, <1>2 DEF DropAt
<1>4. a \in Addr
  BY DEF SafeInv, Inv, TypeOK, Slot
<1>5. Sound(S) /\ S \in State
  BY NowSound DEF Sound, Good
<1> HIDE DEF S, a
<1>6. /\ S.ev \in Registry(Events) /\ KeysAgree(S.ev) /\ S.view \in [Nums -> View]
      /\ Owned(S.ev, S.slots) /\ OneEntryPerKey(S.ev) /\ Good(S)
  BY <1>5 DEF Sound, Good, State
<1>7. i \in DOMAIN S.ev.doc[a]
  <2>1. S.ev.doc[a] \in Seq(Entry(Events))
    BY <1>4, <1>6, RegistryFields
  <2>2. Takers(S, a, m) \subseteq DOMAIN S.ev.doc[a] /\ DOMAIN S.ev.doc[a] \subseteq Nat
    BY <2>1 DEF Takers
  <2> QED BY <1>3, <2>2, MinIsLeast
<1>8. f \in BOOLEAN
  OBVIOUS
<1> HIDE DEF i, f
<1>9. g \in Registry(Events) /\ KeysAgree(g) /\ g.arr = S.ev.arr
  BY <1>4, <1>6, <1>7, <1>8, SetFlagKeeps
<1>10. OneEntryPerKey(g)
  BY <1>4, <1>6, <1>7, <1>8, SetFlagOneEntry
<1>11. v \in View
  BY <1>6, <1>8 DEF View
<1>12. T = [U EXCEPT !.view[n] = v]
  BY <1>5 DEF State
<1> HIDE DEF g, v
<1>13. Good(U)
  BY <1>6, <1>9, SetEv
<1>14. U.ev = g /\ U.ia = S.ia /\ U.slots = S.slots
  BY <1>5 DEF State
<1> HIDE DEF U
<1>15. Owned(g, S.slots) /\ Apart(g, S.ia)
  BY <1>5, <1>6, <1>9, SameOwners DEF Sound, Apart
<1>16. Sound(U)
  BY <1>5, <1>10, <1>13, <1>14, <1>15 DEF Sound
<1>17. Sound(T)
  BY <1>11, <1>12, <1>16, ViewSound
<1> HIDE DEF T
<1> QED BY <1>3, <1>5, <1>17

LEMMA ActionTextSound ==
  ASSUME SafeInv, ~MidLoss, NEW n \in Nums, NEW m \in Messages, ActionText(n, m)
  PROVE  \E T : Sound(T) /\ Become(T)
<1>1. PICK loss \in Losses :
       LET S == DropAt(Now, n, loss, "address")
           a == AddressOf(n, loss)
           i == Min(Pending(S, a))
       IN  /\ Takers(S, a, m) = {} /\ Pending(S, a) # {}
           /\ Become(DropAt([S EXCEPT !.ia = SetFlag(@, a, i, TRUE)], n, loss, "send"))
           /\ IF loss = "send" THEN UNCHANGED round
                               ELSE MayNotify(S.ia.doc[a][i].key - NumProps, n)
  BY DEF ActionText
<1> DEFINE S == Now
           a == slots[n].ip
           i == Min(Pending(S, a))
           g == SetFlag(S.ia, a, i, TRUE)
           T == [S EXCEPT !.ia = SetFlag(@, a, i, TRUE)]
<1>2. loss = "never" /\ DropAt(Now, n, loss, "address") = Now /\ AddressOf(n, loss) = slots[n].ip
  BY NoLoss
<1>3. Pending(S, a) # {} /\ Become(T)
  BY <1>1, <1>2 DEF DropAt
<1>4. a \in Addr
  BY DEF SafeInv, Inv, TypeOK, Slot
<1>5. Sound(S) /\ S \in State
  BY NowSound DEF Sound, Good
<1> HIDE DEF S, a
<1>6. /\ S.ia \in Registry(Requests) /\ KeysAgree(S.ia)
      /\ Owned(S.ia, S.slots) /\ OneEntryPerKey(S.ia) /\ Good(S)
  BY <1>5 DEF Sound, Good, State
<1>7. i \in DOMAIN S.ia.doc[a]
  <2>1. S.ia.doc[a] \in Seq(Entry(Requests))
    BY <1>4, <1>6, RegistryFields
  <2>2. Pending(S, a) \subseteq DOMAIN S.ia.doc[a] /\ DOMAIN S.ia.doc[a] \subseteq Nat
    BY <2>1 DEF Pending
  <2> QED BY <1>3, <2>2, MinIsLeast
<1> HIDE DEF i
<1>8. g \in Registry(Requests) /\ KeysAgree(g) /\ g.arr = S.ia.arr /\ OneEntryPerKey(g)
  <2>1. ASSUME NEW f \in BOOLEAN, NEW h, h = SetFlag(S.ia, a, i, f)
        PROVE  h \in Registry(Requests) /\ KeysAgree(h) /\ h.arr = S.ia.arr /\ OneEntryPerKey(h)
    BY <1>4, <1>6, <1>7, <2>1, SetFlagKeeps, SetFlagOneEntry
  <2> QED BY <2>1
<1>9. T = [S EXCEPT !.ia = g]
  BY <1>5 DEF State
<1> HIDE DEF g
<1>10. Good(T)
  BY <1>6, <1>8, <1>9, SetIa
<1>11. T.ia = g /\ T.ev = S.ev /\ T.slots = S.slots
  BY <1>5, <1>9 DEF State
<1> HIDE DEF T
<1>12. Owned(g, S.slots) /\ Apart(S.ev, g)
  BY <1>5, <1>6, <1>8, SameOwners DEF Sound, Apart
<1> QED BY <1>3, <1>5, <1>8, <1>10, <1>11, <1>12 DEF Sound

-------------------------------------------------------------------------------
(* The route of a notification.                                             *)
LEMMA ScanRouted ==
  ASSUME SafeInv, ScanAddress
  PROVE  Routed'
<1> DEFINE a == ev.arr[round.i].ip
           hits == Flagged(ev, a, round.ev)
           k == Cardinality(hits)
<1>1. ev \in Registry(Events) /\ KeysAgree(ev) /\ OneEntryPerKey(ev)
  BY DEF SafeInv, Inv, TypeOK, RegistriesAgree, NoDoubleEntries
<1>2. round \in Round /\ round.i \in Nat \ {0} /\ round.left = 0 /\ round.i <= Len(ev.arr)
  BY RoundFields DEF SafeInv, Inv, TypeOK, ScanAddress
<1>3. round.i \in DOMAIN ev.arr
  BY <1>1, <1>2, RegistryFields
<1>4. a \in Addr
  BY <1>1, <1>3, RegistryFields
<1>5. /\ round' = IF k = 0 THEN [round EXCEPT !.i = @ + 1]
                           ELSE [round EXCEPT !.ip = a, !.left = k]
      /\ ev' = ev
  BY DEF ScanAddress
<1>6. CASE hits = {}
  <2>1. k = 0
    BY <1>6, FS_EmptySet
  <2>2. round'.left = 0
    BY <1>2, <1>5, <2>1 DEF Round
  <2> QED BY <2>2 DEF Routed, RouteDefined
<1>7. CASE hits # {}
  <2>1. PICK x : x \in hits
    BY <1>7
  <2>2. hits = {x}
    <3>1. \A y \in hits : y \in DOMAIN ev.doc[a] /\ ev.doc[a][y].key = round.ev
      BY DEF Flagged
    <3> HIDE DEF hits, a
    <3>2. \A y \in hits : y = x
      BY <1>1, <1>4, <2>1, <3>1 DEF OneEntryPerKey
    <3> QED BY <2>1, <3>2
  <2> HIDE DEF hits
  <2>3. k = 1
    BY <2>2, FS_Singleton
  <2>4. ev.doc[a] # << >>
    BY <2>1 DEF hits, Flagged
  <2>5. ev.num[a] # NoNum
    BY <1>1, <1>4, <2>4 DEF KeysAgree
  <2> HIDE DEF k, a
  <2>6. round' = [round EXCEPT !.ip = a, !.left = k]
    BY <1>5, <2>3
  <2>7. round'.left = 1 /\ round'.ip = a
    BY <1>2, <2>3, <2>6 DEF Round
  <2> QED BY <1>5, <2>5, <2>7 DEF Routed, RouteDefined
<1> QED BY <1>6, <1>7

LEMMA NotifyRouted ==
  ASSUME SafeInv, Notify
  PROVE  Routed'
<1>1. round \in Round /\ round.left \in Nat /\ round.left > 0
  BY RoundFields DEF SafeInv, Inv, TypeOK, Notify
<1>2. round.left = 1
  BY <1>1 DEF SafeInv, Routed
<1>3. round'.left = round.left - 1
  BY <1>1 DEF Notify, Round
<1> QED BY <1>2, <1>3 DEF Routed, RouteDefined

(* Outside a round nothing is due, and starting one changes nothing yet.    *)
LEMMA CalmRouted ==
  ASSUME Inv, ~Busy, round' \in {round} \/ \E action, replyTo : MayNotify(action, replyTo)
  PROVE  Routed'
<1>1. round = Idle
  BY Constants DEF Inv, TypeOK, Busy, Round
<1>2. CASE round' = round
  BY <1>1, <1>2 DEF Routed, RouteDefined, Idle
<1>3. ASSUME NEW action, NEW replyTo, MayNotify(action, replyTo)
      PROVE  Routed'
  <2>1. CASE round' = [Idle EXCEPT !.ev = Trigger[action], !.i = 1, !.reply = replyTo]
    BY <2>1 DEF Routed, RouteDefined, Idle
  <2> QED BY <1>2, <1>3, <2>1 DEF MayNotify
<1> QED BY <1>2, <1>3

-------------------------------------------------------------------------------
(* The whole step.                                                          *)
LEMMA SafeStep ==
  ASSUME ~MidLoss, SafeInv, [Next]_vars
  PROVE  SafeInv'
<1> DEFINE Safe == OwnersOpen' /\ NoDoubleEntries'
<1>0. Inv /\ Inv' /\ Sound(Now)
  BY StepInv, NowSound DEF SafeInv
<1>1. SUFFICES Safe /\ Routed'
  BY <1>0 DEF SafeInv
<1>2. ASSUME NEW T, Sound(T), Become(T) PROVE Safe
  BY <1>2, BecomeSound
<1>3. ASSUME UNCHANGED <<slots, ev, ia, view>> PROVE Safe
  <2>1. Become(Now)
    BY <1>3 DEF Become, Now
  <2> QED BY <1>0, <1>2, <2>1
<1> HIDE DEF Safe
<1>4. ASSUME ~Busy, UNCHANGED round PROVE Routed'
  BY <1>0, <1>4, CalmRouted
<1>5. ASSUME NEW a \in IPs, Accept(a) PROVE Safe /\ Routed'
  <2> DEFINE n == Min(Usable)
             S == IF slots[n].status = "free" THEN Now ELSE Disconnect(Now, n)
             x == [status |-> "header", up |-> TRUE, ip |-> a]
  <2>1. n \in Nums
    BY <1>5, UsableMin DEF Accept
  <2>2. Become([S EXCEPT !.slots[n] = x]) /\ ~Busy /\ UNCHANGED round
    BY <1>5 DEF Accept, Turn
  <2> HIDE DEF n
  <2>3. Sound(S)
    BY <1>0, <2>1, DisconnectSound
  <2>4. S.slots[n].status # "open"
    <3>1. slots \in [Nums -> Slot]
      BY <1>0 DEF Inv, TypeOK
    <3>2. Disconnect(Now, n).slots[n] = Free
      BY <2>1, <3>1 DEF Disconnect, Now
    <3> QED BY <2>1, <3>2 DEF Now, Free
  <2>5. x \in Slot
    BY Constants DEF Slot
  <2> HIDE DEF S, x
  <2>6. Sound([S EXCEPT !.slots[n] = x])
    BY <2>1, <2>3, <2>4, <2>5, SlotSound
  <2> QED BY <1>2, <1>4, <2>2, <2>6
<1>6. ASSUME Skip PROVE Safe /\ Routed'
  BY <1>3, <1>4, <1>6 DEF Skip
<1>7. ASSUME NEW n \in Nums, Reap(n) \/ Close(n) PROVE Safe /\ Routed'
  <2>1. Become(Disconnect(Now, n)) /\ ~Busy /\ UNCHANGED round
    BY <1>7 DEF Reap, Close, Turn
  <2> QED BY <1>0, <1>2, <1>4, <2>1, DisconnectSound
<1>8. ASSUME NEW n \in Nums, Upgrade(n) PROVE Safe /\ Routed'
  <2>0. Upgrading(n) /\ ~Busy
    BY <1>8 DEF Upgrade, UpgradeEvent, UpgradeProperty, UpgradeAction, UpgradeUnknown,
                Upgrading, Turn
  <2>1. CASE UpgradeEvent(n)
    <3>1. PICK e \in Events, loss \in Losses :
            ConnectEvent(Opened(n, loss), n, AddressOf(n, loss), e, loss)
      BY <2>1 DEF UpgradeEvent
    <3>2. AddressOf(n, loss) = slots[n].ip /\ UNCHANGED round
      BY <2>1, NoLoss DEF UpgradeEvent
    <3>3. \E T : Sound(T) /\ Become(T)
      BY <2>0, <3>1, <3>2, OpenedSound, ConnectEventSound
    <3> QED BY <1>2, <1>4, <2>0, <3>2, <3>3
  <2>2. CASE UpgradeProperty(n)
    <3>1. PICK q \in 1 .. NumProps, loss \in Losses :
            ConnectProperty(Opened(n, loss), n, AddressOf(n, loss), q, loss)
      BY <2>2 DEF UpgradeProperty
    <3>2. AddressOf(n, loss) = slots[n].ip /\ UNCHANGED round /\ q \in Requests
      BY <2>2, NoLoss, ThingAssumption DEF UpgradeProperty, Requests
    <3>3. \E T : Sound(T) /\ Become(T)
      BY <2>0, <3>1, <3>2, OpenedSound, ConnectPropertySound
    <3> QED BY <1>2, <1>4, <2>0, <3>2, <3>3
  <2>3. CASE UpgradeAction(n)
    <3>1. PICK j \in 1 .. NumWsActions, loss \in Losses :
            ConnectAction(Opened(n, loss), n, AddressOf(n, loss), j, loss)
      BY <2>3 DEF UpgradeAction
    <3>2. AddressOf(n, loss) = slots[n].ip
      BY NoLoss
    <3>3. \E T : Sound(T) /\ Become(T)
      BY <2>0, <3>1, <3>2, OpenedSound, ConnectActionSound
    <3>4. MayNotify(j, n) \/ UNCHANGED round
      BY <3>1 DEF ConnectAction
    <3>5. Routed'
      BY <1>0, <2>0, <3>4, CalmRouted
    <3> QED BY <1>2, <3>3, <3>5
  <2>4. CASE UpgradeUnknown(n)
    <3>1. PICK loss \in Losses : Become(Opened(n, loss))
      BY <2>4 DEF UpgradeUnknown
    <3>2. Sound(Opened(n, loss)) /\ UNCHANGED round
      BY <2>0, <2>4, OpenedSound DEF UpgradeUnknown
    <3> QED BY <1>2, <1>4, <2>0, <3>1, <3>2
  <2> QED BY <1>8, <2>1, <2>2, <2>3, <2>4 DEF Upgrade
<1>9. ASSUME NEW n \in Nums, Text(n) PROVE Safe /\ Routed'
  <2>1. ASSUME NEW m \in Messages, EventText(n, m) PROVE Safe /\ Routed'
    <3>1. ~Busy /\ UNCHANGED round
      BY <2>1 DEF EventText, Receiving, Turn
    <3> QED BY <1>2, <1>4, <2>1, <3>1, EventTextSound
  <2>2. ASSUME NEW m \in Messages, ActionText(n, m) PROVE Safe /\ Routed'
    <3>1. ~Busy
      BY <2>2 DEF ActionText, Receiving, Turn
    <3>2. UNCHANGED round \/ \E action, replyTo : MayNotify(action, replyTo)
      <4>1. PICK loss \in Losses : \E action :
              IF loss = "send" THEN UNCHANGED round ELSE MayNotify(action, n)
        BY <2>2 DEF ActionText
      <4> QED BY <4>1
    <3>3. Routed'
      BY <1>0, <3>1, <3>2, CalmRouted
    <3> QED BY <1>2, <2>2, <3>3, ActionTextSound
  <2>3. ASSUME InvalidText(n) PROVE FALSE
    BY <2>3, NoLoss DEF InvalidText
  <2> QED BY <1>9, <2>1, <2>2, <2>3 DEF Text
<1>10. ASSUME NEW n \in Nums, Lose(n) PROVE Safe /\ Routed'
  <2>1. slots \in [Nums -> Slot] /\ slots[n] \in Slot
    BY <1>0 DEF Inv, TypeOK
  <2>2. slots' = [slots EXCEPT ![n].up = FALSE] /\ UNCHANGED <<ev, ia, view, round>>
    BY <1>10 DEF Lose
  <2>3. \A m \in Nums : slots'[m].status = slots[m].status /\ slots'[m].ip = slots[m].ip
    BY <2>1, <2>2 DEF Slot
  <2>4. \A i \in DOMAIN ev.arr : ev.arr[i].num \in Nums
    BY <1>0, RegistryFields DEF Inv, TypeOK
  <2>5. \A i \in DOMAIN ia.arr : ia.arr[i].num \in Nums
    BY <1>0, RegistryFields DEF Inv, TypeOK
  <2>6. /\ OwnersDistinct(ev) /\ OwnersDistinct(ia)
        /\ \A i \in DOMAIN ev.arr : slots[ev.arr[i].num].status = "open"
                                    /\ slots[ev.arr[i].num].ip = ev.arr[i].ip
        /\ \A i \in DOMAIN ia.arr : slots[ia.arr[i].num].status = "open"
                                    /\ slots[ia.arr[i].num].ip = ia.arr[i].ip
        /\ \A k \in Nums : ~(IsOwner(ev, k) /\ IsOwner(ia, k))
    BY DEF SafeInv, OwnersOpen
  <2>7. ev' = ev /\ ia' = ia /\ round' = round
    BY <2>2
  <2>8. OwnersOpen'
    BY <2>3, <2>4, <2>5, <2>6, <2>7 DEF OwnersOpen, OwnersDistinct, IsOwner
  <2>9. NoDoubleEntries' /\ Routed'
    BY <2>7 DEF SafeInv, NoDoubleEntries, OneEntryPerKey, Routed, RouteDefined
  <2> QED BY <2>8, <2>9 DEF Safe
<1>11. ASSUME NEW action \in Actions, HttpAction(action) PROVE Safe /\ Routed'
  <2>1. ~Busy /\ MayNotify(action, NoNum) /\ UNCHANGED <<slots, ev, ia, view>>
    BY <1>11 DEF HttpAction, Turn
  <2>2. Routed'
    BY <1>0, <2>1, CalmRouted
  <2> QED BY <1>3, <2>1, <2>2
<1>12. ASSUME Run PROVE Safe /\ Routed'
  <2>1. CASE ScanAddress
    BY <1>3, <2>1, ScanRouted DEF ScanAddress
  <2>2. CASE Notify
    <3> DEFINE n    == IF ev.num[round.ip] = NoNum THEN 0 ELSE ev.num[round.ip]
               lost == slots[n].status # "free" /\ ~slots[n].up
    <3>1. Become(IF lost THEN Disconnect(Now, n) ELSE Now)
      BY ZenonT(40), <2>2 DEF Notify
    <3>2. round.ip \in Addr
      BY <1>0, <2>2, RoundFields DEF Inv, TypeOK, Notify
    <3>3. n \in Nums
      BY <1>0, <3>2, Constants, RegistryFields DEF Inv, TypeOK
    <3> HIDE DEF lost, n
    <3>4. Sound(IF lost THEN Disconnect(Now, n) ELSE Now)
      BY <1>0, <3>3, DisconnectSound
    <3> QED BY <1>2, <2>2, <3>1, <3>4, NotifyRouted
  <2>3. CASE EndRound
    <3> DEFINE n    == round.reply
               lost == n # NoNum /\ slots[n].status # "free" /\ ~slots[n].up
    <3>1. Become(IF lost THEN Disconnect(Now, n) ELSE Now) /\ round' = Idle
      BY <2>3 DEF EndRound
    <3>2. lost => n \in Nums
      BY <1>0, <2>3, RoundFields DEF Inv, TypeOK, EndRound, Round
    <3> HIDE DEF lost, n
    <3>3. Sound(IF lost THEN Disconnect(Now, n) ELSE Now)
      BY <1>0, <3>2, DisconnectSound
    <3>4. Routed'
      BY <3>1 DEF Routed, RouteDefined, Idle
    <3> QED BY <1>2, <3>1, <3>3, <3>4
  <2> QED BY <1>12, <2>1, <2>2, <2>3 DEF Run
<1>13. CASE UNCHANGED vars
  <2>1. UNCHANGED <<slots, ev, ia, view>> /\ round' = round /\ ev' = ev
    BY <1>13 DEF vars
  <2>2. Routed'
    BY <2>1 DEF SafeInv, Routed, RouteDefined
  <2> QED BY <1>3, <2>1, <2>2
<1>14. CASE Next
  BY <1>5, <1>6, <1>7, <1>8, <1>9, <1>10, <1>11, <1>12, <1>14 DEF Next, Visit
<1> QED BY <1>13, <1>14

LEMMA SafeInit == Init => SafeInv
<1> SUFFICES ASSUME Init PROVE SafeInv
  OBVIOUS
<1>1. ev.arr = << >> /\ ia.arr = << >>
  BY DEF Init, EmptyRegistry
<1>2. OwnersOpen
  BY <1>1 DEF OwnersOpen, OwnersDistinct, IsOwner
<1>3. NoDoubleEntries
  BY DEF Init, EmptyRegistry, NoDoubleEntries, OneEntryPerKey
<1>4. Routed
  BY DEF Init, Idle, Routed, RouteDefined
<1> QED BY <1>2, <1>3, <1>4, InitInv DEF SafeInv

LEMMA SafeAlways ==
  ASSUME ~MidLoss
  PROVE  Spec => []SafeInv
<1>1. SafeInv /\ [Next]_vars => SafeInv'
  BY SafeStep
<1> QED BY SafeInit, <1>1, PTL DEF Spec

-------------------------------------------------------------------------------
(* A registration belongs to a channel that is open and has its address, no *)
(* socket has two, so the disconnection branch finds everything it must     *)
(* erase at its first hit.                                                  *)
THEOREM OwnersAreOpen ==
  ASSUME ~MidLoss
  PROVE  Spec => []OwnersOpen
<1>1. SafeInv => OwnersOpen
  BY DEF SafeInv
<1> QED BY SafeAlways, <1>1, PTL

(* An address never has two objects for one event or one request.           *)
THEOREM EntriesAreUnique ==
  ASSUME ~MidLoss
  PROVE  Spec => []NoDoubleEntries
<1>1. SafeInv => NoDoubleEntries
  BY DEF SafeInv
<1> QED BY SafeAlways, <1>1, PTL

(* A notification that is due never reads a missing key of ipe_doc, though  *)
(* sends before it may have erased other addresses.                         *)
THEOREM RoutesAreDefined ==
  ASSUME ~MidLoss
  PROVE  Spec => []RouteDefined
<1>1. SafeInv => RouteDefined
  BY DEF SafeInv, Routed
<1> QED BY SafeAlways, <1>1, PTL
-------------------------------------------------------------------------------
(* What one step may do to a registry: nothing, one more object under a new *)
(* name, one flag (up: TRUE in the second registry), or what Forget does    *)
(* for a socket whose slot is not open afterwards.                          *)
Touches(r, f, K, Flags) ==
  \/ f = r
  \/ \E a \in Addr, n \in Nums, entry \in Entry(K) :
       ~HasKey(r, a, entry.key) /\ f = Record(r, a, n, entry)
  \/ \E a \in Addr, flag \in Flags : \E i \in DOMAIN r.doc[a] : f = SetFlag(r, a, i, flag)
  \/ \E n \in Nums : f = Forget(r, n) /\ slots'[n].status # "open"

TouchesBoth == Touches(ev, ev', Events, BOOLEAN) /\ Touches(ia, ia', Requests, {TRUE})

LEMMA SameTouch ==
  ASSUME ev' = ev, ia' = ia
  PROVE  TouchesBoth
BY DEF TouchesBoth, Touches

LEMMA DisconnectTouch ==
  ASSUME SafeInv, NEW n \in Nums, ev' = Disconnect(Now, n).ev, ia' = Disconnect(Now, n).ia,
         slots'[n].status # "open"
  PROVE  TouchesBoth
<1>1. ev' = Forget(ev, n) /\ (ia' = ia \/ ia' = Forget(ia, n))
  BY DEF Disconnect, Now
<1>2. Touches(ev, ev', Events, BOOLEAN)
  BY <1>1 DEF Touches
<1>3. Touches(ia, ia', Requests, {TRUE})
  BY <1>1 DEF Touches
<1> QED BY <1>2, <1>3 DEF TouchesBoth

LEMMA BecomeDisconnect ==
  ASSUME SafeInv, NEW n \in Nums, Become(Disconnect(Now, n))
  PROVE  TouchesBoth
<1>1. slots'[n] = Free
  BY DEF SafeInv, Inv, TypeOK, Become, Disconnect, Now
<1> QED BY <1>1, DisconnectTouch DEF Become, Free

LEMMA AcceptTouch ==
  ASSUME SafeInv, NEW a \in IPs, Accept(a)
  PROVE  TouchesBoth
<1> DEFINE n == Min(Usable)
           S == IF slots[n].status = "free" THEN Now ELSE Disconnect(Now, n)
           x == [status |-> "header", up |-> TRUE, ip |-> a]
<1>1. n \in Nums
  BY UsableMin DEF Accept
<1>2. Become([S EXCEPT !.slots[n] = x])
  BY DEF Accept
<1>3. Sound(S) /\ S \in State
  BY <1>1, NowSound, DisconnectSound DEF Sound, Good
<1>4. S = Now \/ S = Disconnect(Now, n)
  OBVIOUS
<1> HIDE DEF n, S
<1>5. slots' = [S.slots EXCEPT ![n] = x] /\ ev' = S.ev /\ ia' = S.ia
  BY <1>2, <1>3 DEF Become, State
<1>6. slots'[n].status # "open"
  BY <1>1, <1>3, <1>5 DEF State
<1>7. CASE S = Now
  BY <1>5, <1>7, SameTouch DEF Now
<1>8. CASE S = Disconnect(Now, n)
  BY <1>1, <1>5, <1>6, <1>8, DisconnectTouch
<1> QED BY <1>4, <1>7, <1>8

(* The handlers of CONNECTED start from registries as they were.            *)
LEMMA OpenedFields ==
  ASSUME ~MidLoss, NEW n \in Nums, NEW loss \in Losses
  PROVE  /\ Opened(n, loss).ev = ev /\ Opened(n, loss).ia = ia
         /\ Opened(n, loss).view = view
         /\ Opened(n, loss) = [slots |-> Opened(n, loss).slots, ev |-> ev, ia |-> ia, view |-> view]
<1>1. Opened(n, loss) = [Now EXCEPT !.slots[n].status = "open"]
  BY NoLoss DEF Opened
<1> QED BY <1>1 DEF Now

LEMMA UpgradeEventTouch ==
  ASSUME SafeInv, ~MidLoss, NEW n \in Nums, UpgradeEvent(n)
  PROVE  TouchesBoth
<1>1. PICK e \in Events, loss \in Losses :
        ConnectEvent(Opened(n, loss), n, AddressOf(n, loss), e, loss)
  BY DEF UpgradeEvent
<1> DEFINE a     == slots[n].ip
           S     == Opened(n, loss)
           auto  == SubSchema[e] = NoSchema
           told  == [ep |-> e, sub |-> auto /\ ~HasKey(S.ev, a, e)]
           entry == [key |-> e, flag |-> auto]
           T     == [S EXCEPT !.view[n] = told]
           R     == [S EXCEPT !.ev = Record(@, a, n, entry), !.view[n] = told]
<1>2. loss = "never" /\ DropAt(T, n, loss, "send") = T /\ AddressOf(n, loss) = a
  BY NoLoss
<1>3. Become(T) \/ (~HasKey(S.ev, a, e) /\ Become(R))
  BY ZenonT(40), <1>1, <1>2 DEF ConnectEvent
<1>4. entry \in Entry(Events) /\ entry.key = e
  BY DEF Entry
<1>5. a \in Addr
  BY DEF SafeInv, Inv, TypeOK, Slot
<1> HIDE DEF told, entry, a
<1>6. /\ S.ev = ev /\ S.ia = ia
      /\ S = [slots |-> S.slots, ev |-> ev, ia |-> ia, view |-> view]
  BY OpenedFields
<1> HIDE DEF S
<1>7. T.ev = ev /\ T.ia = ia
  BY <1>6
<1>8. R.ev = Record(ev, a, n, entry) /\ R.ia = ia
  BY <1>6
<1> HIDE DEF T, R
<1>9. CASE Become(T)
  BY <1>7, <1>9, SameTouch DEF Become
<1>10. CASE ~HasKey(S.ev, a, e) /\ Become(R)
  <2>1. ev' = Record(ev, a, n, entry) /\ ia' = ia
    BY <1>8, <1>10 DEF Become
  <2>2. Touches(ev, ev', Events, BOOLEAN)
    BY <1>4, <1>5, <1>6, <1>10, <2>1 DEF Touches
  <2> QED BY <2>1, <2>2 DEF TouchesBoth, Touches
<1> QED BY <1>3, <1>9, <1>10

(* The same for a channel of the second registry.                           *)
LEMMA RecordIaTouch ==
  ASSUME NEW S, S = [slots |-> S.slots, ev |-> ev, ia |-> ia, view |-> view],
         NEW a \in Addr, NEW n \in Nums, NEW entry \in Entry(Requests),
         \/ Become(S)
         \/ ~HasKey(S.ia, a, entry.key) /\ Become([S EXCEPT !.ia = Record(@, a, n, entry)])
  PROVE  TouchesBoth
<1>1. S.ev = ev /\ S.ia = ia
  OBVIOUS
<1>2. CASE Become(S)
  BY <1>1, <1>2, SameTouch DEF Become
<1>3. CASE ~HasKey(S.ia, a, entry.key) /\ Become([S EXCEPT !.ia = Record(@, a, n, entry)])
  <2> DEFINE R == [S EXCEPT !.ia = Record(@, a, n, entry)]
  <2>1. R.ia = Record(ia, a, n, entry) /\ R.ev = ev
    BY <1>1
  <2> HIDE DEF R
  <2>2. ia' = Record(ia, a, n, entry) /\ ev' = ev
    BY <1>3, <2>1 DEF Become, R
  <2>3. Touches(ia, ia', Requests, {TRUE})
    BY <1>1, <1>3, <2>2 DEF Touches
  <2> QED BY <2>2, <2>3 DEF TouchesBoth, Touches
<1> QED BY <1>2, <1>3

LEMMA UpgradePropertyTouch ==
  ASSUME SafeInv, ~MidLoss, NEW n \in Nums, UpgradeProperty(n)
  PROVE  TouchesBoth
<1>1. PICK q \in 1 .. NumProps, loss \in Losses :
        ConnectProperty(Opened(n, loss), n, AddressOf(n, loss), q, loss)
  BY DEF UpgradeProperty
<1> DEFINE a     == slots[n].ip
           S     == Opened(n, loss)
           entry == [key |-> q, flag |-> TRUE]
           R     == [S EXCEPT !.ia = Record(@, a, n, entry)]
           T     == IF HasKey(S.ia, a, q) THEN S ELSE R
<1>2. AddressOf(n, loss) = a /\ q \in Requests
  BY NoLoss, ThingAssumption DEF Requests
<1>3. Become(DropAt(T, n, loss, "send"))
  BY <1>1, <1>2 DEF ConnectProperty
<1>4. entry \in Entry(Requests) /\ entry.key = q
  BY <1>2 DEF Entry
<1>5. a \in Addr
  BY DEF SafeInv, Inv, TypeOK, Slot
<1>6. Become(S) \/ (~HasKey(S.ia, a, q) /\ Become(R))
  <2> HIDE DEF S, R, a
  <2>1. DropAt(T, n, loss, "send") = T
    <3> HIDE DEF T
    <3> QED BY NoLoss
  <2> QED BY <1>3, <2>1
<1>7. S = [slots |-> S.slots, ev |-> ev, ia |-> ia, view |-> view]
  BY OpenedFields
<1> HIDE DEF S, a, entry
<1> QED BY <1>4, <1>5, <1>6, <1>7, RecordIaTouch

LEMMA UpgradeActionTouch ==
  ASSUME SafeInv, ~MidLoss, NEW n \in Nums, UpgradeAction(n)
  PROVE  TouchesBoth
<1>1. PICK j \in 1 .. NumWsActions, loss \in Losses :
        ConnectAction(Opened(n, loss), n, AddressOf(n, loss), j, loss)
  BY DEF UpgradeAction
<1> DEFINE a     == slots[n].ip
           S     == Opened(n, loss)
           q     == NumProps + j
           runs  == NoInput[j]
           entry == [key |-> q, flag |-> runs]
           R     == [S EXCEPT !.ia = Record(@, a, n, entry)]
<1>2. q \in Requests /\ runs \in BOOLEAN
  BY ThingAssumption DEF Requests, Actions
<1>3. entry \in Entry(Requests) /\ entry.key = q
  <2> HIDE DEF q, runs
  <2> QED BY <1>2 DEF Entry
<1>4. AddressOf(n, loss) = a /\ loss = "never" /\ DropAt(S, n, loss, "send") = S
  BY NoLoss
<1>5. Become(S) \/ (~HasKey(S.ia, a, q) /\ Become(R))
  BY <1>1, <1>4 DEF ConnectAction
<1>6. a \in Addr
  BY DEF SafeInv, Inv, TypeOK, Slot
<1>7. S = [slots |-> S.slots, ev |-> ev, ia |-> ia, view |-> view]
  BY OpenedFields
<1> HIDE DEF S, a, entry, q
<1> QED BY <1>3, <1>5, <1>6, <1>7, RecordIaTouch

LEMMA EventTextTouch ==
  ASSUME SafeInv, ~MidLoss, NEW n \in Nums, NEW m \in Messages, EventText(n, m)
  PROVE  TouchesBoth
<1>1. PICK loss \in Losses :
       LET S == DropAt(Now, n, loss, "address")
           a == AddressOf(n, loss)
           i == Min(Takers(S, a, m))
           f == ~S.ev.doc[a][i].flag
           T == [S EXCEPT !.ev = SetFlag(@, a, i, f),
                          !.view[n].sub = IF loss = "address" THEN @ ELSE f]
       IN  /\ Takers(S, a, m) # {}
           /\ Become(DropAt(IF m.exact THEN T ELSE S, n, loss, "send"))
  BY DEF EventText
<1> DEFINE a == slots[n].ip
           i == Min(Takers(Now, a, m))
           f == ~Now.ev.doc[a][i].flag
           T == [Now EXCEPT !.ev = SetFlag(@, a, i, f), !.view[n].sub = f]
<1>2. loss = "never" /\ DropAt(Now, n, loss, "address") = Now /\ AddressOf(n, loss) = a
  BY NoLoss
<1>3. Takers(Now, a, m) # {} /\ Become(IF m.exact THEN T ELSE Now)
  BY <1>1, <1>2 DEF DropAt
<1>4. a \in Addr /\ ev \in Registry(Events)
  BY DEF SafeInv, Inv, TypeOK, Slot
<1>5. Now.ev = ev /\ Now.ia = ia
  BY DEF Now
<1> HIDE DEF a
<1>6. i \in DOMAIN ev.doc[a]
  <2>1. ev.doc[a] \in Seq(Entry(Events))
    BY <1>4, RegistryFields
  <2>2. Takers(Now, a, m) \subseteq DOMAIN ev.doc[a] /\ DOMAIN ev.doc[a] \subseteq Nat
    BY <1>5, <2>1 DEF Takers
  <2> QED BY <1>3, <2>2, MinIsLeast
<1>7. f \in BOOLEAN
  OBVIOUS
<1> HIDE DEF i, f
<1>8. T.ev = SetFlag(ev, a, i, f) /\ T.ia = ia
  BY DEF Now
<1> HIDE DEF T
<1>9. CASE Become(Now)
  BY <1>5, <1>9, SameTouch DEF Become
<1>10. CASE Become(T)
  <2>1. ev' = SetFlag(ev, a, i, f) /\ ia' = ia
    BY <1>8, <1>10 DEF Become
  <2>2. Touches(ev, ev', Events, BOOLEAN)
    BY <1>4, <1>6, <1>7, <2>1 DEF Touches
  <2> QED BY <2>1, <2>2 DEF TouchesBoth, Touches
<1> QED BY <1>3, <1>9, <1>10

LEMMA ActionTextTouch ==
  ASSUME SafeInv, ~MidLoss, NEW n \in Nums, NEW m \in Messages, ActionText(n, m)
  PROVE  TouchesBoth
<1>1. PICK loss \in Losses :
       LET S == DropAt(Now, n, loss, "address")
           a == AddressOf(n, loss)
           i == Min(Pending(S, a))
       IN  /\ Takers(S, a, m) = {} /\ Pending(S, a) # {}
           /\ Become(DropAt([S EXCEPT !.ia = SetFlag(@, a, i, TRUE)], n, loss, "send"))
           /\ IF loss = "send" THEN UNCHANGED round
                               ELSE MayNotify(S.ia.doc[a][i].key - NumProps, n)
  BY DEF ActionText
<1> DEFINE a == slots[n].ip
           i == Min(Pending(Now, a))
           T == [Now EXCEPT !.ia = SetFlag(@, a, i, TRUE)]
<1>2. loss = "never" /\ DropAt(Now, n, loss, "address") = Now /\ AddressOf(n, loss) = a
  BY NoLoss
<1>3. Pending(Now, a) # {} /\ Become(T)
  BY <1>1, <1>2 DEF DropAt
<1>4. a \in Addr /\ ia \in Registry(Requests)
  BY DEF SafeInv, Inv, TypeOK, Slot
<1>5. Now.ev = ev /\ Now.ia = ia
  BY DEF Now
<1> HIDE DEF a
<1>6. i \in DOMAIN ia.doc[a]
  <2>1. ia.doc[a] \in Seq(Entry(Requests))
    BY <1>4, RegistryFields
  <2>2. Pending(Now, a) \subseteq DOMAIN ia.doc[a] /\ DOMAIN ia.doc[a] \subseteq Nat
    BY <1>5, <2>1 DEF Pending
  <2> QED BY <1>3, <2>2, MinIsLeast
<1> HIDE DEF i
<1>7. T.ia = SetFlag(ia, a, i, TRUE) /\ T.ev = ev
  BY DEF Now
<1> HIDE DEF T
<1>8. ia' = SetFlag(ia, a, i, TRUE) /\ ev' = ev
  BY <1>3, <1>7 DEF Become
<1>9. Touches(ia, ia', Requests, {TRUE})
  BY <1>4, <1>6, <1>8 DEF Touches
<1> QED BY <1>8, <1>9 DEF TouchesBoth, Touches

LEMMA StepTouches ==
  ASSUME ~MidLoss, SafeInv, [Next]_vars
  PROVE  TouchesBoth
<1>1. ASSUME NEW S, Become(S), S = Now PROVE TouchesBoth
  BY <1>1, SameTouch DEF Become, Now
<1>2. ASSUME NEW n \in Nums, Visit(n) PROVE TouchesBoth
  <2>1. CASE Reap(n) \/ Close(n)
    BY <2>1, BecomeDisconnect DEF Reap, Close
  <2>2. CASE UpgradeUnknown(n)
    <3>1. PICK loss \in Losses : Become(Opened(n, loss))
      BY <2>2 DEF UpgradeUnknown
    <3> QED BY <3>1, OpenedFields, SameTouch DEF Become
  <2>3. CASE InvalidText(n)
    BY <2>3, NoLoss DEF InvalidText
  <2>4. CASE Upgrade(n)
    BY <2>2, <2>4, UpgradeEventTouch, UpgradePropertyTouch, UpgradeActionTouch DEF Upgrade
  <2>5. CASE Text(n)
    BY <2>3, <2>5, EventTextTouch, ActionTextTouch DEF Text
  <2> QED BY <1>2, <2>1, <2>4, <2>5 DEF Visit
<1>3. ASSUME Run PROVE TouchesBoth
  <2>1. CASE ScanAddress
    BY <2>1, SameTouch DEF ScanAddress
  <2>2. CASE Notify
    <3> DEFINE n    == IF ev.num[round.ip] = NoNum THEN 0 ELSE ev.num[round.ip]
               lost == slots[n].status # "free" /\ ~slots[n].up
    <3>1. Become(IF lost THEN Disconnect(Now, n) ELSE Now)
      BY <2>2 DEF Notify
    <3>2. round.ip \in Addr
      BY <2>2, RoundFields DEF SafeInv, Inv, TypeOK, Notify
    <3>3. n \in Nums
      BY <3>2, Constants, RegistryFields DEF SafeInv, Inv, TypeOK
    <3> HIDE DEF lost, n
    <3> QED BY <1>1, <3>1, <3>3, BecomeDisconnect
  <2>3. CASE EndRound
    <3> DEFINE n    == round.reply
               lost == n # NoNum /\ slots[n].status # "free" /\ ~slots[n].up
    <3>1. Become(IF lost THEN Disconnect(Now, n) ELSE Now)
      BY <2>3 DEF EndRound
    <3>2. lost => n \in Nums
      BY <2>3, RoundFields DEF SafeInv, Inv, TypeOK, EndRound, Round
    <3> HIDE DEF lost, n
    <3> QED BY <1>1, <3>1, <3>2, BecomeDisconnect
  <2> QED BY <1>3, <2>1, <2>2, <2>3 DEF Run
<1>4. ASSUME \/ Skip \/ UNCHANGED vars
             \/ \E n \in Nums : Lose(n)
             \/ \E action \in Actions : HttpAction(action)
      PROVE  TouchesBoth
  BY <1>4, SameTouch DEF Skip, vars, Lose, HttpAction
<1> QED BY <1>2, <1>3, <1>4, AcceptTouch DEF Next

-------------------------------------------------------------------------------
(* What those changes mean for an address.                                  *)
Ends(a) == \E n \in Nums : /\ slots[n].status = "open" /\ slots[n].ip = a
                          /\ slots'[n].status # "open"

(* Forget empties only the address of the socket, whose slot was open.      *)
LEMMA ForgetEnds ==
  ASSUME NEW K, NEW r \in Registry(K), NEW n \in Nums, NEW a \in Addr, Owned(r, slots),
         slots'[n].status # "open"
  PROVE  Ends(a) \/ Forget(r, n).doc[a] = r.doc[a]
<1>1. CASE ~IsOwner(r, n)
  BY <1>1 DEF Forget
<1>2. CASE IsOwner(r, n)
  <2> DEFINE p == StopsAt(r, n)
             b == r.arr[p].ip
  <2>1. p \in DOMAIN r.arr /\ r.arr[p].num = n
    BY <1>2, StopsAtOwner
  <2>2. Forget(r, n).doc = [r.doc EXCEPT ![b] = << >>] /\ r.doc \in [Addr -> Seq(Entry(K))]
    BY <1>2, RegistryFields DEF Forget
  <2>3. slots[n].status = "open" /\ slots[n].ip = b
    BY <2>1 DEF Owned
  <2> HIDE DEF b, p
  <2>4. CASE a = b
    BY <2>3, <2>4 DEF Ends
  <2>5. CASE a # b
    BY <2>2, <2>5
  <2> QED BY <2>4, <2>5
<1> QED BY <1>1, <1>2

LEMMA TouchErases ==
  ASSUME NEW K, NEW r \in Registry(K), NEW f, Owned(r, slots), NEW Flags, Flags \subseteq BOOLEAN,
         Touches(r, f, K, Flags), NEW a \in Addr, r.doc[a] # << >>, f.doc[a] = << >>
  PROVE  Ends(a)
<1>1. f # r
  OBVIOUS
<1>2. ASSUME NEW b \in Addr, NEW n \in Nums, NEW entry \in Entry(K), f = Record(r, b, n, entry)
      PROVE  FALSE
  BY <1>2, RecordDoc
<1>3. ASSUME NEW b \in Addr, NEW flag \in BOOLEAN, NEW i \in DOMAIN r.doc[b],
             f = SetFlag(r, b, i, flag)
      PROVE  FALSE
  BY <1>3, SetFlagKeeps
<1>4. ASSUME NEW n \in Nums, f = Forget(r, n), slots'[n].status # "open"
      PROVE  Ends(a)
  BY <1>4, ForgetEnds
<1> QED BY <1>1, <1>2, <1>3, <1>4 DEF Touches

SpentIn(s, k) == /\ \E i \in DOMAIN s : s[i].key = k
                 /\ \A i \in DOMAIN s : s[i].key = k => s[i].flag

LEMMA RecordSpent ==
  ASSUME NEW K, NEW r \in Registry(K), NEW b \in Addr, NEW n \in Nums, NEW entry \in Entry(K),
         ~HasKey(r, b, entry.key), NEW f, f = Record(r, b, n, entry),
         NEW a \in Addr, NEW k, SpentIn(r.doc[a], k)
  PROVE  SpentIn(f.doc[a], k)
<1> DEFINE s == r.doc[b]
<1>1. s \in Seq(Entry(K)) /\ r.doc \in [Addr -> Seq(Entry(K))]
  BY RegistryFields
<1>2. f.doc = [r.doc EXCEPT ![b] = Append(s, entry)]
  BY <1>1 DEF Record
<1>3. CASE a # b
  BY <1>1, <1>2, <1>3
<1>4. CASE a = b
  <2>1. /\ Len(Append(s, entry)) = Len(s) + 1 /\ Append(s, entry) \in Seq(Entry(K))
        /\ \A i \in 1 .. Len(s) : Append(s, entry)[i] = s[i]
        /\ Append(s, entry)[Len(s) + 1] = entry
    BY <1>1, AppendProperties
  <2>2. DOMAIN Append(s, entry) = DOMAIN s \cup {Len(s) + 1}
        /\ \A i \in DOMAIN s : Append(s, entry)[i] = s[i]
    BY <1>1, <2>1
  <2>3. entry.key # k
    BY <1>4 DEF SpentIn, HasKey
  <2>4. f.doc[a] = Append(s, entry) /\ SpentIn(s, k)
    BY <1>1, <1>2, <1>4
  <2> HIDE DEF s
  <2> QED BY <2>1, <2>2, <2>3, <2>4 DEF SpentIn
<1> QED BY <1>3, <1>4

LEMMA SetFlagSpent ==
  ASSUME NEW K, NEW r \in Registry(K), NEW b \in Addr, NEW i \in DOMAIN r.doc[b],
         NEW f, f = SetFlag(r, b, i, TRUE), NEW a \in Addr, NEW k, SpentIn(r.doc[a], k)
  PROVE  SpentIn(f.doc[a], k)
<1>1. r.doc[b] \in Seq(Entry(K)) /\ r.doc \in [Addr -> Seq(Entry(K))]
  BY RegistryFields
<1>2. r.doc[b][i] \in Entry(K)
  BY <1>1, ElementOfSeq
<1>3. f.doc = [r.doc EXCEPT ![b] = [r.doc[b] EXCEPT ![i] = [r.doc[b][i] EXCEPT !.flag = TRUE]]]
  BY DEF SetFlag, Registry
<1>4. DOMAIN f.doc[a] = DOMAIN r.doc[a]
  BY <1>1, <1>3
<1>5. ASSUME NEW j \in DOMAIN r.doc[a]
      PROVE  f.doc[a][j].key = r.doc[a][j].key /\ (r.doc[a][j].flag => f.doc[a][j].flag)
  <2> DEFINE x == [r.doc[b][i] EXCEPT !.flag = TRUE]
  <2>1. x.key = r.doc[b][i].key /\ x.flag
    BY <1>2 DEF Entry
  <2>2. f.doc = [r.doc EXCEPT ![b] = [r.doc[b] EXCEPT ![i] = x]]
    BY <1>3
  <2> HIDE DEF x
  <2>3. f.doc[a][j] = IF a = b /\ j = i THEN x ELSE r.doc[a][j]
    BY ZenonT(40), <1>1, <2>2
  <2> QED BY <2>1, <2>3
<1> QED BY <1>4, <1>5 DEF SpentIn

LEMMA TouchSpent ==
  ASSUME NEW K, NEW r \in Registry(K), NEW f, Owned(r, slots), Touches(r, f, K, {TRUE}),
         NEW a \in Addr, NEW k, SpentIn(r.doc[a], k), ~SpentIn(f.doc[a], k)
  PROVE  Ends(a)
<1>1. f # r
  OBVIOUS
<1>2. ASSUME NEW b \in Addr, NEW n \in Nums, NEW entry \in Entry(K),
             ~HasKey(r, b, entry.key), f = Record(r, b, n, entry)
      PROVE  FALSE
  BY <1>2, RecordSpent
<1>3. ASSUME NEW b \in Addr, NEW i \in DOMAIN r.doc[b], f = SetFlag(r, b, i, TRUE)
      PROVE  FALSE
  BY <1>3, SetFlagSpent
<1>4. ASSUME NEW n \in Nums, f = Forget(r, n), slots'[n].status # "open"
      PROVE  Ends(a)
  BY <1>4, ForgetEnds
<1> QED BY <1>1, <1>2, <1>3, <1>4 DEF Touches

LEMMA OwnedNow == SafeInv => Owned(ev, slots) /\ Owned(ia, slots)
BY DEF SafeInv, OwnersOpen, Owned

(* The subscriptions of an address, with every object of the registry kept  *)
(* under it, go only with a channel of that address.                        *)
THEOREM ErasedByOwnChannel ==
  ASSUME ~MidLoss
  PROVE  Spec => OnlyOwnChannelsErase
<1> DEFINE Step == \A a \in IPs :
             ev.doc[a] # << >> /\ ev'.doc[a] = << >> =>
               \E n \in Nums : /\ slots[n].status = "open" /\ slots[n].ip = a
                              /\ slots'[n].status # "open"
<1>1. ASSUME SafeInv, [Next]_vars PROVE Step
  <2> SUFFICES ASSUME NEW a \in IPs, ev.doc[a] # << >>, ev'.doc[a] = << >>
               PROVE  Ends(a)
    BY DEF Ends
  <2>1. ev \in Registry(Events) /\ Owned(ev, slots) /\ a \in Addr
    BY <1>1, OwnedNow, Constants DEF SafeInv, Inv, TypeOK
  <2>2. Touches(ev, ev', Events, BOOLEAN)
    BY <1>1, StepTouches DEF TouchesBoth
  <2> QED BY <2>1, <2>2, TouchErases
<1>2. SafeInv /\ [Next]_vars => [Step]_vars
  BY <1>1
<1> QED BY SafeAlways, <1>2, PTL DEF Spec, OnlyOwnChannelsErase

(* An action channel that served its one request serves no other, however   *)
(* its address connects again, until a channel of the address ends.         *)
THEOREM RequestsServedOnce ==
  ASSUME ~MidLoss
  PROVE  Spec => ServedOnce
<1> DEFINE Step == \A a \in IPs, k \in NumProps + 1 .. NumProps + NumWsActions :
             Spent(a, k) /\ ~Spent(a, k)' =>
               \E n \in Nums : /\ slots[n].status = "open" /\ slots[n].ip = a
                              /\ slots'[n].status # "open"
<1>1. ASSUME SafeInv, [Next]_vars PROVE Step
  <2> SUFFICES ASSUME NEW a \in IPs, NEW k \in NumProps + 1 .. NumProps + NumWsActions,
                      Spent(a, k), ~Spent(a, k)'
               PROVE  Ends(a)
    BY DEF Ends
  <2>1. ia \in Registry(Requests) /\ Owned(ia, slots) /\ a \in Addr
    BY <1>1, OwnedNow, Constants DEF SafeInv, Inv, TypeOK
  <2>2. Touches(ia, ia', Requests, {TRUE})
    BY <1>1, StepTouches DEF TouchesBoth
  <2>3. SpentIn(ia.doc[a], k)
    BY DEF Spent, SpentIn
  <2>4. ~SpentIn(ia'.doc[a], k)
    BY DEF Spent, SpentIn
  <2> QED BY <2>1, <2>2, <2>3, <2>4, TouchSpent
<1>2. SafeInv /\ [Next]_vars => [Step]_vars
  BY <1>1
<1> QED BY SafeAlways, <1>2, PTL DEF Spec, ServedOnce
===============================================================================
