------------------------- MODULE CounterThing_proofs -------------------------
(* What the counter server guarantees for every number of slots and of      *)
(* consumers and every size of its JSON document: types and RecordedOnce    *)
(* always; the ownership of entries, the routing of notifications and the   *)
(* extent of what the loop of notifications misses if no handler loses its  *)
(* own connection half-way.                                                 *)
EXTENDS CounterThing, FiniteSetTheorems, TLAPS

JsonType == [doc : [Nums -> {Absent, 0, 1}], junk : Nat, used : 0 .. PoolSize]

State == [slots : [Nums -> Slot], in : [Nums -> Seq(Requests)],
          out : [Nums -> Seq(Messages)], json : JsonType]

LEMMA Constants ==
  /\ ClientMax \in Nat /\ Nums \subseteq Nat /\ Absent = -1 /\ NoNum \notin Nums
  /\ Free \in Slot /\ Free.status = "free" /\ ~Free.told /\ ~Free.up
  /\ \A k \in Answers : Answer(k) \in Messages
BY SizeAssumption DEF Nums, NoNum, Absent, Free, Slot, Answer, Answers, Messages

-------------------------------------------------------------------------------
(* The document.                                                            *)

(* Memory is only ever taken; an array is empty when it is made.            *)
LEMMA AddArrayFacts ==
  ASSUME NEW J \in JsonType, NEW n \in Nums, J.doc[n] = Absent
  PROVE  /\ AddArray(J, n) \in JsonType
         /\ AddArray(J, n).used >= J.used
         /\ \A m \in Nums \ {n} : AddArray(J, n).doc[m] = J.doc[m]
         /\ AddArray(J, n).doc[n] \in {Absent, 0}
         /\ Fits(J.used, SlotSize + NumKeySize) =>
              /\ AddArray(J, n).doc[n] = 0
              /\ AddArray(J, n).used = J.used + SlotSize + NumKeySize
<1>1. CASE Fits(J.used, SlotSize + NumKeySize)
  <2> DEFINE A == [doc |-> [J.doc EXCEPT ![n] = 0], junk |-> J.junk,
                   used |-> J.used + SlotSize + NumKeySize]
  <2>1. AddArray(J, n) = A
    BY <1>1 DEF AddArray, JsonType
  <2>2. J.used \in Nat /\ J.used + SlotSize + NumKeySize \in 0 .. PoolSize
    BY <1>1, SizeAssumption DEF Fits, JsonType
  <2>3. A.doc \in [Nums -> {Absent, 0, 1}] /\ A.doc[n] = 0
        /\ \A m \in Nums \ {n} : A.doc[m] = J.doc[m]
    BY DEF JsonType
  <2>4. A \in JsonType
    BY <2>2, <2>3 DEF JsonType
  <2>5. A.used >= J.used /\ A.used = J.used + SlotSize + NumKeySize
    BY <2>2, SizeAssumption
  <2> HIDE DEF A
  <2> QED BY <2>1, <2>3, <2>4, <2>5
<1>2. CASE ~Fits(J.used, SlotSize + NumKeySize) /\ Fits(J.used, SlotSize)
  <2>1. AddArray(J, n) = [doc |-> J.doc, junk |-> J.junk + 1, used |-> J.used + SlotSize]
    BY <1>2 DEF AddArray, JsonType
  <2> QED BY <1>2, <2>1, SizeAssumption DEF Fits, JsonType
<1>3. CASE ~Fits(J.used, SlotSize + NumKeySize) /\ ~Fits(J.used, SlotSize)
  <2>1. AddArray(J, n) = J
    BY <1>3 DEF AddArray
  <2> QED BY <1>3, <2>1 DEF JsonType
<1> QED BY <1>1, <1>2, <1>3

LEMMA AddObjectFacts ==
  ASSUME NEW J \in JsonType, NEW n \in Nums, J.doc[n] = 0
  PROVE  /\ AddObject(J, n) \in JsonType
         /\ AddObject(J, n).used >= J.used
         /\ \A m \in Nums \ {n} : AddObject(J, n).doc[m] = J.doc[m]
         /\ AddObject(J, n).doc[n] \in {0, 1}
         /\ Fits(J.used, SlotSize + SlotSize + EventSize) => AddObject(J, n).doc[n] = 1
<1>1. CASE Fits(J.used, SlotSize + SlotSize + EventSize)
  <2> DEFINE A == [doc |-> [J.doc EXCEPT ![n] = 1], junk |-> J.junk,
                   used |-> J.used + SlotSize + SlotSize + EventSize]
  <2>0. [J.doc EXCEPT ![n] = @ + 1] = [J.doc EXCEPT ![n] = 1]
    OBVIOUS
  <2>1. AddObject(J, n) = A
    BY <1>1, <2>0 DEF AddObject, JsonType
  <2>2. J.used \in Nat /\ J.used + SlotSize + SlotSize + EventSize \in 0 .. PoolSize
    BY <1>1, SizeAssumption DEF Fits, JsonType
  <2>3. A.doc \in [Nums -> {Absent, 0, 1}] /\ A.doc[n] = 1
        /\ \A m \in Nums \ {n} : A.doc[m] = J.doc[m]
    BY DEF JsonType
  <2>4. A \in JsonType
    BY <2>2, <2>3 DEF JsonType
  <2>5. A.used >= J.used
    BY <2>2, SizeAssumption
  <2> HIDE DEF A
  <2> QED BY <2>1, <2>3, <2>4, <2>5
<1>2. CASE /\ ~Fits(J.used, SlotSize + SlotSize + EventSize)
           /\ Fits(J.used, SlotSize + SlotSize)
  <2>1. AddObject(J, n) = [doc |-> J.doc, junk |-> J.junk, used |-> J.used + SlotSize + SlotSize]
    BY <1>2 DEF AddObject, JsonType
  <2> QED BY <1>2, <2>1, SizeAssumption DEF Fits, JsonType
<1>3. CASE /\ ~Fits(J.used, SlotSize + SlotSize + EventSize)
           /\ ~Fits(J.used, SlotSize + SlotSize) /\ Fits(J.used, SlotSize)
  <2>1. AddObject(J, n) = [doc |-> J.doc, junk |-> J.junk, used |-> J.used + SlotSize]
    BY <1>3 DEF AddObject, JsonType
  <2> QED BY <1>3, <2>1, SizeAssumption DEF Fits, JsonType
<1>4. CASE /\ ~Fits(J.used, SlotSize + SlotSize + EventSize)
           /\ ~Fits(J.used, SlotSize + SlotSize) /\ ~Fits(J.used, SlotSize)
  <2>1. AddObject(J, n) = J
    BY <1>4 DEF AddObject
  <2> QED BY <1>4, <2>1 DEF JsonType
<1> QED BY <1>1, <1>2, <1>3, <1>4

(* A subscription is recorded once, and recorded if a whole one fits.       *)
LEMMA SubscribeFacts ==
  ASSUME NEW J \in JsonType, NEW n \in Nums
  PROVE  /\ Subscribe(J, n) \in JsonType
         /\ Subscribe(J, n).used >= J.used
         /\ \A m \in Nums \ {n} : Subscribe(J, n).doc[m] = J.doc[m]
         /\ Fits(J.used, Cycle) => Subscribe(J, n).doc[n] = 1
<1> DEFINE A == IF J.doc[n] = Absent THEN AddArray(J, n) ELSE J
           B == IF A.doc[n] = 0 THEN AddObject(A, n) ELSE A
<1>1. /\ A \in JsonType /\ A.used >= J.used
      /\ \A m \in Nums \ {n} : A.doc[m] = J.doc[m]
      /\ Fits(J.used, Cycle) =>
           A.doc[n] \in {0, 1} /\ Fits(A.used, SlotSize + SlotSize + EventSize)
  <2>1. J.used \in Nat /\ J.doc[n] \in {Absent, 0, 1}
    BY DEF JsonType
  <2>2. CASE J.doc[n] = Absent
    <3>1. A = AddArray(J, n)
      BY <2>2
    <3>2. Fits(J.used, Cycle) => Fits(J.used, SlotSize + NumKeySize)
      BY <2>1, SizeAssumption DEF Fits, Cycle
    <3>3. Fits(J.used, Cycle) =>
            A.doc[n] = 0 /\ Fits(A.used, SlotSize + SlotSize + EventSize)
      BY <2>1, <2>2, <3>1, <3>2, AddArrayFacts, SizeAssumption DEF Fits, Cycle
    <3> QED BY <2>2, <3>1, <3>3, AddArrayFacts
  <2>3. CASE J.doc[n] # Absent
    <3>1. A = J
      BY <2>3
    <3> QED BY <2>1, <2>3, <3>1, SizeAssumption DEF Fits, Cycle
  <2> QED BY <2>2, <2>3
<1>2. Subscribe(J, n) = B
  BY DEF Subscribe
<1> HIDE DEF A
<1>3. /\ B \in JsonType /\ B.used >= A.used
      /\ \A m \in Nums \ {n} : B.doc[m] = A.doc[m]
      /\ A.doc[n] \in {0, 1} /\ Fits(A.used, SlotSize + SlotSize + EventSize) => B.doc[n] = 1
  <2>1. CASE A.doc[n] = 0
    BY <1>1, <2>1, AddObjectFacts
  <2>2. CASE A.doc[n] # 0
    <3>1. B = A /\ A.used \in Nat
      BY <1>1, <2>2 DEF JsonType
    <3> QED BY <1>1, <2>2, <3>1
  <2> QED BY <2>1, <2>2
<1> HIDE DEF B
<1>4. B.used >= J.used
  BY <1>1, <1>3 DEF JsonType
<1> QED BY <1>1, <1>2, <1>3, <1>4

-------------------------------------------------------------------------------
(* The types, and that no subscription is recorded twice.                   *)
Inv == TypeOK /\ RecordedOnce

LEMMA NowTyped == Inv => Now \in State
BY DEF Inv, TypeOK, RecordedOnce, Now, Json, State, JsonType

LEMMA BecomeTyped ==
  ASSUME NEW S \in State, Become(S)
  PROVE  /\ slots' \in [Nums -> Slot]
         /\ inbox' \in [Nums -> Seq(Requests)] /\ outbox' \in [Nums -> Seq(Messages)]
         /\ doc' \in [Nums -> Nat \cup {Absent}] /\ RecordedOnce'
         /\ junk' \in Nat /\ used' \in 0 .. PoolSize
BY DEF State, JsonType, Become, RecordedOnce, Absent

LEMMA DisconnectTyped ==
  ASSUME NEW S \in State, NEW n \in Nums
  PROVE  Disconnect(S, n) \in State
<1> DEFINE D == [slots |-> [S.slots EXCEPT ![n] = Free], in |-> [S.in EXCEPT ![n] = << >>],
                 out |-> [S.out EXCEPT ![n] = << >>],
                 json |-> [doc |-> [S.json.doc EXCEPT ![n] = Absent],
                           junk |-> S.json.junk, used |-> S.json.used]]
<1>1. Disconnect(S, n) = D
  <2>1. [S.json EXCEPT !.doc[n] = Absent] = D.json
    <3>1. S.json = [doc |-> S.json.doc, junk |-> S.json.junk, used |-> S.json.used]
      BY DEF State, JsonType
    <3> QED BY <3>1
  <2>2. Disconnect(S, n) = [S EXCEPT !.slots[n] = Free, !.in[n] = << >>, !.out[n] = << >>,
                                     !.json = [S.json EXCEPT !.doc[n] = Absent]]
    BY Zenon DEF Disconnect
  <2> QED BY <2>1, <2>2 DEF State
<1>2. /\ D.slots \in [Nums -> Slot] /\ D.in \in [Nums -> Seq(Requests)]
      /\ D.out \in [Nums -> Seq(Messages)] /\ D.json \in JsonType
  BY Constants DEF State, JsonType
<1>3. D \in State
  BY <1>2 DEF State
<1> HIDE DEF D
<1> QED BY <1>1, <1>3

LEMMA Extended ==
  ASSUME NEW T, NEW s \in Seq(T)
  PROVE  /\ \A t \in T : Append(s, t) \in Seq(T)
         /\ s # << >> => Tail(s) \in Seq(T)
OBVIOUS

LEMMA PutFacts ==
  ASSUME NEW S \in State, NEW n \in Nums, NEW msg \in Messages
  PROVE  Put(S, n, msg) \in State /\ Put(S, n, msg).slots = S.slots
         /\ Put(S, n, msg).json = S.json
<1> DEFINE q == Append(S.out[n], msg)
<1>1. Put(S, n, msg) = [S EXCEPT !.out[n] = q]
  BY DEF Put
<1>2. q \in Seq(Messages)
  BY DEF State
<1> HIDE DEF q
<1> QED BY <1>1, <1>2 DEF State

LEMMA OpenFacts ==
  ASSUME NEW S \in State, NEW n \in Nums
  PROVE  Open(S, n) \in State /\ Open(S, n).json = S.json
         /\ Open(S, n).slots = [S.slots EXCEPT ![n].status = "open"]
<1> DEFINE s == [S.slots EXCEPT ![n].status = "open"]
<1>1. Open(S, n) = [S EXCEPT !.slots = s]
  BY Zenon DEF Open
<1>2. s \in [Nums -> Slot]
  BY DEF State, Slot
<1>3. Open(S, n).slots = s /\ Open(S, n).json = S.json /\ Open(S, n) \in State
  <2> HIDE DEF s
  <2> QED BY <1>1, <1>2 DEF State
<1> QED BY <1>3

LEMMA TellFacts ==
  ASSUME NEW S \in State, NEW n \in Nums
  PROVE  Tell(S, n) \in State /\ Tell(S, n).json = S.json
         /\ Tell(S, n).slots = [S.slots EXCEPT ![n].told = TRUE]
<1> DEFINE s == [S.slots EXCEPT ![n].told = TRUE]
<1>1. Tell(S, n) = [S EXCEPT !.slots = s]
  BY Zenon DEF Tell
<1>2. s \in [Nums -> Slot]
  BY DEF State, Slot
<1>3. Tell(S, n).slots = s /\ Tell(S, n).json = S.json /\ Tell(S, n) \in State
  <2> HIDE DEF s
  <2> QED BY <1>1, <1>2 DEF State
<1> QED BY <1>3

LEMMA KeepFacts ==
  ASSUME NEW S \in State, NEW J \in JsonType
  PROVE  Keep(S, J) \in State /\ Keep(S, J).slots = S.slots /\ Keep(S, J).json = J
BY DEF Keep, State

LEMMA SendTyped ==
  ASSUME NEW S \in State, NEW n \in Nums, NEW msg \in Messages, NEW loss
  PROVE  Send(S, n, loss, msg) \in State
BY DisconnectTyped, PutFacts DEF Send

LEMMA AnswersAreMessages ==
  /\ Answer("switch") \in Messages /\ Answer("Connection confirmed") \in Messages
  /\ Answer("Subscription confirmed") \in Messages
BY DEF Answer, Answers, Messages

LEMMA ReadFacts ==
  ASSUME Inv, NEW n \in Nums, Reading(n)
  PROVE  Read(n) \in State /\ Read(n).slots = slots /\ Read(n).json = Json
<1> DEFINE q == Tail(inbox[n])
           i == [inbox EXCEPT ![n] = q]
<1>1. Read(n) = [slots |-> slots, in |-> i, out |-> outbox, json |-> Json]
  <2>1. Read(n) = [Now EXCEPT !.in = [Now.in EXCEPT ![n] = Tail(Now.in[n])]]
    BY Zenon DEF Read
  <2>2. Now.in = inbox
    BY DEF Now
  <2>3. Read(n) = [Now EXCEPT !.in = i]
    BY <2>1, <2>2
  <2> HIDE DEF i
  <2> QED BY <2>3 DEF Now
<1>2. q \in Seq(Requests)
  BY DEF Inv, TypeOK, Reading
<1>3. i \in [Nums -> Seq(Requests)]
  <2> HIDE DEF q
  <2> QED BY <1>2 DEF Inv, TypeOK
<1> HIDE DEF i
<1> QED BY <1>1, <1>3, NowTyped DEF State, Now

LEMMA CutOffTyped ==
  ASSUME Inv, NEW n, NEW loss, CutOff(n, loss)
  PROVE  cl' \in [Clients -> Client]
<1>1. \A c \in Clients : [cl[c] EXCEPT !.at = NoNum] \in Client /\ cl[c] \in Client
  BY DEF Inv, TypeOK, Client
<1> QED BY <1>1 DEF CutOff

(* The state the handler of an upgrade leaves.                              *)
Greeted(n, loss) ==
  LET R == Put(Open(Read(n), n), n, Answer("switch"))
      T == Send(R, n, loss, Answer("Connection confirmed"))
  IN  IF T.json.doc[n] = Absent THEN Keep(T, AddArray(T.json, n)) ELSE T

(* The state the handler of a subscription leaves.                          *)
Confirmed(n, loss) ==
  LET T == Send(Read(n), n, loss, Answer("Subscription confirmed"))
      U == IF loss = "never" THEN Tell(T, n) ELSE T
  IN  Keep(U, Subscribe(U.json, n))

LEMMA GreetedFacts ==
  ASSUME Inv, NEW n \in Nums, Reading(n), NEW loss
  PROVE  /\ Greeted(n, loss) \in State
         /\ loss = "never" =>
              /\ Greeted(n, loss).slots = [slots EXCEPT ![n].status = "open"]
              /\ Greeted(n, loss).json = IF Json.doc[n] = Absent THEN AddArray(Json, n) ELSE Json
<1> DEFINE R == Put(Open(Read(n), n), n, Answer("switch"))
           T == Send(R, n, loss, Answer("Connection confirmed"))
<1>0. Open(Read(n), n) \in State /\ Open(Read(n), n).json = Json
      /\ Open(Read(n), n).slots = [slots EXCEPT ![n].status = "open"]
  BY ReadFacts, OpenFacts
<1>1. R \in State /\ R.slots = [slots EXCEPT ![n].status = "open"] /\ R.json = Json
  BY <1>0, PutFacts, AnswersAreMessages
<1> HIDE DEF R
<1>2. T \in State
  BY <1>1, SendTyped, AnswersAreMessages
<1>3. loss = "never" => T.slots = R.slots /\ T.json = R.json
  BY <1>1, PutFacts, AnswersAreMessages DEF Send
<1>4. Greeted(n, loss) = IF T.json.doc[n] = Absent THEN Keep(T, AddArray(T.json, n)) ELSE T
  BY DEF Greeted, R
<1> HIDE DEF T
<1>5. T.json \in JsonType
  BY <1>2 DEF State
<1>6. T.json.doc[n] = Absent =>
        /\ Keep(T, AddArray(T.json, n)) \in State
        /\ Keep(T, AddArray(T.json, n)).slots = T.slots
        /\ Keep(T, AddArray(T.json, n)).json = AddArray(T.json, n)
  BY <1>2, <1>5, AddArrayFacts, KeepFacts
<1> QED BY <1>1, <1>2, <1>3, <1>4, <1>6

LEMMA ConfirmedFacts ==
  ASSUME Inv, NEW n \in Nums, Reading(n), NEW loss
  PROVE  /\ Confirmed(n, loss) \in State
         /\ loss = "never" => /\ Confirmed(n, loss).slots = [slots EXCEPT ![n].told = TRUE]
                              /\ Confirmed(n, loss).json = Subscribe(Json, n)
<1> DEFINE T == Send(Read(n), n, loss, Answer("Subscription confirmed"))
           U == IF loss = "never" THEN Tell(T, n) ELSE T
<1>1. T \in State
  BY ReadFacts, SendTyped, AnswersAreMessages
<1>2. loss = "never" => T.slots = slots /\ T.json = Json
  BY ReadFacts, PutFacts, AnswersAreMessages DEF Send
<1>3. Confirmed(n, loss) = Keep(U, Subscribe(U.json, n))
  BY DEF Confirmed
<1> HIDE DEF T
<1>4. U \in State
      /\ (loss = "never" => U.slots = [slots EXCEPT ![n].told = TRUE] /\ U.json = Json)
  BY <1>1, <1>2, TellFacts
<1> HIDE DEF U
<1>5. U.json \in JsonType
  BY <1>4 DEF State
<1>6. /\ Keep(U, Subscribe(U.json, n)) \in State
      /\ Keep(U, Subscribe(U.json, n)).slots = U.slots
      /\ Keep(U, Subscribe(U.json, n)).json = Subscribe(U.json, n)
  BY <1>4, <1>5, SubscribeFacts, KeepFacts
<1> QED BY <1>3, <1>4, <1>6

LEMMA HandlerTyped ==
  ASSUME Inv, NEW S \in State, Become(S), cl' \in [Clients -> Client],
         UNCHANGED value, round' \in Round
  PROVE  Inv'
BY BecomeTyped DEF Inv, TypeOK

LEMMA VisitTyped ==
  ASSUME Inv, NEW n \in Nums, Visit(n)
  PROVE  Inv'
<1>1. Now \in State /\ cl \in [Clients -> Client] /\ round \in Round
  BY NowTyped DEF Inv, TypeOK
<1>2. CASE Upgrade(n)
  <2>1. PICK loss \in Losses : Become(Greeted(n, loss)) /\ CutOff(n, loss)
    BY <1>2 DEF Upgrade, Greeted
  <2>2. Reading(n) /\ UNCHANGED <<value, round>>
    BY <1>2 DEF Upgrade
  <2> QED BY <1>1, <2>1, <2>2, GreetedFacts, CutOffTyped, HandlerTyped
<1>3. CASE SubscribeText(n)
  <2>1. PICK loss \in Losses : Become(Confirmed(n, loss)) /\ CutOff(n, loss)
    BY <1>3 DEF SubscribeText, Confirmed
  <2>2. Reading(n) /\ UNCHANGED <<value, round>>
    BY <1>3 DEF SubscribeText
  <2> QED BY <1>1, <2>1, <2>2, ConfirmedFacts, CutOffTyped, HandlerTyped
<1>4. CASE OtherText(n)
  <2>1. PICK loss \in Losses :
          /\ Become(IF loss = "inside" THEN Disconnect(Now, n) ELSE Read(n))
          /\ CutOff(n, loss)
    BY <1>4 DEF OtherText
  <2>2. Reading(n) /\ UNCHANGED <<value, round>>
    BY <1>4 DEF OtherText
  <2>3. (IF loss = "inside" THEN Disconnect(Now, n) ELSE Read(n)) \in State
    BY <1>1, <2>2, DisconnectTyped, ReadFacts
  <2> QED BY <1>1, <2>1, <2>2, <2>3, CutOffTyped, HandlerTyped
<1>5. CASE Reap(n)
  BY <1>1, <1>5, DisconnectTyped, HandlerTyped DEF Reap
<1> QED BY <1>2, <1>3, <1>4, <1>5 DEF Visit

LEMMA NotifyTyped ==
  ASSUME Inv, Notify
  PROVE  Inv'
<1>1. Now \in State /\ cl \in [Clients -> Client] /\ round \in Round /\ Busy
  BY NowTyped DEF Inv, TypeOK, Notify, NotifySlot, EndRound
<1>2. CASE NotifySlot
  <2> DEFINE n     == round.i
             due   == n \in Nums /\ doc[n] > 0
             lost  == due /\ slots[n].status # "free" /\ ~slots[n].up
             sends == due /\ slots[n].status = "open" /\ slots[n].up
             msg   == [kind |-> "change", value |-> value]
             B     == Put(Now, n, msg)
  <2>1. n \in Nat /\ value \in Nat /\ msg \in Messages
    BY <1>1 DEF Inv, TypeOK, Round, Busy, NoNum, Messages
  <2>2. /\ Become(IF lost THEN Disconnect(Now, n) ELSE IF sends THEN B ELSE Now)
        /\ round' = [i |-> n + 1, sent |-> IF sends THEN round.sent \cup {n} ELSE round.sent]
        /\ UNCHANGED <<value, cl>>
    BY <1>2 DEF NotifySlot
  <2>3. sends => n \in Nums
    OBVIOUS
  <2>4. ASSUME n \in Nums PROVE B \in State /\ Disconnect(Now, n) \in State
    BY <1>1, <2>1, <2>4, PutFacts, DisconnectTyped
  <2>5. round' \in Round
    BY <1>1, <2>1, <2>2, <2>3 DEF Round
  <2> HIDE DEF B
  <2>6. (IF lost THEN Disconnect(Now, n) ELSE IF sends THEN B ELSE Now) \in State
    BY <1>1, <2>4
  <2> HIDE DEF n, lost, sends
  <2> QED BY <1>1, <2>2, <2>5, <2>6, HandlerTyped
<1>3. CASE EndRound
  <2>1. round' \in Round /\ UNCHANGED <<slots, inbox, outbox, doc, junk, used, value, cl>>
    BY <1>3 DEF EndRound, Idle, Round
  <2> QED BY <2>1 DEF Inv, TypeOK, RecordedOnce
<1> QED BY <1>2, <1>3 DEF Notify

(* The state newClient leaves for the new connection.                       *)
Accepted(S, n) ==
  [S EXCEPT !.slots[n] = [status |-> "header", up |-> TRUE, told |-> FALSE],
            !.in[n] = <<"upgrade">>, !.out[n] = << >>]

LEMMA AcceptedFacts ==
  ASSUME NEW S \in State, NEW n \in Nums
  PROVE  /\ Accepted(S, n) \in State /\ Accepted(S, n).json = S.json
         /\ Accepted(S, n).slots = [S.slots EXCEPT ![n] = [status |-> "header", up |-> TRUE, told |-> FALSE]]
<1> DEFINE s == [status |-> "header", up |-> TRUE, told |-> FALSE]
           q == <<"upgrade">>
<1>1. s \in Slot /\ q \in Seq(Requests)
  BY DEF Slot, Requests
<1>2. Accepted(S, n) = [S EXCEPT !.slots = [S.slots EXCEPT ![n] = s],
                                 !.in = [S.in EXCEPT ![n] = q],
                                 !.out = [S.out EXCEPT ![n] = << >>]]
  BY Zenon DEF Accepted, s, q
<1> HIDE DEF s, q
<1>3. /\ [S.slots EXCEPT ![n] = s] \in [Nums -> Slot]
      /\ [S.in EXCEPT ![n] = q] \in [Nums -> Seq(Requests)]
      /\ [S.out EXCEPT ![n] = << >>] \in [Nums -> Seq(Messages)]
  BY <1>1 DEF State
<1>4. Accepted(S, n) = [slots |-> [S.slots EXCEPT ![n] = s], in |-> [S.in EXCEPT ![n] = q],
                        out |-> [S.out EXCEPT ![n] = << >>], json |-> S.json]
  BY <1>2 DEF State
<1>5. Accepted(S, n) \in State /\ Accepted(S, n).json = S.json
      /\ Accepted(S, n).slots = [S.slots EXCEPT ![n] = s]
  BY <1>3, <1>4 DEF State
<1> QED BY <1>5 DEF s

LEMMA ConnectTyped ==
  ASSUME Inv, NEW c \in Clients, Connect(c)
  PROVE  Inv'
<1>1. Now \in State /\ cl \in [Clients -> Client] /\ round \in Round
  BY NowTyped DEF Inv, TypeOK
<1>2. PICK n \in Usable :
        /\ Become(Accepted(IF slots[n].status = "free" THEN Now ELSE Disconnect(Now, n), n))
        /\ cl' = [cl EXCEPT ![c].status = "header", ![c].at = n]
  BY DEF Connect, Accepted
<1>3. n \in Nums /\ UNCHANGED <<value, round>>
  BY DEF Connect, Usable
<1>4. (IF slots[n].status = "free" THEN Now ELSE Disconnect(Now, n)) \in State
  BY <1>1, <1>3, DisconnectTyped
<1>5. \A S \in State : Accepted(S, n) \in State
  BY <1>3, AcceptedFacts
<1>6. cl' \in [Clients -> Client]
  <2>1. [cl[c] EXCEPT !.status = "header", !.at = n] \in Client
    BY <1>1, <1>3 DEF Client
  <2> QED BY <1>1, <1>2, <2>1
<1> QED BY <1>1, <1>2, <1>3, <1>4, <1>5, <1>6, HandlerTyped

LEMMA ConsumerTyped ==
  ASSUME Inv, NEW c \in Clients, Receive(c) \/ Notice(c) \/ Post(c) \/ AskAgain(c)
  PROVE  Inv'
<1> DEFINE n == cl[c].at
<1>0. "Connected" \in Requests /\ "Subscribe change" \in Requests
  BY DEF Requests
<1>1. cl[c] \in Client /\ cl \in [Clients -> Client] /\ (Up(c) => n \in Nums)
  BY DEF Inv, TypeOK, Up, Client
<1>2. CASE Receive(c)
  <2>1. Up(c) /\ n \in Nums /\ outbox[n] # << >> /\ outbox[n] \in Seq(Messages)
        /\ inbox[n] \in Seq(Requests)
    BY <1>1, <1>2 DEF Receive, Inv, TypeOK
  <2>2. Tail(outbox[n]) \in Seq(Messages) /\ Append(inbox[n], "Connected") \in Seq(Requests)
        /\ Append(inbox[n], "Subscribe change") \in Seq(Requests)
    BY ONLY <1>0, <2>1, Extended
  <2>3. outbox' \in [Nums -> Seq(Messages)] /\ inbox' \in [Nums -> Seq(Requests)]
    BY <1>2, <2>1, <2>2 DEF Receive, Inv, TypeOK
  <2>4. cl' \in [Clients -> Client]
    BY <1>1, <1>2 DEF Receive, Client
  <2>5. UNCHANGED <<slots, doc, junk, used, value, round>>
    BY <1>2 DEF Receive
  <2> QED BY <2>3, <2>4, <2>5 DEF Inv, TypeOK, RecordedOnce
<1>3. CASE Notice(c)
  <2>1. cl' \in [Clients -> Client]
    BY <1>1, <1>3 DEF Notice, Client
  <2> QED BY <1>3, <2>1 DEF Notice, server, Inv, TypeOK, RecordedOnce
<1>4. CASE Post(c)
  <2>1. value' \in 0 .. MaxValue /\ round' \in Round
    BY <1>4, CounterAssumption DEF Post, HandleReq4, Inv, TypeOK, Round
  <2> QED BY <1>4, <2>1 DEF Post, Inv, TypeOK, RecordedOnce
<1>5. CASE AskAgain(c)
  <2>1. n \in Nums /\ inbox[n] \in Seq(Requests)
    BY <1>1, <1>5 DEF AskAgain, Inv, TypeOK
  <2>2. Append(inbox[n], "Subscribe change") \in Seq(Requests)
    BY ONLY <1>0, <2>1, Extended
  <2>3. inbox' \in [Nums -> Seq(Requests)]
    BY <1>5, <2>1, <2>2 DEF AskAgain, Inv, TypeOK
  <2> QED BY <1>5, <2>3 DEF AskAgain, Inv, TypeOK, RecordedOnce
<1> QED BY <1>2, <1>3, <1>4, <1>5

LEMMA NetworkTyped ==
  ASSUME Inv, (\E c \in Clients : Lose(c)) \/ (\E n \in Nums : Lapse(n))
  PROVE  Inv'
<1>1. ASSUME NEW n \in Nums PROVE [slots EXCEPT ![n].up = FALSE] \in [Nums -> Slot]
  BY <1>1 DEF Inv, TypeOK, Slot
<1>2. ASSUME NEW c \in Clients, Lose(c) PROVE Inv'
  <2>1. cl[c].at \in Nums
    BY <1>2 DEF Lose, Up, Inv, TypeOK, Client
  <2>2. cl' \in [Clients -> Client]
    <3>1. [cl[c] EXCEPT !.at = NoNum] \in Client
      BY DEF Inv, TypeOK, Client
    <3> QED BY <1>2, <3>1 DEF Lose, Inv, TypeOK
  <2>3. << >> \in Seq(Messages) /\ << >> \in Seq(Requests)
    OBVIOUS
  <2>4. PICK n : n = cl[c].at
    OBVIOUS
  <2>5. outbox' = [outbox EXCEPT ![n] = << >>]
    BY <1>2, <2>4 DEF Lose
  <2>6. outbox' \in [Nums -> Seq(Messages)]
    BY <2>1, <2>3, <2>4, <2>5 DEF Inv, TypeOK
  <2>7. \/ UNCHANGED <<slots, inbox>>
        \/ slots' = [slots EXCEPT ![n].up = FALSE] /\ inbox' = [inbox EXCEPT ![n] = << >>]
    BY <1>2, <2>4 DEF Lose
  <2>8. slots' \in [Nums -> Slot]
    BY <1>1, <2>1, <2>4, <2>7 DEF Inv, TypeOK
  <2>9. inbox' \in [Nums -> Seq(Requests)]
    BY <2>1, <2>3, <2>4, <2>7 DEF Inv, TypeOK
  <2> QED BY <1>2, <2>2, <2>6, <2>8, <2>9 DEF Lose, Inv, TypeOK, RecordedOnce
<1>3. ASSUME NEW n \in Nums, Lapse(n) PROVE Inv'
  <2>1. slots' \in [Nums -> Slot] /\ inbox' \in [Nums -> Seq(Requests)]
        /\ outbox' \in [Nums -> Seq(Messages)]
    BY <1>1, <1>3 DEF Lapse, Inv, TypeOK
  <2> QED BY <1>3, <2>1 DEF Lapse, Inv, TypeOK, RecordedOnce
<1> QED BY <1>2, <1>3

LEMMA InvInit == Init => Inv
BY Constants, SizeAssumption, CounterAssumption
   DEF Init, Inv, TypeOK, RecordedOnce, Idle, Round, Client, Absent

LEMMA InvNext == Inv /\ [Next]_vars => Inv'
<1> SUFFICES ASSUME Inv, [Next]_vars PROVE Inv'
  OBVIOUS
<1>1. CASE UNCHANGED vars
  BY <1>1 DEF vars, Inv, TypeOK, RecordedOnce
<1>2. CASE Next
  BY <1>2, VisitTyped, NotifyTyped, ConnectTyped, ConsumerTyped, NetworkTyped
     DEF Next, Consume
<1> QED BY <1>1, <1>2

(* However often a consumer asks, it loses its connection or its slot       *)
(* changes hands, a slot is recorded for the event at most once             *)
(* (Thing_WebServer.ino, lines 394-409).                                    *)
THEOREM RecordedAtMostOnce == Spec => []RecordedOnce
<1>1. Inv => RecordedOnce
  BY DEF Inv
<1> QED
  BY <1>1, InvInit, InvNext, PTL DEF Spec

(* Whatever is connected, lost, sent and posted, the records of the server *)
(* keep their shape, and what is used of the document stays a number.      *)
THEOREM CounterTyped == Spec => []TypeOK
<1>1. Inv => TypeOK
  BY DEF Inv
<1> QED
  BY <1>1, InvInit, InvNext, PTL DEF Spec

-------------------------------------------------------------------------------
(* The entries of doc and the channels they stand for, if no handler loses  *)
(* its own connection half-way.                                             *)
Owned(S, n) ==
  /\ S.json.doc[n] # Absent => S.slots[n].status = "open"
  /\ S.slots[n].told => S.slots[n].status = "open"
  /\ S.json.doc[n] > 0 => S.slots[n].told
  /\ S.slots[n].told => S.json.doc[n] > 0 \/ ~Fits(S.json.used, Cycle)

Sound(S) == \A n \in Nums : Owned(S, n)

(* Every live subscriber the loop has passed was sent the notification.     *)
Behind == Busy => \A m \in Nums : m < round.i /\ Live(m) => m \in round.sent

Strong == Inv /\ Sound(Now) /\ Behind

LEMMA BecomeSound ==
  ASSUME NEW S \in State, Become(S), Sound(S)
  PROVE  Sound(Now)'
<1>1. Now' = [slots |-> S.slots, in |-> S.in, out |-> S.out,
              json |-> [doc |-> S.json.doc, junk |-> S.json.junk, used |-> S.json.used]]
  BY DEF Now, Json, Become
<1>2. Now'.slots = S.slots /\ Now'.json.doc = S.json.doc /\ Now'.json.used = S.json.used
  BY <1>1
<1>3. \A n \in Nums : Owned(S, n) = Owned(Now, n)'
  BY <1>2 DEF Owned, Fits
<1> QED BY <1>3 DEF Sound

LEMMA DisconnectFields ==
  ASSUME NEW S \in State, NEW n \in Nums
  PROVE  /\ Disconnect(S, n).slots = [S.slots EXCEPT ![n] = Free]
         /\ Disconnect(S, n).json.doc = [S.json.doc EXCEPT ![n] = Absent]
         /\ Disconnect(S, n).json.used = S.json.used
<1>1. [S.json EXCEPT !.doc[n] = Absent].doc = [S.json.doc EXCEPT ![n] = Absent]
      /\ [S.json EXCEPT !.doc[n] = Absent].used = S.json.used
  <2>1. S.json = [doc |-> S.json.doc, junk |-> S.json.junk, used |-> S.json.used]
    BY DEF State, JsonType
  <2> QED BY <2>1
<1> DEFINE j == [S.json EXCEPT !.doc[n] = Absent]
<1>2. Disconnect(S, n) = [S EXCEPT !.slots = [S.slots EXCEPT ![n] = Free],
                                   !.in = [S.in EXCEPT ![n] = << >>],
                                   !.out = [S.out EXCEPT ![n] = << >>], !.json = j]
  BY Zenon DEF Disconnect
<1>3. j.doc = [S.json.doc EXCEPT ![n] = Absent] /\ j.used = S.json.used
  BY <1>1
<1> HIDE DEF j
<1> QED BY <1>2, <1>3 DEF State

LEMMA DisconnectSound ==
  ASSUME NEW S \in State, Sound(S), NEW n \in Nums
  PROVE  Sound(Disconnect(S, n)) /\ ~Disconnect(S, n).slots[n].told
         /\ Disconnect(S, n).json.doc[n] = Absent
<1> DEFINE D == Disconnect(S, n)
<1>1. /\ D.slots = [S.slots EXCEPT ![n] = Free]
      /\ D.json.doc = [S.json.doc EXCEPT ![n] = Absent] /\ D.json.used = S.json.used
  BY DisconnectFields
<1>2. /\ D.slots[n] = Free /\ D.json.doc[n] = Absent
      /\ \A m \in Nums \ {n} : D.slots[m] = S.slots[m] /\ D.json.doc[m] = S.json.doc[m]
  BY <1>1 DEF State, JsonType
<1> HIDE DEF D
<1>3. Owned(D, n)
  BY <1>2, Constants DEF Owned
<1>4. \A m \in Nums \ {n} : Owned(D, m)
  BY <1>1, <1>2 DEF Owned, Sound
<1> QED BY <1>2, <1>3, <1>4, Constants DEF Sound, D


(* A step outside of a round that leaves slots and doc sound.               *)
LEMMA StrongHandler ==
  ASSUME Strong, Inv', NEW S \in State, Become(S), Sound(S), ~Busy, UNCHANGED round
  PROVE  Strong'
<1>1. ~Busy' /\ Sound(Now)'
  BY BecomeSound DEF Busy
<1> QED BY <1>1 DEF Strong, Behind

(* An entry of a slot that stays away from a change.                        *)
LEMMA OwnedElsewhere ==
  ASSUME NEW S, NEW R, NEW n \in Nums, Owned(S, n), S.slots[n] = R.slots[n],
         S.json.doc[n] = R.json.doc[n], S.json.used \in Nat, R.json.used \in Nat,
         R.json.used >= S.json.used
  PROVE  Owned(R, n)
<1>1. Cycle \in Nat /\ PoolSize \in Nat
  BY SizeAssumption DEF Cycle
<1>2. ~Fits(S.json.used, Cycle) => ~Fits(R.json.used, Cycle)
  BY <1>1 DEF Fits
<1> QED BY <1>2 DEF Owned

LEMMA VisitStrong ==
  ASSUME ~MidLoss, Strong, NEW n \in Nums, Visit(n)
  PROVE  Strong'
<1>1. /\ Inv /\ Inv' /\ Now \in State /\ Sound(Now) /\ Json \in JsonType /\ Json.used \in Nat
      /\ slots \in [Nums -> Slot] /\ Losses = {"never"}
      /\ Now.slots = slots /\ Now.json = Json
  BY NowTyped, VisitTyped DEF Strong, State, Now, JsonType, Losses
<1>2. CASE Upgrade(n)
  <2>1. PICK loss \in Losses : Become(Greeted(n, loss)) /\ CutOff(n, loss)
    BY <1>2 DEF Upgrade, Greeted
  <2>2. Reading(n) /\ ~Busy /\ UNCHANGED round /\ slots[n].status = "header"
    BY <1>2 DEF Upgrade, Reading
  <2> DEFINE S == Greeted(n, loss)
  <2>3. /\ S \in State /\ S.slots = [slots EXCEPT ![n].status = "open"]
        /\ S.json = IF Json.doc[n] = Absent THEN AddArray(Json, n) ELSE Json
    BY <1>1, <2>2, GreetedFacts
  <2> HIDE DEF S
  <2>4. Json.doc[n] = Absent /\ ~slots[n].told
    BY <1>1, <2>2 DEF Sound, Owned
  <2>5. /\ S.json.used \in Nat /\ S.json.used >= Json.used /\ S.json.doc[n] \in {Absent, 0}
        /\ \A m \in Nums \ {n} : S.json.doc[m] = Json.doc[m] /\ S.slots[m] = slots[m]
        /\ S.slots[n].status = "open" /\ ~S.slots[n].told
    <3>1. S.json = AddArray(Json, n)
      BY <2>3, <2>4
    <3>2. S.json.used \in Nat
      BY <2>3 DEF State, JsonType
    <3>3. S.slots[n] = [slots[n] EXCEPT !.status = "open"] /\ slots[n] \in Slot
      BY <1>1, <2>3
    <3>4. S.slots[n].status = "open" /\ ~S.slots[n].told
      BY <2>4, <3>3 DEF Slot
    <3>5. \A m \in Nums \ {n} : S.slots[m] = slots[m]
      BY <1>1, <2>3
    <3> QED BY <1>1, <2>4, <3>1, <3>2, <3>4, <3>5, AddArrayFacts
  <2>6. \A m \in Nums \ {n} : Owned(S, m)
    BY <1>1, <2>5, OwnedElsewhere DEF Sound
  <2>7. Owned(S, n)
    BY <2>5 DEF Owned, Absent
  <2> QED BY <1>1, <2>1, <2>2, <2>3, <2>6, <2>7, StrongHandler DEF Sound, S
<1>3. CASE SubscribeText(n)
  <2>1. PICK loss \in Losses : Become(Confirmed(n, loss)) /\ CutOff(n, loss)
    BY <1>3 DEF SubscribeText, Confirmed
  <2>2. Reading(n) /\ ~Busy /\ UNCHANGED round /\ slots[n].status = "open"
    BY <1>3 DEF SubscribeText, Reading
  <2> DEFINE S == Confirmed(n, loss)
  <2>3. /\ S \in State /\ S.slots = [slots EXCEPT ![n].told = TRUE]
        /\ S.json = Subscribe(Json, n)
    BY <1>1, <2>2, ConfirmedFacts
  <2> HIDE DEF S
  <2>4. /\ S.json.used \in Nat /\ S.json.used >= Json.used
        /\ Fits(Json.used, Cycle) => S.json.doc[n] = 1
        /\ \A m \in Nums \ {n} : S.json.doc[m] = Json.doc[m] /\ S.slots[m] = slots[m]
        /\ S.slots[n].status = "open" /\ S.slots[n].told
    <3>1. S.json.used \in Nat
      BY <2>3 DEF State, JsonType
    <3>2. S.slots[n] = [slots[n] EXCEPT !.told = TRUE] /\ slots[n] \in Slot
      BY <1>1, <2>3
    <3>3. S.slots[n].status = "open" /\ S.slots[n].told
      BY <2>2, <3>2 DEF Slot
    <3>4. \A m \in Nums \ {n} : S.slots[m] = slots[m]
      BY <1>1, <2>3
    <3> QED BY <1>1, <2>3, <3>1, <3>3, <3>4, SubscribeFacts
  <2>5. \A m \in Nums \ {n} : Owned(S, m)
    BY <1>1, <2>4, OwnedElsewhere DEF Sound
  <2>6. ~Fits(Json.used, Cycle) => ~Fits(S.json.used, Cycle)
    BY <1>1, <2>4, SizeAssumption DEF Fits, Cycle
  <2>7. Owned(S, n)
    BY <2>4, <2>6 DEF Owned
  <2> QED BY <1>1, <2>1, <2>2, <2>3, <2>5, <2>7, StrongHandler DEF Sound, S
<1>4. CASE OtherText(n)
  <2>1. Become(Read(n))
    BY <1>1, <1>4 DEF OtherText
  <2>2. Reading(n) /\ ~Busy /\ UNCHANGED round
    BY <1>4 DEF OtherText, Reading
  <2>3. Read(n) \in State /\ Sound(Read(n))
    BY <1>1, <2>2, ReadFacts DEF Sound, Owned
  <2> QED BY <1>1, <2>1, <2>2, <2>3, StrongHandler
<1>5. CASE Reap(n)
  <2>1. Disconnect(Now, n) \in State /\ Sound(Disconnect(Now, n))
    BY <1>1, DisconnectTyped, DisconnectSound
  <2> QED BY <1>1, <1>5, <2>1, StrongHandler DEF Reap
<1> QED BY <1>2, <1>3, <1>4, <1>5 DEF Visit

LEMMA NotifyStrong ==
  ASSUME Strong, Notify
  PROVE  Strong'
<1>1. /\ Inv /\ Inv' /\ Now \in State /\ Sound(Now) /\ Behind /\ Busy /\ round.i \in Nat
      /\ Now.slots = slots /\ Now.json.doc = doc /\ round.sent \in SUBSET Nums
      /\ doc \in [Nums -> {Absent, 0, 1}] /\ slots \in [Nums -> Slot]
  BY NowTyped, NotifyTyped
     DEF Strong, Notify, NotifySlot, EndRound, Inv, TypeOK, RecordedOnce, Round, Busy, Now, Json
<1>2. CASE NotifySlot
  <2> DEFINE n     == round.i
             due   == n \in Nums /\ doc[n] > 0
             lost  == due /\ slots[n].status # "free" /\ ~slots[n].up
             sends == due /\ slots[n].status = "open" /\ slots[n].up
             msg   == [kind |-> "change", value |-> value]
             S     == IF lost THEN Disconnect(Now, n) ELSE IF sends THEN Put(Now, n, msg) ELSE Now
  <2>1. /\ Become(S)
        /\ round' = [i |-> n + 1, sent |-> IF sends THEN round.sent \cup {n} ELSE round.sent]
    BY <1>2 DEF NotifySlot
  <2>2. lost => Disconnect(Now, n) \in State /\ Sound(Disconnect(Now, n))
    BY <1>1, DisconnectTyped, DisconnectSound
  <2>3. sends => Put(Now, n, msg) \in State /\ Sound(Put(Now, n, msg))
                 /\ Put(Now, n, msg).slots = slots /\ Put(Now, n, msg).json.doc = doc
    <3>1. msg \in Messages
      BY <1>1 DEF Inv, TypeOK, Messages
    <3> HIDE DEF msg
    <3> QED BY <1>1, <3>1, PutFacts DEF Sound, Owned
  <2>4. S \in State /\ Sound(S)
    BY <1>1, <2>2, <2>3
  <2>5. Sound(Now)'
    BY <2>1, <2>4, BecomeSound
  <2>6. /\ round'.i = n + 1 /\ round.sent \subseteq round'.sent /\ (sends => n \in round'.sent)
    BY <1>1, <2>1
  <2>7. ASSUME NEW m \in Nums, m < round'.i, Live(m)' PROVE m \in round'.sent
    <3>1. /\ slots'[m] = S.slots[m] /\ doc'[m] = S.json.doc[m]
      BY <2>1 DEF Become
    <3>2. S.slots[m].status = "open" /\ S.slots[m].up /\ S.json.doc[m] > 0
      BY <2>7, <3>1 DEF Live
    <3>3. CASE lost
      <4>1. S.slots = [slots EXCEPT ![n] = Free] /\ S.json.doc = [doc EXCEPT ![n] = Absent]
        BY <1>1, <3>3, DisconnectFields
      <4>2. m # n
        <5>1. n \in Nums
          BY <3>3
        <5> HIDE DEF n
        <5>2. [doc EXCEPT ![n] = Absent][n] = Absent
          BY <1>1, <5>1
        <5>3. S.json.doc[n] = Absent
          BY <4>1, <5>2
        <5> QED BY <3>2, <5>3 DEF Absent
      <4>3. S.slots[m] = slots[m] /\ S.json.doc[m] = doc[m]
        BY <1>1, <4>1, <4>2
      <4> QED BY <1>1, <2>6, <2>7, <3>2, <4>2, <4>3, Constants DEF Behind, Live
    <3>4. CASE ~lost
      <4>1. S.slots = slots /\ S.json.doc = doc
        BY <1>1, <2>3, <3>4
      <4>2. Live(m)
        BY <3>2, <4>1 DEF Live
      <4>3. CASE m = n
        BY <2>6, <4>2, <4>3 DEF Live
      <4>4. CASE m # n
        BY <1>1, <2>6, <2>7, <4>2, <4>4, Constants DEF Behind
      <4> QED BY <4>3, <4>4
    <3> QED BY <3>3, <3>4
  <2> HIDE DEF S
  <2> QED BY <1>1, <2>5, <2>7 DEF Strong, Behind
<1>3. CASE EndRound
  <2>1. ~Busy' /\ Now' = Now
    BY <1>3 DEF EndRound, Busy, Idle, Now, Json
  <2> QED BY <1>1, <2>1 DEF Strong, Behind, Sound, Owned, Fits
<1> QED BY <1>2, <1>3 DEF Notify

LEMMA ConnectStrong ==
  ASSUME Strong, NEW c \in Clients, Connect(c)
  PROVE  Strong'
<1>1. /\ Inv /\ Inv' /\ Now \in State /\ Sound(Now) /\ Now.slots = slots /\ Now.json = Json
      /\ ~Busy /\ UNCHANGED round
  BY NowTyped, ConnectTyped DEF Strong, Connect, Now
<1>2. PICK n \in Usable :
        Become(Accepted(IF slots[n].status = "free" THEN Now ELSE Disconnect(Now, n), n))
  BY DEF Connect, Accepted
<1> DEFINE S == IF slots[n].status = "free" THEN Now ELSE Disconnect(Now, n)
<1>3. n \in Nums
  BY DEF Usable
<1>4. S \in State /\ Sound(S) /\ S.json.doc[n] = Absent
  <2>1. CASE slots[n].status = "free"
    BY <1>1, <1>3, <2>1 DEF Sound, Owned
  <2>2. CASE slots[n].status # "free"
    BY <1>1, <1>3, <2>2, DisconnectTyped, DisconnectSound
  <2> QED BY <2>1, <2>2
<1> HIDE DEF S
<1>5. /\ Accepted(S, n) \in State /\ Accepted(S, n).json = S.json
      /\ Accepted(S, n).slots = [S.slots EXCEPT ![n] = [status |-> "header", up |-> TRUE, told |-> FALSE]]
  BY <1>3, <1>4, AcceptedFacts
<1>6. Sound(Accepted(S, n))
  <2>1. ~Accepted(S, n).slots[n].told /\ \A m \in Nums \ {n} : Accepted(S, n).slots[m] = S.slots[m]
    BY <1>3, <1>4, <1>5 DEF State
  <2>2. Owned(Accepted(S, n), n)
    BY <1>4, <1>5, <2>1 DEF Owned, Absent
  <2>3. \A m \in Nums \ {n} : Owned(Accepted(S, n), m)
    BY <1>4, <1>5, <2>1 DEF Owned, Sound
  <2> QED BY <2>2, <2>3 DEF Sound
<1> QED BY <1>1, <1>2, <1>5, <1>6, StrongHandler DEF S

LEMMA ConsumerStrong ==
  ASSUME Strong, NEW c \in Clients, Receive(c) \/ Notice(c) \/ Post(c) \/ AskAgain(c)
  PROVE  Strong'
<1>1. Inv /\ Inv'
  BY ConsumerTyped DEF Strong
<1>2. UNCHANGED <<slots, doc, used>> /\ (UNCHANGED round \/ round' = [i |-> 0, sent |-> {}])
  BY DEF Receive, Notice, Post, AskAgain, HandleReq4, server
<1>3. Sound(Now)'
  BY <1>2 DEF Strong, Sound, Owned, Now, Json, Fits
<1>4. Behind'
  BY <1>2, Constants DEF Strong, Behind, Live, Busy, NoNum, Nums
<1> QED BY <1>1, <1>3, <1>4 DEF Strong

(* A connection that is lost, or whose loss is learnt of, is live no more.  *)
LEMMA LostStrong ==
  ASSUME Strong, Inv', NEW n \in Nums,
         UNCHANGED slots \/ slots' = [slots EXCEPT ![n].up = FALSE],
         UNCHANGED <<doc, junk, used, round>>
  PROVE  Strong'
<1>1. \A m \in Nums : /\ slots'[m].status = slots[m].status /\ slots'[m].told = slots[m].told
                      /\ slots'[m].up => slots[m].up
  BY DEF Strong, Inv, TypeOK, Slot
<1>2. Sound(Now)'
  BY <1>1 DEF Strong, Sound, Owned, Now, Json, Fits
<1>3. Behind'
  BY <1>1 DEF Strong, Behind, Live, Busy
<1> QED BY <1>2, <1>3 DEF Strong

LEMMA StrongInit == Init => Strong
BY InvInit, Constants DEF Init, Strong, Sound, Owned, Now, Json, Behind, Busy, Idle, Absent

LEMMA StrongNext == ~MidLoss /\ Strong /\ [Next]_vars => Strong'
<1> SUFFICES ASSUME ~MidLoss, Strong, [Next]_vars PROVE Strong'
  OBVIOUS
<1>1. Inv'
  BY InvNext DEF Strong
<1>2. CASE UNCHANGED vars
  BY <1>1, <1>2 DEF vars, Strong, Sound, Owned, Now, Json, Fits, Behind, Busy, Live
<1>3. ASSUME NEW c \in Clients, Lose(c) PROVE Strong'
  <2>1. cl[c].at \in Nums
    BY <1>3 DEF Lose, Up, Strong, Inv, TypeOK, Client
  <2> QED BY <1>1, <1>3, <2>1, LostStrong DEF Lose
<1>4. ASSUME NEW n \in Nums, Lapse(n) PROVE Strong'
  BY <1>1, <1>4, LostStrong DEF Lapse
<1>5. CASE Next
  BY <1>3, <1>4, <1>5, VisitStrong, NotifyStrong, ConnectStrong, ConsumerStrong DEF Next, Consume
<1> QED BY <1>2, <1>5

-------------------------------------------------------------------------------
(* Along the numbers 0 .. n there are n + 1 keys.                           *)
LEMMA GapBelow ==
  ASSUME Strong, Busy, round.i >= DocSize, NEW n \in Nums, Live(n), n \notin round.sent
  PROVE  \E m \in 0 .. n - 1 : doc[m] = Absent
<1>1. /\ n \in Nat /\ 0 .. n \subseteq Nums /\ junk \in Nat /\ round.i \in Nat
  BY SizeAssumption DEF Nums, Strong, Inv, TypeOK, Round, Busy
<1>2. IsFiniteSet(Keys) /\ Cardinality(Keys) \in Nat
  <2>1. IsFiniteSet(0 .. ClientMax - 1)
    BY SizeAssumption, FS_Interval
  <2>2. Keys \subseteq 0 .. ClientMax - 1
    BY DEF Keys, Nums
  <2> QED BY <2>1, <2>2, FS_Subset, FS_CardinalityType
<1>3. Cardinality(Keys) <= n
  <2>1. n >= round.i
    BY <1>1 DEF Strong, Behind
  <2> QED BY <1>1, <1>2, <2>1 DEF DocSize
<1>4. SUFFICES ASSUME \A m \in 0 .. n - 1 : doc[m] # Absent PROVE FALSE
  OBVIOUS
<1>5. 0 .. n \subseteq Keys
  <2>1. doc[n] # Absent
    BY DEF Live, Absent
  <2>2. \A m \in 0 .. n : m = n \/ m \in 0 .. n - 1
    BY <1>1
  <2> QED BY <1>1, <1>4, <2>1, <2>2 DEF Keys
<1>6. Cardinality(0 .. n) = n + 1
  BY <1>1, FS_Interval
<1>7. Cardinality(0 .. n) <= Cardinality(Keys)
  BY <1>2, <1>5, FS_Subset
<1> QED BY <1>1, <1>2, <1>3, <1>6, <1>7

LEMMA StrongGives ==
  Strong => EntriesOfOpenSlots /\ ConfirmedIsRecorded /\ MissedOnlyBehindGap
<1> SUFFICES ASSUME Strong PROVE EntriesOfOpenSlots /\ ConfirmedIsRecorded /\ MissedOnlyBehindGap
  OBVIOUS
<1>1. \A n \in Nums : Owned(Now, n)
  BY DEF Strong, Sound
<1>2. EntriesOfOpenSlots
  BY <1>1 DEF EntriesOfOpenSlots, Owned, Now, Json
<1>3. ConfirmedIsRecorded
  BY <1>1 DEF ConfirmedIsRecorded, Owned, Now, Json
<1>4. MissedOnlyBehindGap
  BY GapBelow DEF MissedOnlyBehindGap
<1> QED BY <1>2, <1>3, <1>4

(* A step of the loop sends to slots that were confirmed only.              *)
LEMMA SendsToConfirmed ==
  ASSUME Strong, [Next]_vars, NEW n \in round'.sent \ round.sent
  PROVE  slots[n].status = "open" /\ slots[n].told
<1>1. CASE NotifySlot
  <2>1. n = round.i /\ n \in Nums /\ doc[n] > 0 /\ slots[n].status = "open"
    BY <1>1 DEF NotifySlot
  <2> QED BY <2>1 DEF Strong, Sound, Owned, Now, Json
<1>2. CASE EndRound
  BY <1>2 DEF EndRound, Idle
<1>3. CASE \E c \in Clients : Post(c)
  BY <1>3 DEF Post, HandleReq4
<1>4. CASE UNCHANGED round
  BY <1>4
<1>5. \/ NotifySlot \/ EndRound \/ (\E c \in Clients : Post(c)) \/ UNCHANGED round
  <2>1. CASE UNCHANGED vars
    BY <2>1 DEF vars
  <2>2. CASE Next
    BY <2>2 DEF Next, Visit, Upgrade, SubscribeText, OtherText, Reap, Lapse, Notify, Consume,
                Connect, Receive, Notice, AskAgain, Lose, server
  <2> QED BY <2>1, <2>2
<1> QED BY <1>1, <1>2, <1>3, <1>4, <1>5

LEMMA StrongAlways ==
  ASSUME ~MidLoss
  PROVE  Spec => []Strong
<1>1. Strong /\ [Next]_vars => Strong'
  BY StrongNext
<1> QED BY <1>1, StrongInit, PTL DEF Spec

(* If no handler loses its own connection half-way, doc holds entries of    *)
(* open channels only (Thing_WebServer.ino, line 344).                      *)
THEOREM EntriesBelongToOpenSlots ==
  ASSUME ~MidLoss
  PROVE  Spec => []EntriesOfOpenSlots
BY StrongAlways, StrongGives, PTL

(* A consumer that was told "Subscription confirmed" is recorded as long as *)
(* the document has room for one subscription (lines 393-409), whatever the *)
(* sizes are.                                                               *)
THEOREM ConfirmedMeansRecorded ==
  ASSUME ~MidLoss
  PROVE  Spec => []ConfirmedIsRecorded
BY StrongAlways, StrongGives, PTL

(* What the bound of the loop of handleReq4 (line 302) can make it miss: a  *)
(* live subscriber is passed over only if a slot below its own has no entry.*)
THEOREM MissedOnlyBehindAGap ==
  ASSUME ~MidLoss
  PROVE  Spec => []MissedOnlyBehindGap
BY StrongAlways, StrongGives, PTL

(* A notification goes to channels only that were told that they are        *)
(* subscribed (lines 302-310).                                              *)
THEOREM NotifiedWereConfirmed ==
  ASSUME ~MidLoss
  PROVE  Spec => NotifiedWasConfirmed
<1>1. Spec => []Strong
  BY StrongAlways
<1>2. Strong /\ [Next]_vars =>
        [\A n \in round'.sent \ round.sent : slots[n].status = "open" /\ slots[n].told]_vars
  BY SendsToConfirmed
<1> QED BY <1>1, <1>2, PTL DEF Spec, NotifiedWasConfirmed
===============================================================================
