--------------------------- MODULE WiFiThing_proofs ---------------------------
(* Proofs about WiFiThing, for any consumers and any bounds.               *)
EXTENDS WiFiThing, TLAPS

(* Where the first line of a request is: with the consumer until it is     *)
(* served, and then at the head of the global.                             *)
NothingLeft == client = Nobody => header = << >>

Waiting ==
  \A c \in Consumers \ {client} :
    /\ con[c].sent # << >> => Head(con[c].sent) = con[c].req
    /\ con[c].up => con[c].sent # << >>

Queued ==
  \A i \in DOMAIN pending :
    /\ pending[i] # client /\ con[pending[i]].sent # << >>
    /\ \A j \in DOMAIN pending : pending[i] = pending[j] => i = j

Serving ==
  client # Nobody =>
    IF header = << >> THEN con[client].sent # << >> /\ Head(con[client].sent) = con[client].req
                      ELSE Head(header) = con[client].req

Inv == TypeOK /\ last = value /\ NothingLeft /\ Waiting /\ Queued /\ Serving

USE ConsumerAssumption, BoundAssumption

LEMMA IdleType == Idle \in Consumer /\ Idle.sent = << >> /\ ~Idle.up
<1>1. "other" \in Reqs
  BY DEF Reqs
<1>2. << >> \in Seq(Lines) /\ 0 \in 0 .. MaxLines
  OBVIOUS
<1> QED
  BY <1>1, <1>2 DEF Idle, Consumer

LEMMA InitInv == Init => Inv
<1> SUFFICES ASSUME Init PROVE Inv
  OBVIOUS
<1>1. Idle \in Consumer
  BY IdleType
<1>2. TypeOK
  <2>1. con \in [Consumers -> Consumer]
    BY <1>1 DEF Init
  <2>2. << >> \in Seq(Consumers) /\ << >> \in Seq(Lines) /\ << >> \in Seq(Answers)
    OBVIOUS
  <2>3. answer \in [Consumers -> Seq(Answers)]
    BY <2>2 DEF Init
  <2> QED
    BY <2>1, <2>2, <2>3 DEF Init, TypeOK
<1>3. last = value /\ NothingLeft /\ Waiting /\ Queued /\ Serving
  BY DEF Init, NothingLeft, Waiting, Queued, Serving, Idle
<1> QED
  BY <1>2, <1>3 DEF Inv

LEMMA ConnectInv ==
  ASSUME Inv, NEW c \in Consumers, Connect(c)
  PROVE  Inv'
<1>1. PICK r \in Reqs : con' = [con EXCEPT ![c] =
                 [req |-> r, up |-> TRUE, sent |-> <<r>>, done |-> FALSE, fields |-> 0]]
  BY DEF Connect
<1> DEFINE k == [req |-> r, up |-> TRUE, sent |-> <<r>>, done |-> FALSE, fields |-> 0]
<1>2. k \in Consumer /\ k.sent = <<r>> /\ k.req = r /\ k.up
  <2>2. r \in Lines
    BY DEF Lines
  <2>3. <<r>> \in Seq(Lines) /\ 0 \in 0 .. MaxLines
    BY <2>2
  <2> QED
    BY <2>3 DEF Consumer
<1>3. con \in [Consumers -> Consumer] /\ con'[c] = k /\ \A d \in Consumers \ {c} : con'[d] = con[d]
  BY <1>1 DEF Inv, TypeOK
<1> HIDE DEF k
<1>4. con' \in [Consumers -> Consumer]
  BY <1>1, <1>2, <1>3 DEF k
<1>5. pending' = Append(pending, c) /\ UNCHANGED <<client, header, value, last, subscribe>>
  BY DEF Connect
<1>6. client # c /\ \A i \in DOMAIN pending : pending[i] # c
  BY DEF Connect
<1>7. pending \in Seq(Consumers) /\ pending' \in Seq(Consumers)
  BY <1>5 DEF Inv, TypeOK
<1>8. TypeOK'
  <2>1. answer' \in [Consumers -> Seq(Answers)]
    BY DEF Connect, Inv, TypeOK
  <2> QED
    BY <2>1, <1>4, <1>5, <1>7 DEF Inv, TypeOK
<1>9. Waiting'
  BY <1>2, <1>3, <1>5 DEF Inv, Waiting
<1>10. Queued'
  <2>1. /\ DOMAIN pending' = 1 .. Len(pending) + 1 /\ DOMAIN pending = 1 .. Len(pending)
        /\ Len(pending) \in Nat
        /\ pending'[Len(pending) + 1] = c
        /\ \A i \in DOMAIN pending : pending'[i] = pending[i] /\ pending[i] \in Consumers
    BY <1>5, <1>7
  <2>2. k.sent # << >>
    BY <1>2
  <2> QED
    BY <2>1, <2>2, <1>3, <1>5, <1>6 DEF Inv, Queued
<1>11. Serving' /\ NothingLeft' /\ last' = value'
  <2>1. client \in Consumers \cup {Nobody}
    BY DEF Inv, TypeOK
  <2> QED
    BY <2>1, <1>3, <1>5, <1>6 DEF Inv, Serving, NothingLeft
<1> QED
  BY <1>8, <1>9, <1>10, <1>11 DEF Inv

LEMMA AppendFacts ==
  ASSUME NEW S, NEW s \in Seq(S), NEW x \in S
  PROVE  Append(s, x) # << >> /\ (s # << >> => Head(Append(s, x)) = Head(s))
<1> DEFINE t == Append(s, x)
<1>1. t \in Seq(S) /\ Len(t) = Len(s) + 1 /\ Len(s) \in Nat /\ \A i \in 1 .. Len(s) : t[i] = s[i]
  OBVIOUS
<1>2. t # << >> /\ Head(t) = t[1]
  OBVIOUS
<1>3. s # << >> => Len(s) >= 1 /\ Head(s) = s[1]
  OBVIOUS
<1> HIDE DEF t
<1>4. t # << >> /\ (s # << >> => Head(t) = Head(s))
  BY <1>1, <1>2, <1>3
<1> QED
  BY <1>4 DEF t

LEMMA PendingConsumers ==
  ASSUME Inv
  PROVE  \A i \in DOMAIN pending : pending[i] \in Consumers
<1> QED
  BY DEF Inv, TypeOK

(* A consumer that is up has something to read in front of what it sends.  *)
LEMMA SendInv ==
  ASSUME Inv, NEW c \in Consumers, con[c].up, NEW line \in Lines, NEW k \in Consumer,
         k.sent = Append(con[c].sent, line), k.req = con[c].req, 
         con' = [con EXCEPT ![c] = k],
         UNCHANGED <<pending, client, header, value, last, subscribe, answer>>
  PROVE  Inv'
<1>1. con \in [Consumers -> Consumer] /\ con'[c] = k /\ \A d \in Consumers \ {c} : con'[d] = con[d]
  BY DEF Inv, TypeOK
<1>2. TypeOK'
  BY <1>1 DEF Inv, TypeOK
<1>3. con[c].sent \in Seq(Lines)
  BY <1>1 DEF Consumer
<1>4. k.sent # << >> /\ (con[c].sent # << >> => Head(k.sent) = Head(con[c].sent))
  BY <1>3, AppendFacts
<1>5. Waiting'
  BY <1>1, <1>4 DEF Inv, Waiting
<1>6. Queued'
  <2>1. \A d \in Consumers : con[d].sent # << >> => con'[d].sent # << >>
    BY <1>1, <1>4
  <2> QED
    BY <2>1, PendingConsumers DEF Inv, Queued
<1>7. Serving' /\ NothingLeft' /\ last' = value'
  <2>1. client # Nobody => client \in Consumers
    BY DEF Inv, TypeOK
  <2>2. NothingLeft' /\ last' = value'
    BY DEF Inv, NothingLeft
  <2>3. Serving'
    BY <1>1, <1>4, <2>1 DEF Inv, Serving
  <2> QED
    BY <2>2, <2>3
<1> QED
  BY <1>2, <1>5, <1>6, <1>7 DEF Inv

LEMMA SendFieldInv ==
  ASSUME Inv, NEW c \in Consumers, SendField(c)
  PROVE  Inv'
<1> DEFINE k == [con[c] EXCEPT !.sent = Append(@, Field), !.fields = @ + 1]
<1>1. con \in [Consumers -> Consumer] /\ con[c] \in Consumer
  BY DEF Inv, TypeOK
<1>2. con' = [con EXCEPT ![c] = k]
  BY Zenon DEF SendField
<1>3. Field \in Lines
  BY DEF Lines
<1>4. k \in Consumer /\ k.sent = Append(con[c].sent, Field) /\ k.req = con[c].req
  <2>1. Append(con[c].sent, Field) \in Seq(Lines)
    BY <1>1, <1>3 DEF Consumer
  <2>2. con[c].fields + 1 \in 0 .. MaxLines
    BY <1>1 DEF SendField, Consumer
  <2> QED
    BY <1>1, <2>1, <2>2 DEF Consumer
<1> HIDE DEF k
<1> QED
  BY <1>2, <1>4, <1>3, SendInv DEF SendField

LEMMA SendEndInv ==
  ASSUME Inv, NEW c \in Consumers, SendEnd(c)
  PROVE  Inv'
<1> DEFINE k == [con[c] EXCEPT !.sent = Append(@, Empty), !.done = TRUE]
<1>1. con \in [Consumers -> Consumer] /\ con[c] \in Consumer
  BY DEF Inv, TypeOK
<1>2. con' = [con EXCEPT ![c] = k]
  BY Zenon DEF SendEnd
<1>3. Empty \in Lines
  BY DEF Lines
<1>4. k \in Consumer /\ k.sent = Append(con[c].sent, Empty) /\ k.req = con[c].req
  <2>1. Append(con[c].sent, Empty) \in Seq(Lines)
    BY <1>1, <1>3 DEF Consumer
  <2> QED
    BY <1>1, <2>1 DEF Consumer
<1> HIDE DEF k
<1> QED
  BY <1>2, <1>4, <1>3, SendInv DEF SendEnd

LEMMA LeaveInv ==
  ASSUME Inv, NEW c \in Consumers, Leave(c)
  PROVE  Inv'
<1> DEFINE k == [con[c] EXCEPT !.up = FALSE, !.done = TRUE]
<1>1. con \in [Consumers -> Consumer] /\ con[c] \in Consumer
  BY DEF Inv, TypeOK
<1>2. con' = [con EXCEPT ![c] = k]
  BY Zenon DEF Leave
<1>3. k \in Consumer /\ k.sent = con[c].sent /\ k.req = con[c].req /\ ~k.up
  BY <1>1 DEF Consumer
<1> HIDE DEF k
<1>4. con'[c] = k /\ \A d \in Consumers \ {c} : con'[d] = con[d]
  BY <1>1, <1>2
<1>5. UNCHANGED <<pending, client, header, value, last, subscribe, answer>>
  BY DEF Leave
<1>6. TypeOK'
  BY <1>1, <1>2, <1>3, <1>5 DEF Inv, TypeOK
<1>7. \A d \in Consumers : /\ con'[d].sent = con[d].sent /\ con'[d].req = con[d].req
                           /\ con'[d].up => con[d].up
  BY <1>3, <1>4
<1>8. Waiting'
  BY <1>5, <1>7 DEF Inv, Waiting
<1>9. Queued'
  BY <1>5, <1>7, PendingConsumers DEF Inv, Queued
<1>10. Serving'
  BY <1>5, <1>7 DEF Inv, TypeOK, Serving
<1>11. NothingLeft' /\ last' = value'
  BY <1>5 DEF Inv, NothingLeft
<1> QED
  BY <1>6, <1>8, <1>9, <1>10, <1>11 DEF Inv

LEMMA AvailableInv == Inv /\ Available => Inv'
<1> SUFFICES ASSUME Inv, Available PROVE Inv'
  OBVIOUS
<1>1. /\ client = Nobody /\ pending # << >> /\ pending \in Seq(Consumers)
      /\ client' = Head(pending) /\ pending' = Tail(pending)
      /\ UNCHANGED <<con, header, value, last, subscribe, answer>>
  BY DEF Available, Inv, TypeOK
<1>2. /\ DOMAIN pending = 1 .. Len(pending) /\ Len(pending) \in Nat \ {0}
      /\ DOMAIN pending' = 1 .. Len(pending) - 1
      /\ \A i \in DOMAIN pending' : pending'[i] = pending[i + 1]
      /\ client' = pending[1] /\ client' \in Consumers /\ pending' \in Seq(Consumers)
  BY <1>1
<1>3. TypeOK'
  BY <1>1, <1>2 DEF Inv, TypeOK
<1>4. Waiting'
  BY <1>1, <1>2 DEF Inv, Waiting
<1>5. Queued'
  BY <1>1, <1>2 DEF Inv, Queued
<1>6. Serving'
  <2>1. con[client'].sent # << >>
    BY <1>2 DEF Inv, Queued
  <2>2. Head(con[client'].sent) = con[client'].req
    BY <1>1, <1>2, <2>1 DEF Inv, Waiting
  <2>3. header = << >>
    BY <1>1 DEF Inv, NothingLeft
  <2> QED
    BY <1>1, <2>1, <2>2, <2>3 DEF Serving
<1>7. NothingLeft' /\ last' = value'
  BY <1>1 DEF Inv, NothingLeft
<1> QED
  BY <1>3, <1>4, <1>5, <1>6, <1>7 DEF Inv

LEMMA ReadLineInv == Inv /\ ReadLine => Inv'
<1> SUFFICES ASSUME Inv, ReadLine PROVE Inv'
  OBVIOUS
<1> DEFINE c == client
           k == [con[c] EXCEPT !.sent = Tail(@)]
<1>1. c \in Consumers /\ con \in [Consumers -> Consumer] /\ con[c] \in Consumer
  BY DEF Inv, TypeOK, ReadLine
<1>2. con' = [con EXCEPT ![c] = k]
  BY Zenon DEF ReadLine
<1>3. con[c].sent \in Seq(Lines) /\ con[c].sent # << >> /\ Head(con[c].sent) \in Lines
  BY <1>1 DEF Consumer, ReadLine
<1>4. k \in Consumer /\ k.req = con[c].req
  BY <1>1, <1>3 DEF Consumer
<1>5. /\ header' = Append(header, Head(con[c].sent)) /\ header \in Seq(Lines)
      /\ UNCHANGED <<pending, client, value, last, subscribe, answer>>
  BY DEF ReadLine, Inv, TypeOK
<1> HIDE DEF k
<1>6. con'[c] = k /\ \A d \in Consumers \ {c} : con'[d] = con[d]
  BY <1>1, <1>2
<1>7. header' \in Seq(Lines) /\ header' # << >>
      /\ Head(header') = IF header = << >> THEN Head(con[c].sent) ELSE Head(header)
  BY <1>3, <1>5
<1>8. TypeOK'
  BY <1>1, <1>2, <1>4, <1>5, <1>7 DEF Inv, TypeOK
<1>9. Waiting' /\ Queued'
  BY <1>5, <1>6 DEF Inv, TypeOK, Waiting, Queued
<1>10. Serving'
  BY <1>1, <1>4, <1>5, <1>6, <1>7 DEF Inv, Serving
<1>11. NothingLeft' /\ last' = value'
  BY <1>1, <1>5 DEF Inv, NothingLeft
<1> QED
  BY <1>8, <1>9, <1>10, <1>11 DEF Inv

(* The end of a connection, served or given up.                            *)
LEMMA StopInv ==
  ASSUME Inv, client # Nobody, Stop, UNCHANGED pending, last' = value', value' \in Nat,
         subscribe' \in BOOLEAN, answer' \in [Consumers -> Seq(Answers)]
  PROVE  Inv'
<1>1. Idle \in Consumer /\ Idle.sent = << >> /\ ~Idle.up
  BY IdleType
<1>2. client \in Consumers /\ con \in [Consumers -> Consumer]
  BY DEF Inv, TypeOK
<1>3. client' = Nobody /\ header' = << >> /\ con' = [con EXCEPT ![client] = Idle]
  BY DEF Stop
<1>4. con'[client] = Idle /\ \A d \in Consumers \ {client} : con'[d] = con[d]
  BY <1>2, <1>3
<1>5. TypeOK'
  BY <1>1, <1>2, <1>3 DEF Inv, TypeOK
<1>6. Waiting'
  BY <1>1, <1>2, <1>3, <1>4 DEF Inv, Waiting
<1>7. Queued'
  <2>1. \A i \in DOMAIN pending : pending[i] \in Consumers
    BY DEF Inv, TypeOK
  <2> QED
    BY <2>1, <1>3, <1>4 DEF Inv, Queued
<1>8. Serving' /\ NothingLeft'
  BY <1>3 DEF Serving, NothingLeft
<1> QED
  BY <1>5, <1>6, <1>7, <1>8 DEF Inv

(* What the empty line is answered with.                                   *)
LEMMA ServeAnswers ==
  ASSUME Inv, Serve
  PROVE  /\ client \in Consumers /\ Request = con[client].req
         /\ last' = value' /\ value' \in Nat /\ subscribe' \in BOOLEAN
         /\ \E a \in Answers :
              /\ a.of = Request
              /\ a.told => a.from = value /\ a.value = value + 1
              /\ Reply(a)
<1>1. client \in Consumers /\ con[client] \in Consumer
  BY DEF Serve, Inv, TypeOK
<1>2. con[client].req \in Reqs
  BY <1>1 DEF Consumer
<1>3. header # << >> /\ Head(header) = con[client].req
  <2>1. con[client].req # Empty
    BY <1>2 DEF Reqs, Empty
  <2> QED
    BY <2>1 DEF Serve, Inv, Serving
<1>4. Request = con[client].req
  BY <1>2, <1>3 DEF Request
<1>5. value \in Nat /\ last = value /\ subscribe \in BOOLEAN
  BY DEF Inv, TypeOK
<1>6. CASE Increment
  <2> DEFINE a == [of |-> "increment", value |-> value + 1,
                   told |-> last # value + 1 /\ subscribe, from |-> last]
  <2>1. Request = "increment" /\ value' = value + 1 /\ last' = value + 1 /\ Reply(a)
        /\ subscribe' = subscribe
    BY <1>6 DEF Increment
  <2>2. (last # value + 1 /\ subscribe) \in BOOLEAN
    OBVIOUS
  <2>3. a \in Answers /\ a.of = Request /\ a.from = value /\ a.value = value + 1
    BY <1>5, <2>1, <2>2 DEF Answers, Reqs
  <2> HIDE DEF a
  <2> QED
    BY <1>1, <1>4, <1>5, <2>1, <2>3
<1>7. CASE Change
  <2> DEFINE a == [Nothing EXCEPT !.of = "change"]
  <2>1. Request = "change" /\ Reply(a) /\ subscribe' = TRUE /\ value' = value /\ last' = last
    BY <1>7 DEF Change
  <2>2. a \in Answers /\ a.of = Request /\ ~a.told
    BY <2>1 DEF Nothing, Answers, Reqs
  <2> HIDE DEF a
  <2> QED
    BY <1>1, <1>4, <1>5, <2>1, <2>2
<1>8. CASE Read
  <2> DEFINE v == IF Request = "count" THEN value ELSE 0
             a == [Nothing EXCEPT !.of = Request, !.value = v]
  <2>1. Reply(a) /\ subscribe' = subscribe /\ value' = value /\ last' = last
    BY <1>8 DEF Read
  <2>2. v \in Nat /\ Request \in Reqs
    BY <1>2, <1>4, <1>5
  <2> HIDE DEF v
  <2>3. a \in Answers /\ a.of = Request /\ ~a.told
    BY <2>2 DEF Nothing, Answers
  <2> HIDE DEF a
  <2> QED
    BY <1>1, <1>4, <1>5, <2>1, <2>3
<1> QED
  BY <1>6, <1>7, <1>8 DEF Serve

LEMMA ReplyFacts ==
  ASSUME Inv, client \in Consumers, NEW a \in Answers, Reply(a)
  PROVE  /\ answer' \in [Consumers -> Seq(Answers)]
         /\ \A c \in Consumers : answer'[c] # answer[c] => c = client /\ answer'[c][1] = a
<1>1. answer \in [Consumers -> Seq(Answers)] /\ <<a>> \in Seq(Answers) /\ <<a>>[1] = a
  BY DEF Inv, TypeOK
<1>2. answer' = answer \/ answer' = [answer EXCEPT ![client] = <<a>>]
  BY DEF Reply
<1> QED
  BY <1>1, <1>2

LEMMA ServeInv == Inv /\ Serve => Inv'
<1> SUFFICES ASSUME Inv, Serve PROVE Inv'
  OBVIOUS
<1>1. answer' \in [Consumers -> Seq(Answers)]
  BY ServeAnswers, ReplyFacts
<1>2. client # Nobody /\ Stop /\ UNCHANGED pending
  BY DEF Serve
<1> QED
  BY <1>1, <1>2, ServeAnswers, StopInv

LEMMA GiveUpInv == Inv /\ GiveUp => Inv'
<1> SUFFICES ASSUME Inv, GiveUp PROVE Inv'
  OBVIOUS
<1>1. client # Nobody /\ Stop /\ UNCHANGED <<pending, value, last, subscribe, answer>>
  BY DEF GiveUp
<1>2. /\ last' = value' /\ value' \in Nat /\ subscribe' \in BOOLEAN
      /\ answer' \in [Consumers -> Seq(Answers)]
  BY <1>1 DEF Inv, TypeOK
<1> QED
  BY <1>1, <1>2, StopInv

LEMMA StepInv == Inv /\ [Next]_vars => Inv'
<1> SUFFICES ASSUME Inv, [Next]_vars PROVE Inv'
  OBVIOUS
<1>1. ASSUME NEW c \in Consumers, Connect(c) \/ SendField(c) \/ SendEnd(c) \/ Leave(c)
      PROVE  Inv'
  BY <1>1, ConnectInv, SendFieldInv, SendEndInv, LeaveInv
<1>2. CASE Loop
  BY <1>2, AvailableInv, ReadLineInv, ServeInv, GiveUpInv DEF Loop
<1>3. CASE UNCHANGED vars
  BY <1>3 DEF vars, Inv, TypeOK, NothingLeft, Waiting, Queued, Serving
<1> QED
  BY <1>1, <1>2, <1>3 DEF Next

(* The invariant holds throughout: what is read is the request of the one  *)
(* served, and the notification counter lags nowhere.                      *)
THEOREM InvAlways == Spec => []Inv
<1> QED
  BY InitInv, StepInv, PTL DEF Spec

(* WiFiThing's variables keep their types, for any number of consumers and lines.  *)
THEOREM WiFiTypeCorrect == Spec => []TypeOK
<1>1. Inv => TypeOK
  BY DEF Inv
<1> QED
  BY <1>1, InvAlways, PTL

(* Only Serve puts an answer where none, or another, was.                  *)
LEMMA OnlyServeAnswers ==
  ASSUME Inv, [Next]_vars, NEW c \in Consumers, answer'[c] # answer[c], answer'[c] # << >>
  PROVE  Serve
<1>1. ASSUME NEW d \in Consumers, Connect(d) PROVE FALSE
  <2>1. answer' = [answer EXCEPT ![d] = << >>] /\ answer \in [Consumers -> Seq(Answers)]
    BY <1>1 DEF Connect, Inv, TypeOK
  <2> QED
    BY <2>1
<1>2. ASSUME NEW d \in Consumers, SendField(d) \/ SendEnd(d) \/ Leave(d) PROVE FALSE
  BY <1>2 DEF SendField, SendEnd, Leave
<1>3. CASE Available \/ ReadLine \/ GiveUp
  BY <1>3 DEF Available, ReadLine, GiveUp
<1>4. CASE UNCHANGED vars
  BY <1>4 DEF vars
<1> QED
  BY <1>1, <1>2, <1>3, <1>4 DEF Next, Loop

(* For any consumers, whatever requests break off: what a consumer is      *)
(* answered is the answer to the request it made.                          *)
THEOREM AnswersAreToRequests == Spec => AnswerIsToRequest
<1>1. Inv /\ [Next]_vars =>
        [\A c \in Consumers : answer'[c] # answer[c] /\ answer'[c] # << >> =>
           answer'[c][1].of = con[c].req]_vars
  <2> SUFFICES ASSUME Inv, [Next]_vars, NEW c \in Consumers,
                      answer'[c] # answer[c], answer'[c] # << >>
               PROVE  answer'[c][1].of = con[c].req
    OBVIOUS
  <2>1. Serve
    BY OnlyServeAnswers
  <2>2. PICK a \in Answers : a.of = Request /\ Reply(a)
    BY <2>1, ServeAnswers
  <2>3. c = client /\ answer'[c][1] = a
    BY <2>1, <2>2, ServeAnswers, ReplyFacts
  <2> QED
    BY <2>1, <2>2, <2>3, ServeAnswers
<1> QED
  BY <1>1, InvAlways, PTL DEF Spec, AnswerIsToRequest

(* A notification is of one increment, from where the last one left off.   *)
THEOREM NotificationsAreOfSteps == Spec => NotificationsAreSteps
<1>1. Inv /\ [Next]_vars =>
        [\A c \in Consumers : answer'[c] # answer[c] /\ answer'[c] # << >> /\ answer'[c][1].told =>
           /\ answer'[c][1].from = value
           /\ answer'[c][1].value = value + 1]_vars
  <2> SUFFICES ASSUME Inv, [Next]_vars, NEW c \in Consumers,
                      answer'[c] # answer[c], answer'[c] # << >>, answer'[c][1].told
               PROVE  answer'[c][1].from = value /\ answer'[c][1].value = value + 1
    OBVIOUS
  <2>1. Serve
    BY OnlyServeAnswers
  <2>2. PICK a \in Answers : (a.told => a.from = value /\ a.value = value + 1) /\ Reply(a)
    BY <2>1, ServeAnswers
  <2>3. c = client /\ answer'[c][1] = a
    BY <2>1, <2>2, ServeAnswers, ReplyFacts
  <2> QED
    BY <2>2, <2>3
<1> QED
  BY <1>1, InvAlways, PTL DEF Spec, NotificationsAreSteps
===============================================================================
