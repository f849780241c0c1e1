------------------------------- MODULE WiFiThing -------------------------------
(***************************************************************************)
(* The first hand-written servient, Thing_WiFiServer: the counter on a     *)
(* bare TCP server.  loop() takes one connection and stays with it, line   *)
(* by line, until the empty line that ends a request or until the          *)
(* connection is gone; everybody else waits.                               *)
(*                                                                         *)
(* What was read is gathered in one global, header, and the request is     *)
(* recognised in it.  A line stands for its characters.                    *)
(***************************************************************************)
EXTENDS Integers, Sequences, FiniteSets

CONSTANTS
  Consumers,
  Nobody,     \* no connection is being served
  MaxLines,   \* bound: header fields a consumer sends
  MaxValue    \* bound: increments

ASSUME ConsumerAssumption == Nobody \notin Consumers
ASSUME BoundAssumption == MaxLines \in Nat /\ MaxValue \in Nat

VARIABLES
  con,        \* what each consumer does: its request and how far it sent it
  pending,    \* connections server.available() has not returned yet
  client,     \* the connection in the loop, or Nobody
  header,     \* the lines read into the global
  value,      \* property1_value
  last,       \* property1_lastValue
  subscribe,  \* subscribe_event1
  answer      \* the answer each consumer got to its request, if any

vars == <<con, pending, client, header, value, last, subscribe, answer>>

\* req1 .. req5, and a request for anything else
Reqs  == {"thing", "td", "count", "increment", "change", "other"}
Field == "field"
Empty == "empty"
Lines == Reqs \cup {Field, Empty}

\* up: is TCP up; sent: the lines sent and not read yet; done: was the empty
\* line sent; fields: the header fields sent
Idle == [req |-> "other", up |-> FALSE, sent |-> << >>, done |-> FALSE, fields |-> 0]
Consumer == [req : Reqs, up : BOOLEAN, sent : Seq(Lines), done : BOOLEAN,
             fields : 0 .. MaxLines]

\* what a request is answered with: the value of the counter where it is
\* part of the answer, and from and to of the notification where one is
Nothing == [of |-> "other", value |-> 0, told |-> FALSE, from |-> 0]
Answers == [of : Reqs, value : Nat, told : BOOLEAN, from : Nat]

TypeOK ==
  /\ con \in [Consumers -> Consumer]
  /\ pending \in Seq(Consumers)
  /\ client \in Consumers \cup {Nobody}
  /\ header \in Seq(Lines)
  /\ value \in Nat /\ last \in Nat /\ subscribe \in BOOLEAN
  /\ answer \in [Consumers -> Seq(Answers)]

-------------------------------------------------------------------------------
(* The consumers.                                                          *)
Incrementing == {d \in Consumers : con[d].req = "increment"}

Connect(c) ==
  /\ ~con[c].up /\ client # c
  /\ \A i \in DOMAIN pending : pending[i] # c
  /\ \E r \in Reqs :
       /\ r = "increment" => value + Cardinality(Incrementing) < MaxValue
       /\ con' = [con EXCEPT ![c] =
            [req |-> r, up |-> TRUE, sent |-> <<r>>, done |-> FALSE, fields |-> 0]]
  /\ pending' = Append(pending, c)
  /\ answer' = [answer EXCEPT ![c] = << >>]
  /\ UNCHANGED <<client, header, value, last, subscribe>>

SendField(c) ==
  /\ con[c].up /\ ~con[c].done /\ con[c].fields < MaxLines
  /\ con' = [con EXCEPT ![c].sent = Append(@, Field), ![c].fields = @ + 1]
  /\ UNCHANGED <<pending, client, header, value, last, subscribe, answer>>

SendEnd(c) ==
  /\ con[c].up /\ ~con[c].done
  /\ con' = [con EXCEPT ![c].sent = Append(@, Empty), ![c].done = TRUE]
  /\ UNCHANGED <<pending, client, header, value, last, subscribe, answer>>

(* The connection ends before it was answered; connected() stays true      *)
(* while there is something to read.                                       *)
Leave(c) ==
  /\ con[c].up
  /\ con' = [con EXCEPT ![c].up = FALSE, ![c].done = TRUE]
  /\ UNCHANGED <<pending, client, header, value, last, subscribe, answer>>

-------------------------------------------------------------------------------
(* loop().                                                                 *)
Available ==
  /\ client = Nobody /\ pending # << >>
  /\ client' = Head(pending) /\ pending' = Tail(pending)
  /\ UNCHANGED <<con, header, value, last, subscribe, answer>>

(* Mutant of Stop: the header is kept for the next connection.             *)
StopKeeping ==
  /\ client' = Nobody /\ UNCHANGED header
  /\ con' = [con EXCEPT ![client] = Idle]

(* header = "", client.stop().                                             *)
Stop ==
  /\ client' = Nobody /\ header' = << >>
  /\ con' = [con EXCEPT ![client] = Idle]

ReadLine ==
  /\ client # Nobody /\ con[client].sent # << >> /\ Head(con[client].sent) # Empty
  /\ header' = Append(header, Head(con[client].sent))
  /\ con' = [con EXCEPT ![client].sent = Tail(@)]
  /\ UNCHANGED <<pending, client, value, last, subscribe, answer>>

(* indexOf(req) >= 0 with the H of HTTP right behind the path: the request *)
(* the first line read asks for.                                           *)
Request == IF header # << >> /\ Head(header) \in Reqs THEN Head(header) ELSE "other"

Reply(a) ==
  answer' = IF con[client].up THEN [answer EXCEPT ![client] = <<a>>] ELSE answer

(* Mutants of Increment: it counts down; the old value is not brought up.  *)
IncrementDown ==
  /\ Request = "increment"
  /\ value' = value - 1 /\ last' = last
  /\ Reply([Nothing EXCEPT !.of = "increment"])
  /\ UNCHANGED subscribe

IncrementOnly ==
  /\ Request = "increment"
  /\ value' = value + 1
  /\ Reply([of |-> "increment", value |-> value + 1, told |-> subscribe, from |-> last])
  /\ UNCHANGED <<last, subscribe>>

(* POST increment; the notification goes into the same answer.             *)
Increment ==
  /\ Request = "increment"
  /\ value' = value + 1 /\ last' = value + 1
  /\ Reply([of |-> "increment", value |-> value + 1,
            told |-> last # value + 1 /\ subscribe, from |-> last])
  /\ UNCHANGED subscribe

Change ==
  /\ Request = "change"
  /\ subscribe' = TRUE
  /\ Reply([Nothing EXCEPT !.of = "change"])
  /\ UNCHANGED <<value, last>>

Read ==
  /\ Request \notin {"increment", "change"}
  /\ Reply([Nothing EXCEPT !.of = Request, !.value = IF Request = "count" THEN value ELSE 0])
  /\ UNCHANGED <<value, last, subscribe>>

(* The empty line: the request is answered and the connection stopped.     *)
Serve ==
  /\ client # Nobody /\ con[client].sent # << >> /\ Head(con[client].sent) = Empty
  /\ Increment \/ Change \/ Read
  /\ Stop
  /\ UNCHANGED pending

(* Mutant of GiveUp: the inner loop does not look at connected().          *)
GiveUpNever ==
  /\ client # Nobody /\ ~con[client].up /\ con[client].sent = << >>
  /\ UNCHANGED vars

(* while (client.connected()) ends without a request.                      *)
GiveUp ==
  /\ client # Nobody /\ ~con[client].up /\ con[client].sent = << >>
  /\ Stop
  /\ UNCHANGED <<pending, value, last, subscribe, answer>>

-------------------------------------------------------------------------------
Init ==
  /\ con = [c \in Consumers |-> Idle]
  /\ pending = << >> /\ client = Nobody /\ header = << >>
  /\ value = 0 /\ last = 0 /\ subscribe = FALSE
  /\ answer = [c \in Consumers |-> << >>]

Loop == Available \/ ReadLine \/ Serve \/ GiveUp

Next ==
  \/ \E c \in Consumers : Connect(c) \/ SendField(c) \/ SendEnd(c) \/ Leave(c)
  \/ Loop

Spec == Init /\ [][Next]_vars

(* The board calls loop() for ever; a consumer does not stop half-way in   *)
(* its request for ever: it ends it or the connection ends.                *)
EndOrLeave(c) == ~con[c].done /\ (SendEnd(c) \/ Leave(c))

FairSpec == Spec /\ WF_vars(Loop) /\ \A c \in Consumers : WF_vars(EndOrLeave(c))

-------------------------------------------------------------------------------
(* Properties.                                                             *)

(* What was read for the global header is of the connection being served,  *)
(* though requests break off and the global outlives every connection      *)
(* (lines 40, 146, 234): an answer is the answer to the request asked.     *)
AnswerIsToRequest ==
  [][\A c \in Consumers : answer'[c] # answer[c] /\ answer'[c] # << >> =>
       answer'[c][1].of = con[c].req]_vars

(* A notification tells of one increment, from the value the one before it *)
(* left to the value of the very answer it is part of (lines 195-204).     *)
NotificationsAreSteps ==
  [][\A c \in Consumers : answer'[c] # answer[c] /\ answer'[c] # << >> /\ answer'[c][1].told =>
       /\ answer'[c][1].from = value
       /\ answer'[c][1].value = value + 1]_vars

(* One consumer at a time, and the loop stays with it (lines 141-232): a   *)
(* connection is served and stopped in the end although those ahead of it  *)
(* may break off at any line.                                              *)
EverybodyIsServed == \A c \in Consumers : con[c].up ~> ~con[c].up
===============================================================================
