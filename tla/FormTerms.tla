------------------------------- MODULE FormTerms -------------------------------
(***************************************************************************)
(* addTerm: the dialogue that adds terms to the forms of an interaction,   *)
(* as a function of the number of answers.  With a second, WebSocket,      *)
(* form each term is asked for one of the two.  The flags http and ws that *)
(* note the choice are never reset, and what is checked, remembered and    *)
(* written goes by both of them.                                           *)
(***************************************************************************)
EXTENDS Integers, SequencesExt

CONSTANTS
  TermNames, \* names that differ without regard to case
  MaxAnswers \* bound: terms of one dialogue

ASSUME AnswersAssumption == MaxAnswers \in Nat

Protocols == {"HTTP", "WS"}
Answers   == [protocol : Protocols, name : TermNames]
Dialogues == BoundedSeq(Answers, MaxAnswers)

\* two: there is a WebSocket form; known: termsHTTP and termsWS; forms: for
\* each form and name the place of the answer whose value it holds, or 0.
Start(two) ==
  [two |-> two, http |-> FALSE, ws |-> FALSE,
   known |-> [p \in Protocols |-> {}],
   forms |-> [p \in Protocols |-> [n \in TermNames |-> 0]],
   asked |-> 0]

(* Mutant of Choose: a choice takes back the one before.                   *)
ChooseOne(S, protocol) ==
  IF ~S.two THEN S
  ELSE [S EXCEPT !.http = protocol = "HTTP", !.ws = protocol = "WS"]

(* The question is put only if there are two forms.                        *)
Choose(S, protocol) ==
  IF ~S.two THEN S
  ELSE IF protocol = "HTTP" THEN [S EXCEPT !.http = TRUE] ELSE [S EXCEPT !.ws = TRUE]

(* The list that a new name is remembered in; none if there is one form.   *)
ListedIn(S) == IF S.http THEN {"HTTP"} ELSE IF S.ws THEN {"WS"} ELSE {}

(* Mutant of Checked: always the first list.                               *)
CheckedHttp(S) == {"HTTP"}

(* The list it is checked against.                                         *)
Checked(S) == IF S.two THEN ListedIn(S) ELSE {"HTTP"}

(* The form it is written to.                                              *)
Written(S) == IF S.ws THEN "WS" ELSE "HTTP"

(* One answer; a name that exists is asked for again.                      *)
AddTerm(S, answer) ==
  LET C == Choose([S EXCEPT !.asked = @ + 1], answer.protocol)
      name == answer.name
  IN  IF \E p \in Checked(C) : name \in C.known[p] THEN C
      ELSE [C EXCEPT !.known = [p \in Protocols |->
                                  IF p \in ListedIn(C) THEN @[p] \cup {name} ELSE @[p]],
                     !.forms[Written(C)][name] = C.asked]

(* What the first n answers of a dialogue come to, for each n.             *)
AddTerms(two, dialogue) ==
  LET after[n \in 0 .. Len(dialogue)] ==
        IF n = 0 THEN Start(two) ELSE AddTerm(after[n - 1], dialogue[n])
  IN  after

(* A term lands in the form it was asked for if none was asked for the     *)
(* WebSocket form before; from then on all land there.                     *)
LandsAsAsked(two) ==
  \A d \in Dialogues : \A n \in DOMAIN d :
    LET before == AddTerms(two, d)[n - 1].forms
        after  == AddTerms(two, d)[n].forms
        form   == IF two /\ \E m \in 1 .. n : d[m].protocol = "WS" THEN "WS" ELSE "HTTP"
    IN  \A p \in Protocols \ {form} : after[p] = before[p]

(* In a dialogue that stays with one form of two no term is replaced.      *)
FirstStays ==
  \A d \in Dialogues, p \in Protocols :
    (\A n \in DOMAIN d : d[n].protocol = p) =>
      \A n \in DOMAIN d : \E m \in 1 .. n :
        d[m].name = d[n].name /\ AddTerms(TRUE, d)[Len(d)].forms[p][d[n].name] = m
=================================================================================
