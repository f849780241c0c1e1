------------------------------ MODULE EventSchemas ------------------------------
(***************************************************************************)
(* The schemas of the events: how setup() copies them from the tables of   *)
(* the sketch into the document es_doc, and how the texts of a consumer    *)
(* and the notifications of an event are made of them.                     *)
(*                                                                         *)
(* This is what stands behind Takes of ServientWS, where a text has the    *)
(* shape of a schema or of none.  The size of the loop that copies and the *)
(* size of the document are computed from the schemas, each in its way, so *)
(* that what is copied need not be what was declared.  A string array that *)
(* is read behind its end yields any term, or nothing that parses.         *)
(***************************************************************************)
EXTENDS Integers, Sequences

CONSTANTS
  Names, Values, \* of the terms of schemas and messages
  NameLen,       \* characters of a name
  ValueLen,      \* digits of a value; all values are numbers
  NoName, NoValue,
  NumEvents,     \* events_number
  Offered,       \* the schemas an event may be declared with
  SlotSize,      \* sizeof(VariantSlot)
  MaxTerms       \* bound: terms of a schema or a message

Events == 1 .. NumEvents
Kinds  == <<"subscription", "data", "cancellation">>
KindSet == {"subscription", "data", "cancellation"}

Terms     == [name : Names, value : Values]
Junk      == [name |-> NoName, value |-> NoValue]
Stored    == [name : Names \cup {NoName}, value : Values \cup {NoValue}]
NamesOf(s) == {s[i].name : i \in DOMAIN s}
Messages  ==
  {m \in UNION {[1 .. n -> Terms] : n \in 0 .. MaxTerms} :
     \A i, j \in DOMAIN m : m[i].name = m[j].name => i = j}
None      == << >>

ASSUME NamesAssumption ==
  /\ NoName \notin Names /\ NoValue \notin Values
  /\ NameLen \in [Names -> Nat \ {0}] /\ ValueLen \in [Values -> Nat \ {0}] /\ MaxTerms \in Nat
ASSUME SchemasAssumption ==
  NumEvents \in Nat \ {0} /\ Offered \subseteq Messages /\ SlotSize \in Nat \ {0}

VARIABLES
  declared, \* the schemas of the Thing, None for a kind that an event lacks
  es,       \* es_doc; made: the object of the event is there
  used,     \* bytes taken of the pool of es_doc
  size,     \* schema_size
  at,       \* how far setup() has come
  chans     \* the objects of one address in e_doc, in their order

vars == <<declared, es, used, size, at, chans>>

Places == 3 * NumEvents
EventAt(p) == (p - 1) \div 3 + 1
KindAt(p)  == Kinds[((p - 1) % 3) + 1]
Ready      == at > Places

-------------------------------------------------------------------------------
(* f[1] + ... + f[n]                                                       *)
SumTo(f, n) ==
  LET sum[i \in 0 .. n] == IF i = 0 THEN 0 ELSE sum[i - 1] + f[i]
  IN  sum[n]

(* The document has twice the bytes of the schemas written as Python lists *)
(* of {'name': ..., 'value': ...}: 25 characters a term, the name and the  *)
(* value, rounded up to whole words.                                       *)
Text(s) ==
  SumTo([i \in DOMAIN s |-> 25 + NameLen[s[i].name] + ValueLen[s[i].value]], Len(s))
Pad(n)      == 4 * ((n + 3) \div 4)
SchemaAt(p) == declared[EventAt(p)][KindAt(p)]
Capacity ==
  LET n == SumTo([p \in 1 .. Places |-> Text(SchemaAt(p))], Places)
  IN  IF n = 0 THEN 20 ELSE Pad(2 * n)

TypeOK ==
  /\ declared \in [Events -> [KindSet -> Offered \cup {None}]]
  /\ es \in [Events -> [made : BOOLEAN, of : [KindSet -> Seq(Stored)]]]
  /\ used \in 0 .. Capacity /\ size \in Nat /\ at \in 1 .. Places + 1
  /\ chans \in Seq([key : Events, flag : BOOLEAN])

Fits(u, n) == u + n <= Capacity

(* One turn of the loop: an object, its member name with a copy of the     *)
(* text, its member value.  Each takes its bytes if they are left.         *)
StoreTerm(S, t) ==
  LET length  == IF t.name = NoName THEN 0 ELSE NameLen[t.name] + 1
      hasObj  == Fits(S.used, SlotSize)
      hasName == Fits(S.used, 2 * SlotSize)
      hasText == Fits(S.used, 2 * SlotSize + length)
      u       == S.used + 2 * SlotSize + (IF hasText THEN length ELSE 0)
      hasVal  == hasName /\ Fits(u, SlotSize)
  IN  IF ~hasObj THEN S
      ELSE [arr  |-> Append(S.arr, [name  |-> IF hasName /\ hasText THEN t.name ELSE NoName,
                                    value |-> IF hasVal THEN t.value ELSE NoValue]),
            used |-> IF ~hasName THEN S.used + SlotSize
                     ELSE IF hasVal THEN u + SlotSize ELSE u]

(* The loop over the terms, into a new array.                              *)
StoreTerms(u, terms) ==
  LET after[i \in 0 .. Len(terms)] ==
        IF i = 0 THEN [arr |-> << >>, used |-> u] ELSE StoreTerm(after[i - 1], terms[i])
  IN  after[Len(terms)]

(* Mutant of StoreSchema: the array is taken to fit.                       *)
StoreUnchecked(E, u, k, terms) ==
  LET S == StoreTerms(u + 2 * SlotSize, terms)
  IN  [event |-> [made |-> TRUE, of |-> [E.of EXCEPT ![k] = S.arr]], used |-> S.used]

(* The object of the event, if it is not there yet, and the array; without *)
(* them nothing is stored.                                                 *)
StoreSchema(E, u, k, terms) ==
  LET made == E.made \/ Fits(u, SlotSize)
      v    == IF E.made \/ ~made THEN u ELSE u + SlotSize
      S    == StoreTerms(v + SlotSize, terms)
  IN  IF made /\ Fits(v, SlotSize)
      THEN [event |-> [made |-> TRUE, of |-> [E.of EXCEPT ![k] = S.arr]], used |-> S.used]
      ELSE [event |-> [E EXCEPT !.made = made], used |-> v]

(* The first n strings of a table.                                         *)
Read(s, n) ==
  {r \in [1 .. n -> Terms \cup {Junk}] : \A i \in 1 .. n : i <= Len(s) => r[i] = s[i]}

(* Mutant of SizeAt: the size of the data schema is one short.             *)
SizeShort(p) == IF EventAt(p) = 1 THEN (IF p = 2 THEN Len(SchemaAt(p)) - 1 ELSE Len(SchemaAt(p)))
               ELSE size

(* schema_size, which is assigned for the schemas of the first event only. *)
SizeAt(p) == IF EventAt(p) = 1 THEN Len(SchemaAt(p)) ELSE size

(* setup(): the schema of one kind of one event, if it is declared.        *)
Copy ==
  /\ ~Ready
  /\ \/ SchemaAt(at) = None /\ UNCHANGED <<es, used, size>>
     \/ /\ SchemaAt(at) # None
        /\ size' = SizeAt(at)
        /\ \E terms \in Read(SchemaAt(at), SizeAt(at)) :
             LET e == EventAt(at)
                 R == StoreSchema(es[e], used, KindAt(at), terms)
             IN  es' = [es EXCEPT ![e] = R.event] /\ used' = R.used
  /\ at' = at + 1
  /\ UNCHANGED <<declared, chans>>

-------------------------------------------------------------------------------
(* webSocketEvent, for the channels of one address.                        *)
Has(e, k) == declared[e][k] # None

Connect(e) ==
  /\ Ready
  /\ \A i \in DOMAIN chans : chans[i].key # e
  /\ chans' = Append(chans, [key |-> e, flag |-> ~Has(e, "subscription")])
  /\ UNCHANGED <<declared, es, used, size, at>>

Disconnect ==
  /\ chans # << >> /\ chans' = << >>
  /\ UNCHANGED <<declared, es, used, size, at>>

(* The kind of schema a text is compared with for the i-th object.         *)
KindFor(i) == IF chans[i].flag THEN "cancellation" ELSE "subscription"

(* A text fits if it has every name of the schema, a missing one never;    *)
(* it is accepted if it is the schema, in the order of the schema.         *)
SchemaFor(i)  == es[chans[i].key].of[KindFor(i)]

FitsNames(i, m) ==
  Has(chans[i].key, KindFor(i)) /\ NamesOf(SchemaFor(i)) \subseteq NamesOf(m)

(* Mutant of Accepts: the names decide.                                    *)
AcceptsNames(i, m) == FitsNames(i, m)

Accepts(i, m) == SchemaFor(i) = m

(* The first object that a text fits takes it.                             *)
Takers(m) == {i \in DOMAIN chans : FitsNames(i, m)}
Taker(m)  == CHOOSE i \in Takers(m) : \A j \in Takers(m) : i <= j

Confirms(m) == Takers(m) # {} /\ Accepts(Taker(m), m)

(* "Subscription confirmed", "Cancellation confirmed"; other texts are     *)
(* refused and change nothing.                                             *)
TextOf(m) ==
  /\ Confirms(m)
  /\ chans' = [chans EXCEPT ![Taker(m)].flag = ~@]
  /\ UNCHANGED <<declared, es, used, size, at>>

(* Mutant of DataFlag: two elements too far.                               *)
DataFlagFar(e) == IF e + 1 < NumEvents THEN {Has(e + 2, "data")} ELSE BOOLEAN

(* events_dataSchema[e], where the elements count from 0.                  *)
DataFlag(e) == IF e < NumEvents THEN {Has(e + 1, "data")} ELSE BOOLEAN

(* What the message of a notification of e may be; None is the empty text. *)
Notices(e) == {IF flag THEN es[e].of["data"] ELSE None : flag \in DataFlag(e)}

-------------------------------------------------------------------------------
Init ==
  /\ declared \in [Events -> [KindSet -> Offered \cup {None}]]
  /\ es = [e \in Events |-> [made |-> FALSE, of |-> [k \in KindSet |-> << >>]]]
  /\ used = 0 /\ size = 0 /\ at = 1
  /\ chans = << >>

Next ==
  \/ Copy
  \/ \E e \in Events : Connect(e)
  \/ Disconnect
  \/ \E m \in Messages : TextOf(m)

Spec == Init /\ [][Next]_vars

-------------------------------------------------------------------------------
(* Properties.                                                             *)

(* The bytes that the schemas of the first p places take if all are stored:*)
(* the array of a schema with its terms, and the object of the event       *)
(* before the first of them.                                               *)
Bytes(s) == SlotSize + SumTo([i \in DOMAIN s |-> 3 * SlotSize + NameLen[s[i].name] + 1], Len(s))
Opens(p) == \A q \in 1 .. p - 1 : EventAt(q) = EventAt(p) => SchemaAt(q) = None
Cost(p)  == IF SchemaAt(p) = None THEN 0
            ELSE Bytes(SchemaAt(p)) + (IF Opens(p) THEN SlotSize ELSE 0)
Need(p)  == SumTo([q \in 1 .. Places |-> Cost(q)], p)

(* The length of the last schema of the first event.                       *)
LastSize ==
  LET Declared == {q \in 1 .. 3 : SchemaAt(q) # None}
  IN  IF Declared = {} THEN 0 ELSE Len(SchemaAt(CHOOSE q \in Declared : \A r \in Declared : r <= q))

Even(p)    == SchemaAt(p) = None \/ EventAt(p) = 1 \/ Len(SchemaAt(p)) = LastSize
Regular(p) == (\A q \in 1 .. p : Even(q)) /\ Need(p) <= Capacity

(* setup() copies a schema whole if the document has the room for it and   *)
(* for those before it, and if those of the later events are as long as    *)
(* the last one of the first, whose size is used for them all (template,   *)
(* lines 596-611, 913-943).                                                *)
WholeIfRegular ==
  \A p \in 1 .. at - 1 : Regular(p) => es[EventAt(p)].of[KindAt(p)] = SchemaAt(p)

(* Of a Thing whose schemas were copied whole every text is confirmed that *)
(* is the schema declared for a channel of the address and fits no channel *)
(* before it, whatever the texts before it did, and no text is confirmed   *)
(* that is not the schema of the channel that takes it (lines 2185-2247).  *)
ConfirmedIsDeclared ==
  Ready /\ Regular(Places) =>
    LET Own(i) == declared[chans[i].key][KindFor(i)] IN
    /\ \A m \in Messages : Confirms(m) => m = Own(Taker(m))
    /\ \A i \in DOMAIN chans :
         Own(i) # None /\ (\A j \in 1 .. i - 1 : ~FitsNames(j, Own(i))) => Confirms(Own(i))

(* Although the table of data schemas is read one element too far, the     *)
(* notifications of an event carry its data schema if it and the event     *)
(* after it have one, and are empty if neither has (lines 1245-1265).      *)
NoticeIsDataIfLikeNext ==
  Ready /\ Regular(Places) =>
    \A e \in 1 .. NumEvents - 1 :
      Has(e, "data") = Has(e + 1, "data") => Notices(e) = {declared[e]["data"]}

(* "Term value is which that users have to assign to the Term itself to    *)
(* make sure that their messages are compatible with the Schema and        *)
(* consequently be accepted" (embeddedWoTServient.py, line 651), for the   *)
(* only channel of an address.                                             *)
MatchingIsAccepted ==
  \A i \in DOMAIN chans :
    Len(chans) = 1 /\ Has(chans[i].key, KindFor(i)) => Confirms(declared[chans[i].key][KindFor(i)])
================================================================================
