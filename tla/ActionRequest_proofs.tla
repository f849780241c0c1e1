-------------------------- MODULE ActionRequest_proofs --------------------------
(***************************************************************************)
(* What the loop over the inputs of an action guarantees for every list of *)
(* inputs and every request.                                               *)
(***************************************************************************)
EXTENDS ActionRequest, TLAPS

(* Given the verdicts f, no input up to n passed unseen, except behind one *)
(* that counts with i and was found good.                                  *)
Seen(f, n) ==
  \A p \in Indices : p <= n /\ f[p] = "unseen" =>
    \E q \in 1 .. p - 1 : Counts(Inputs[q]) /\ f[q] = "good"

(* The loop over the inputs, as long as it goes on, and the loop over the  *)
(* properties of an input.                                                 *)
InLoop   == Busy /\ inside = 0 /\ valid => Seen(verdict, i)
InObject ==
  inside # 0 => Busy /\ Counts(Inputs[inside]) /\ Seen(verdict, inside - 1)

HasBody == Busy => body \in Bodies

Inv == TypeOK /\ HasBody /\ InLoop /\ InObject /\ SkippedOnlyPastCounter

(* The declared inputs.                                                    *)
LEMMA Declared ==
  /\ N \in Nat
  /\ \A p \in Indices : /\ Inputs[p].type \in Types \cup {"object"}
                        /\ Inputs[p].items \in ItemTypes
                        /\ Inputs[p].props \in Seq(Simple)
                        /\ Inputs[p].required \in Seq(Nat \ {0})
                        /\ p \in Nat
<1> DEFINE D == [type : Types \cup {"object"}, items : ItemTypes,
                 props : Seq(Simple), required : Seq(Nat \ {0})]
<1>1. Inputs \in Seq(D)
  BY InputsAssumption
<1> HIDE DEF D
<1>2. N \in Nat /\ \A p \in Indices : Inputs[p] \in D /\ p \in Nat
  BY <1>1 DEF Indices, N
<1> QED BY <1>2 DEF D

(* What a request carries for an input.                                    *)
LEMMA Carried ==
  ASSUME body \in Bodies, NEW p \in Indices
  PROVE  /\ body[p].value \in Values \cup {None}
         /\ body[p].members \in [DOMAIN Inputs[p].props -> Values \cup {None}]
<1> DEFINE members == [DOMAIN Inputs[p].props -> Values \cup {None}]
<1>1. body[p] \in Sent(p)
  BY DEF Bodies
<1>2. Object \in Values
  BY DEF Values
<1>3. [q \in DOMAIN Inputs[p].props |-> None] \in members
  OBVIOUS
<1>4. \E v \in Values \cup {None}, m \in members : body[p] = [value |-> v, members |-> m]
  <2> DEFINE nothing == [q \in DOMAIN Inputs[p].props |-> None]
  <2>1. CASE \E v \in Values \cup {None} : body[p] = [value |-> v, members |-> nothing]
    BY <2>1, <1>3
  <2>2. CASE \E m \in members : body[p] = [value |-> Object, members |-> m]
    BY <2>2, <1>2
  <2> QED BY <1>1, <2>1, <2>2 DEF Sent
<1> QED BY <1>4

(* The fields of a value.                                                  *)
LEMMA ValueFields ==
  ASSUME NEW v \in Values \cup {None}
  PROVE  /\ v.form \in {"bool", "object", "none", "text", "number", "array"}
         /\ v.lead \in Nat /\ v.clean \in BOOLEAN /\ v.fits \in BOOLEAN
<1>1. v.form \in {"bool", "object", "none", "text", "number", "array"}
  <2>1. CASE v \in {Bool, Object, None}
    BY <2>1 DEF None, Bool, Object, NoNumber
  <2>2. CASE v \in Texts \cup Numbers \cup Arrays
    BY <2>2 DEF Texts, Numbers, Arrays, Value
  <2> QED BY <2>1, <2>2 DEF Values
<1>2. v.lead \in Nat
  <2>1. CASE v = Bool \/ v = Object \/ v = None
    BY <2>1 DEF None, Bool, Object, NoNumber
  <2>2. CASE v \in Texts
    BY <2>2 DEF Texts, Value
  <2>3. CASE v \in Value({"number"}, 1 .. MaxLead, {TRUE}, BOOLEAN)
    BY <2>3, FlagsAssumption DEF Value
  <2>4. CASE v \in Value({"number"}, 0 .. MaxLead, {FALSE}, {FALSE})
    BY <2>4, FlagsAssumption DEF Value
  <2>5. CASE v \in Arrays
    BY <2>5, FlagsAssumption DEF Arrays, Value
  <2> QED BY <2>1, <2>2, <2>3, <2>4, <2>5 DEF Values, Numbers
<1>3. v.clean \in BOOLEAN /\ v.fits \in BOOLEAN
  <2>1. CASE v \in {Bool, Object, None}
    <3>1. PICK f : v = NoNumber(f)
      BY <2>1 DEF None, Bool, Object
    <3>2. v.clean = FALSE
      BY <3>1 DEF NoNumber
    <3>3. v.fits = FALSE
      BY <3>1 DEF NoNumber
    <3> QED BY <3>2, <3>3
  <2>2. CASE v \in Texts
    BY <2>2 DEF Texts, Value
  <2>3. CASE v \in Numbers
    <3>1. CASE v \in Value({"number"}, 1 .. MaxLead, {TRUE}, BOOLEAN)
      BY <3>1 DEF Value
    <3>2. CASE v \in Value({"number"}, 0 .. MaxLead, {FALSE}, {FALSE})
      BY <3>2 DEF Value
    <3> QED BY <2>3, <3>1, <3>2 DEF Numbers
  <2>4. CASE v \in Arrays
    BY <2>4 DEF Arrays, Value
  <2> QED BY <2>1, <2>2, <2>3, <2>4 DEF Values
<1> QED BY <1>1, <1>2, <1>3

(* One call for a simple type: its result is a Boolean and its index a     *)
(* natural number, which it leaves alone unless the type counts with it.   *)
LEMMA CheckType ==
  ASSUME NEW s, s.type \in Types, s.items \in ItemTypes,
         NEW v \in Values \cup {None}, NEW index \in Nat
  PROVE  /\ Check(s, v, index).ok \in BOOLEAN
         /\ Check(s, v, index).i \in Nat
         /\ ~Counts(s) => Check(s, v, index).i = index
<1> DEFINE Goal(r) == r.ok \in BOOLEAN /\ r.i \in Nat /\ (~Counts(s) => r.i = index)
<1>0. \A ok \in BOOLEAN, m \in Nat : Counts(s) \/ m = index => Goal(Outcome(ok, m))
  BY DEF Outcome
<1>1. CASE s.type = "integer"
  <2>1. Check(s, v, index) = Number(v)
    BY <1>1 DEF Check
  <2>2. Counts(s)
    BY <1>1 DEF Counts
  <2>3. CASE v.form = "array"
    <3>1. Number(v) = Outcome(FALSE, 1)
      BY <2>3 DEF Number
    <3> QED BY <1>0, <2>1, <2>2, <3>1
  <2>4. CASE v.form # "array" /\ v.clean
    <3>1. Number(v) = Outcome(v.fits, v.lead)
      BY <2>4 DEF Number
    <3> QED BY <1>0, <2>1, <2>2, <3>1, ValueFields
  <2>5. CASE v.form # "array" /\ ~v.clean
    <3>1. Number(v) = Outcome(FALSE, v.lead + 1)
      BY <2>5 DEF Number
    <3>2. v.lead + 1 \in Nat
      BY ValueFields
    <3> QED BY <1>0, <2>1, <2>2, <3>1, <3>2
  <2> QED BY <2>3, <2>4, <2>5
<1>2. CASE s.type = "array"
  <2>1. Check(s, v, index) = Array(v, s.items, index)
    BY <1>2 DEF Check
  <2>2. CASE v.form # "array"
    <3>1. Array(v, s.items, index) = Outcome(FALSE, index)
      BY <2>2 DEF Array
    <3> QED BY <1>0, <2>1, <3>1
  <2>3. CASE v.form = "array" /\ s.items \in {"string", "boolean"}
    <3>1. Array(v, s.items, index) = Outcome(v.clean, v.lead)
      BY <2>3 DEF Array
    <3>2. Counts(s)
      BY <1>2, <2>3 DEF Counts
    <3> QED BY <1>0, <2>1, <3>1, <3>2, ValueFields
  <2>4. CASE v.form = "array" /\ s.items = "null"
    <3>1. Array(v, s.items, index) = Outcome(TRUE, index)
      BY <2>4 DEF Array
    <3> QED BY <1>0, <2>1, <3>1
  <2>5. CASE v.form = "array" /\ s.items = "object"
    <3>1. Array(v, s.items, index) = Outcome(HasArrayObject, index)
      BY <2>5 DEF Array
    <3>2. PICK ok \in BOOLEAN : ok = HasArrayObject
      BY FlagsAssumption
    <3> QED BY <1>0, <2>1, <3>1, <3>2
  <2>6. s.items \in {"string", "boolean", "null", "object"}
    BY DEF ItemTypes
  <2> QED BY <2>2, <2>3, <2>4, <2>5, <2>6
<1>3. CASE s.type = "boolean"
  <2>1. Check(s, v, index) = Outcome(v = Bool, index)
    BY <1>3 DEF Check
  <2> QED BY <1>0, <2>1
<1>4. CASE s.type \in {"string", "null"}
  <2>1. Check(s, v, index) = Outcome(TRUE, index)
    BY <1>4 DEF Check
  <2> QED BY <1>0, <2>1
<1>5. s.type \in {"string", "null", "boolean", "integer", "array"}
  BY DEF Types
<1> QED BY <1>1, <1>2, <1>3, <1>4, <1>5

-------------------------------------------------------------------------------
(* Finding input n + 1 good, from where nothing up to n was skipped, leaves *)
(* nothing skipped up to n + 1, or up to any index behind a counting input. *)
LEMMA SeeOne ==
  ASSUME NEW f \in [Indices -> {"unseen", "good", "bad"}],
         NEW n \in Nat, n + 1 \in Indices, Seen(f, n),
         NEW g, g = [f EXCEPT ![n + 1] = "good"],
         NEW m \in Nat, Counts(Inputs[n + 1]) \/ m <= n + 1
  PROVE  Seen(g, m)
<1> SUFFICES ASSUME NEW p \in Indices, p <= m, g[p] = "unseen"
             PROVE  \E q \in 1 .. p - 1 : Counts(Inputs[q]) /\ g[q] = "good"
  BY DEF Seen
<1>1. p \in Nat /\ N \in Nat /\ n + 1 <= N
  BY Declared DEF Indices
<1>2. p # n + 1 /\ f[p] = "unseen" /\ g[n + 1] = "good"
  OBVIOUS
<1>3. CASE p <= n
  <2>1. PICK q \in 1 .. p - 1 : Counts(Inputs[q]) /\ f[q] = "good"
    BY <1>2, <1>3 DEF Seen
  <2>2. q \in Indices /\ q # n + 1
    BY <1>1, <1>3, <2>1 DEF Indices
  <2>3. g[q] = f[q]
    BY <2>2
  <2> QED BY <2>1, <2>3
<1>4. CASE p > n
  <2>1. p > n + 1
    BY <1>1, <1>2, <1>4
  <2>2. Counts(Inputs[n + 1])
    BY <1>1, <2>1
  <2>3. n + 1 \in 1 .. p - 1
    BY <1>1, <2>1
  <2> QED BY <1>2, <2>2, <2>3
<1> QED BY <1>1, <1>3, <1>4

-------------------------------------------------------------------------------
(* Each action keeps the invariant.                                        *)
LEMMA InitInv == Init => Inv
<1> SUFFICES ASSUME Init PROVE Inv
  OBVIOUS
<1>1. TypeOK
  BY DEF Init, TypeOK
<1>2. HasBody /\ InLoop /\ InObject /\ SkippedOnlyPastCounter
  BY DEF Init, HasBody, InLoop, InObject, SkippedOnlyPastCounter, Busy
<1> QED BY <1>1, <1>2 DEF Inv

LEMMA ReceiveKeeps == Inv /\ Receive => Inv'
<1> SUFFICES ASSUME Inv, Receive PROVE Inv'
  OBVIOUS
<1>1. /\ inside' = inside /\ valid' = valid /\ propOk' = propOk
      /\ verdict' = verdict /\ propBad' = propBad /\ answer = "idle"
      /\ \/ body' = << >> /\ answer' = "refused" /\ i' = i
         \/ body' \in Bodies /\ answer' = "refused" /\ i' = i
         \/ body' \in Bodies /\ answer' = "none" /\ i' = 0
  BY DEF Receive, Arrives
<1>2. inside = 0
  BY <1>1 DEF Inv, InObject, Busy
<1>3. TypeOK'
  BY <1>1 DEF Inv, TypeOK
<1>4. HasBody'
  BY <1>1 DEF HasBody, Busy
<1>5. InLoop'
  <2> SUFFICES ASSUME answer' = "none" PROVE Seen(verdict', i')
    BY DEF InLoop, Busy
  <2> QED BY <1>1, Declared DEF Seen, Indices
<1>6. InObject' /\ SkippedOnlyPastCounter'
  BY <1>1, <1>2 DEF InObject, SkippedOnlyPastCounter
<1> QED BY <1>3, <1>4, <1>5, <1>6 DEF Inv

(* A step of the loop over the inputs that ends the call for input i + 1.  *)
LEMMA ResultKeeps ==
  ASSUME Inv, Looping, i + 1 \in Indices, NEW ok \in BOOLEAN, NEW m \in Nat,
         ok => Counts(Inputs[i + 1]) \/ m <= i + 1,
         valid' = ok, verdict' = [verdict EXCEPT ![i + 1] = Word(ok)], i' = m,
         UNCHANGED <<body, inside, propOk, propBad, answer>>
  PROVE  Inv'
<1>1. i \in Nat /\ verdict \in [Indices -> {"unseen", "good", "bad"}]
  BY DEF Inv, TypeOK
<1>2. Word(ok) \in {"good", "bad"} /\ (ok => Word(ok) = "good")
  BY DEF Word
<1>3. TypeOK'
  <2>1. verdict' \in [Indices -> {"unseen", "good", "bad"}]
    BY <1>1, <1>2
  <2> QED BY <2>1 DEF Inv, TypeOK
<1>4. HasBody'
  BY DEF Inv, HasBody, Busy
<1>5. InLoop'
  <2> SUFFICES ASSUME ok PROVE Seen(verdict', m)
    BY DEF InLoop
  <2>1. Seen(verdict, i)
    BY DEF Inv, InLoop, Looping
  <2>2. verdict' = [verdict EXCEPT ![i + 1] = "good"]
    BY <1>2
  <2> QED BY <1>1, <2>1, <2>2, SeeOne
<1>6. InObject' /\ SkippedOnlyPastCounter'
  BY DEF InObject, SkippedOnlyPastCounter, Looping, Busy
<1> QED BY <1>3, <1>4, <1>5, <1>6 DEF Inv

(* The index a running loop stands at is that of an input.                 *)
LEMMA LoopingIndex ==
  ASSUME Inv, Looping
  PROVE  /\ i \in Nat /\ i + 1 \in Indices /\ inside = 0 /\ Busy /\ valid
         /\ body \in Bodies
BY Declared DEF Inv, TypeOK, HasBody, Looping, Indices

LEMMA CheckInputKeeps == Inv /\ CheckInput => Inv'
<1> SUFFICES ASSUME Inv, CheckInput PROVE Inv'
  OBVIOUS
<1> DEFINE p == i + 1
           r == Check(Inputs[p], body[p].value, i)
<1>1. Looping /\ Inputs[p].type # "object"
  BY DEF CheckInput, SeeInput
<1>2. i \in Nat /\ p \in Indices
  BY <1>1, LoopingIndex
<1>3. Inputs[p].type \in Types /\ Inputs[p].items \in ItemTypes
  BY <1>1, <1>2, Declared
<1>4. body[p].value \in Values \cup {None}
  BY <1>1, <1>2, LoopingIndex, Carried
<1>5. r.ok \in BOOLEAN /\ r.i \in Nat /\ (~Counts(Inputs[p]) => r.i = i)
  BY <1>2, <1>3, <1>4, CheckType
<1>6. /\ valid' = r.ok /\ verdict' = [verdict EXCEPT ![p] = Word(r.ok)] /\ i' = r.i + 1
      /\ UNCHANGED <<body, inside, propOk, propBad, answer>>
  BY DEF CheckInput, SeeInput
<1> HIDE DEF r
<1>7. r.i + 1 \in Nat /\ (Counts(Inputs[p]) \/ r.i + 1 <= p)
  BY <1>2, <1>5
<1> QED BY <1>1, <1>2, <1>5, <1>6, <1>7, ResultKeeps

LEMMA CheckObjectKeeps == Inv /\ CheckObject => Inv'
<1> SUFFICES ASSUME Inv, CheckObject PROVE Inv'
  OBVIOUS
<1> DEFINE p == i + 1
           Result(ok, index) == /\ valid' = ok
                                /\ verdict' = [verdict EXCEPT ![p] = Word(ok)]
                                /\ i' = index + 1
<1>1. Looping /\ i \in Nat /\ p \in Indices
  BY LoopingIndex DEF CheckObject
<1>2. UNCHANGED <<body, inside, propOk, propBad, answer>>
  BY DEF CheckObject
<1>3. \/ Result(TRUE, i) \/ Result(FALSE, i)
      \/ \E r \in Missing(p) : Result(FALSE, r - 1)
  BY DEF CheckObject
<1>4. i + 1 \in Nat /\ i + 1 <= p
  BY <1>1
<1>5. CASE Result(TRUE, i)
  BY <1>1, <1>2, <1>4, <1>5, ResultKeeps
<1>6. CASE Result(FALSE, i)
  BY <1>1, <1>2, <1>4, <1>6, ResultKeeps
<1>7. CASE \E r \in Missing(p) : Result(FALSE, r - 1)
  <2>1. PICK r \in Missing(p) : Result(FALSE, r - 1)
    BY <1>7
  <2>2. r \in Nat /\ (r - 1) + 1 = r
    <3>1. r \in DOMAIN Inputs[p].required
      BY <2>1 DEF Missing
    <3> QED BY <1>1, <3>1, Declared
  <2> QED BY <1>1, <1>2, <2>1, <2>2, ResultKeeps
<1> QED BY <1>3, <1>5, <1>6, <1>7

LEMMA EnterObjectKeeps == Inv /\ EnterObject => Inv'
<1> SUFFICES ASSUME Inv, EnterObject PROVE Inv'
  OBVIOUS
<1>1. /\ i \in Nat /\ i + 1 \in Indices /\ Busy /\ valid /\ inside = 0 /\ body \in Bodies
      /\ Inputs[i + 1].type = "object" /\ HasProperty
      /\ inside' = i + 1 /\ propOk' = TRUE /\ i' = 0
      /\ UNCHANGED <<body, valid, verdict, propBad, answer>>
  BY LoopingIndex DEF EnterObject
<1>2. TypeOK'
  BY <1>1 DEF Inv, TypeOK
<1>3. HasBody'
  BY <1>1 DEF HasBody, Busy
<1>4. InLoop'
  BY <1>1 DEF InLoop
<1>5. InObject'
  <2>1. Counts(Inputs[i + 1])
    BY <1>1 DEF Counts
  <2>2. Seen(verdict, i) /\ inside' - 1 = i
    BY <1>1 DEF Inv, InLoop
  <2> QED BY <1>1, <2>1, <2>2 DEF InObject, Busy
<1>6. SkippedOnlyPastCounter'
  BY <1>1 DEF SkippedOnlyPastCounter, Busy
<1> QED BY <1>2, <1>3, <1>4, <1>5, <1>6 DEF Inv

LEMMA CheckPropertyKeeps == Inv /\ CheckProperty => Inv'
<1> SUFFICES ASSUME Inv, CheckProperty PROVE Inv'
  OBVIOUS
<1> DEFINE s == Inputs[inside].props[i + 1]
           v == body[inside].members[i + 1]
           r == IF v = None THEN Outcome(propOk, i) ELSE Check(s, v, i)
<1>1. /\ Busy /\ inside # 0 /\ i < Len(Inputs[inside].props)
      /\ propOk' = r.ok /\ i' = r.i + 1
      /\ propBad' = (propBad \/ (v # None /\ ~r.ok))
      /\ UNCHANGED <<body, valid, inside, verdict, answer>>
  BY DEF CheckProperty, SeeProperty
<1>2. inside \in Indices /\ i \in Nat /\ propOk \in BOOLEAN /\ body \in Bodies
  BY <1>1 DEF Inv, TypeOK, HasBody
<1>3. i + 1 \in DOMAIN Inputs[inside].props /\ s \in Simple
  <2> DEFINE props == Inputs[inside].props
  <2>1. props \in Seq(Simple)
    BY <1>2, Declared
  <2>2. i < Len(props)
    BY <1>1
  <2> HIDE DEF props
  <2>3. i + 1 \in DOMAIN props /\ props[i + 1] \in Simple
    BY <1>2, <2>1, <2>2
  <2> QED BY <2>3 DEF props
<1>4. s.type \in Types /\ s.items \in ItemTypes
  BY <1>3 DEF Simple
<1>5. v \in Values \cup {None}
  BY <1>2, <1>3, Carried
<1>6. r.ok \in BOOLEAN /\ r.i \in Nat
  <2>1. CASE v = None
    BY <1>2, <2>1 DEF Outcome
  <2>2. CASE v # None
    BY <1>2, <1>4, <1>5, <2>2, CheckType
  <2> QED BY <2>1, <2>2
<1> HIDE DEF r, v
<1>7. TypeOK'
  BY <1>1, <1>2, <1>6 DEF Inv, TypeOK
<1>8. HasBody' /\ InLoop' /\ InObject' /\ SkippedOnlyPastCounter'
  BY <1>1 DEF Inv, HasBody, InLoop, InObject, SkippedOnlyPastCounter, Busy
<1> QED BY <1>7, <1>8 DEF Inv

LEMMA EndPropertiesKeeps == Inv /\ EndProperties => Inv'
<1> SUFFICES ASSUME Inv, EndProperties PROVE Inv'
  OBVIOUS
<1>1. /\ Busy /\ inside # 0 /\ valid' = propOk /\ inside' = 0 /\ i' = i + 1
      /\ verdict' = [verdict EXCEPT ![inside] = Word(propOk)]
      /\ UNCHANGED <<body, propOk, propBad, answer>>
  BY DEF EndProperties
<1>2. /\ inside \in Indices /\ inside \in Nat \ {0} /\ i \in Nat /\ propOk \in BOOLEAN
      /\ verdict \in [Indices -> {"unseen", "good", "bad"}]
  BY <1>1, Declared DEF Inv, TypeOK, Indices
<1>3. Word(propOk) \in {"good", "bad"} /\ (propOk => Word(propOk) = "good")
  BY <1>2 DEF Word
<1>4. TypeOK'
  <2>1. verdict' \in [Indices -> {"unseen", "good", "bad"}]
    BY <1>1, <1>2, <1>3
  <2> QED BY <1>1, <1>2, <2>1 DEF Inv, TypeOK
<1>5. HasBody'
  BY <1>1 DEF Inv, HasBody, Busy
<1>6. InLoop'
  <2> SUFFICES ASSUME propOk PROVE Seen(verdict', i')
    BY <1>1 DEF InLoop
  <2> DEFINE n == inside - 1
  <2>1. n \in Nat /\ n + 1 = inside
    BY <1>2
  <2>2. Seen(verdict, n) /\ Counts(Inputs[inside])
    BY <1>1 DEF Inv, InObject
  <2> HIDE DEF n
  <2>3. Word(propOk) = "good"
    BY <1>3
  <2>4. verdict' = [verdict EXCEPT ![n + 1] = "good"]
    BY <1>1, <2>1, <2>3
  <2>5. i' \in Nat
    BY <1>1, <1>2
  <2> QED BY <1>2, <2>1, <2>2, <2>4, <2>5, SeeOne
<1>7. InObject' /\ SkippedOnlyPastCounter'
  BY <1>1 DEF InObject, SkippedOnlyPastCounter, Busy
<1> QED BY <1>4, <1>5, <1>6, <1>7 DEF Inv

LEMMA DecideKeeps == Inv /\ Decide => Inv'
<1> SUFFICES ASSUME Inv, Decide PROVE Inv'
  OBVIOUS
<1>1. /\ Busy /\ inside = 0 /\ (~valid \/ i >= N)
      /\ answer' = IF valid THEN "invoked" ELSE "refused"
      /\ UNCHANGED <<body, i, valid, inside, propOk, verdict, propBad>>
  <2>1. i \in Nat /\ N \in Nat
    BY Declared DEF Inv, TypeOK
  <2>2. Busy /\ inside = 0 /\ ~Looping
    BY DEF Decide
  <2>3. ~valid \/ i >= N
    BY <2>1, <2>2 DEF Looping
  <2> QED BY <2>2, <2>3 DEF Decide
<1>2. TypeOK'
  BY <1>1 DEF Inv, TypeOK
<1>3. HasBody' /\ InLoop' /\ InObject'
  BY <1>1 DEF HasBody, InLoop, InObject, Busy
<1>4. SkippedOnlyPastCounter'
  <2> SUFFICES ASSUME valid, NEW p \in Indices, verdict[p] = "unseen"
               PROVE  \E q \in 1 .. p - 1 : Counts(Inputs[q]) /\ verdict[q] = "good"
    BY <1>1 DEF SkippedOnlyPastCounter
  <2>1. Seen(verdict, i) /\ i \in Nat
    BY <1>1 DEF Inv, TypeOK, InLoop
  <2>2. p <= i
    BY <1>1, <2>1, Declared DEF Indices
  <2> QED BY <2>1, <2>2 DEF Seen
<1> QED BY <1>2, <1>3, <1>4 DEF Inv

LEMMA ReturnKeeps == Inv /\ Return => Inv'
<1> SUFFICES ASSUME Inv, Return PROVE Inv'
  OBVIOUS
<1>1. TypeOK'
  BY DEF Inv, TypeOK, Return
<1>2. HasBody' /\ InLoop' /\ InObject' /\ SkippedOnlyPastCounter'
  BY DEF Inv, HasBody, InLoop, InObject, SkippedOnlyPastCounter, Busy, Return
<1> QED BY <1>1, <1>2 DEF Inv

LEMMA StutterKeeps == Inv /\ UNCHANGED vars => Inv'
BY DEF Inv, TypeOK, HasBody, InLoop, InObject, SkippedOnlyPastCounter, Seen, Busy, vars

(* The invariant of the request function.                                  *)
THEOREM RequestInvariant == Spec => []Inv
<1>1. Inv /\ [Next]_vars => Inv'
  BY ReceiveKeeps, CheckInputKeeps, CheckObjectKeeps, EnterObjectKeeps,
     CheckPropertyKeeps, EndPropertiesKeeps, DecideKeeps, ReturnKeeps, StutterKeeps
     DEF Next, Step
<1> QED BY <1>1, InitInv, PTL DEF Spec

-------------------------------------------------------------------------------
(* The variables keep their types: the index stays a natural number, and   *)
(* the input being looked into is a declared one (lines 1110-1171).        *)
THEOREM RequestTypeCorrect == Spec => []TypeOK
BY RequestInvariant, PTL DEF Inv

(* For every list of inputs and every request: an input that nobody        *)
(* checked stands behind one whose check counts with i and was passed      *)
(* (lines 1150-1169).                                                      *)
THEOREM SkippingIsBehindCounters == Spec => []SkippedOnlyPastCounter
BY RequestInvariant, PTL DEF Inv

(* If no input but the last is of a type whose check counts with i, the    *)
(* action runs only after all of them were checked.                        *)
THEOREM AllInputsChecked ==
  ASSUME \A p \in 1 .. N - 1 : ~Counts(Inputs[p])
  PROVE  Spec => []InvokedOnlyIfChecked
<1>1. SkippedOnlyPastCounter => InvokedOnlyIfChecked
  BY Declared DEF SkippedOnlyPastCounter, InvokedOnlyIfChecked, Indices
<1> QED BY <1>1, SkippingIsBehindCounters, PTL

-------------------------------------------------------------------------------
(* As long as the loop goes on, no input was found bad; and without object *)
(* properties there is none to be found bad.                               *)
NoBadVerdict == valid => \A p \in Indices : verdict[p] # "bad"
StillValid   == inside # 0 \/ answer = "invoked" => valid
NoProperties == HasProperty \/ (inside = 0 /\ ~propBad)

GoodInv == NoBadVerdict /\ StillValid /\ NoProperties

(* The end of a call for input p.                                          *)
LEMMA WordKeepsGood ==
  ASSUME TypeOK, NoBadVerdict, valid, NEW p \in Indices, NEW ok \in BOOLEAN,
         valid' = ok, verdict' = [verdict EXCEPT ![p] = Word(ok)]
  PROVE  NoBadVerdict'
<1> SUFFICES ASSUME ok, NEW q \in Indices PROVE verdict'[q] # "bad"
  BY DEF NoBadVerdict
<1>1. Word(ok) = "good"
  BY DEF Word
<1>2. verdict[q] # "bad" /\ verdict \in [Indices -> {"unseen", "good", "bad"}]
  BY DEF NoBadVerdict, TypeOK
<1> QED BY <1>1, <1>2

LEMMA GoodStep == Inv /\ Inv' /\ GoodInv /\ [Next]_vars => GoodInv'
<1> SUFFICES ASSUME Inv, Inv', GoodInv, [Next]_vars PROVE GoodInv'
  OBVIOUS
<1>0. TypeOK /\ TypeOK'
  BY DEF Inv
<1>1. CASE Receive
  <2>1. /\ UNCHANGED <<valid, verdict, inside, propBad>>
        /\ answer = "idle" /\ answer' # "invoked"
    BY <1>1 DEF Receive, Arrives
  <2> QED BY <2>1 DEF GoodInv, NoBadVerdict, StillValid, NoProperties
<1>2. CASE CheckInput
  <2>1. /\ Looping /\ UNCHANGED <<inside, propBad, answer>>
        /\ verdict' = [verdict EXCEPT ![i + 1] = Word(valid')]
    BY <1>2 DEF CheckInput, SeeInput
  <2>2. valid' \in BOOLEAN /\ i + 1 \in Indices /\ valid /\ inside = 0 /\ Busy
    BY <1>0, <2>1, LoopingIndex DEF TypeOK
  <2>3. NoBadVerdict'
    BY <1>0, <2>1, <2>2, WordKeepsGood DEF GoodInv
  <2> QED BY <2>1, <2>2, <2>3 DEF GoodInv, StillValid, NoProperties, Busy
<1>3. CASE CheckObject
  <2>1. /\ Looping /\ UNCHANGED <<inside, propBad, answer>>
        /\ verdict' = [verdict EXCEPT ![i + 1] = Word(valid')]
    BY <1>3 DEF CheckObject
  <2>2. valid' \in BOOLEAN /\ i + 1 \in Indices /\ valid /\ inside = 0 /\ Busy
    BY <1>0, <2>1, LoopingIndex DEF TypeOK
  <2>3. NoBadVerdict'
    BY <1>0, <2>1, <2>2, WordKeepsGood DEF GoodInv
  <2> QED BY <2>1, <2>2, <2>3 DEF GoodInv, StillValid, NoProperties, Busy
<1>4. CASE EnterObject
  <2>1. valid /\ HasProperty /\ UNCHANGED <<valid, verdict, propBad, answer>>
    BY <1>4, LoopingIndex DEF EnterObject
  <2> QED BY <2>1 DEF GoodInv, NoBadVerdict, StillValid, NoProperties
<1>5. CASE CheckProperty
  <2>1. inside # 0 /\ UNCHANGED <<valid, verdict, inside, answer>>
    BY <1>5 DEF CheckProperty, SeeProperty
  <2> QED BY <2>1 DEF GoodInv, NoBadVerdict, StillValid, NoProperties
<1>6. CASE EndProperties
  <2>1. /\ inside # 0 /\ Busy /\ inside' = 0 /\ UNCHANGED <<propBad, answer, propOk>>
        /\ valid' = propOk /\ verdict' = [verdict EXCEPT ![inside] = Word(propOk)]
    BY <1>6 DEF EndProperties
  <2>2. propOk \in BOOLEAN /\ inside \in Indices /\ valid
    BY <1>0, <2>1 DEF TypeOK, GoodInv, StillValid
  <2>3. NoBadVerdict'
    BY <1>0, <2>1, <2>2, WordKeepsGood DEF GoodInv
  <2> QED BY <2>1, <2>3 DEF GoodInv, StillValid, NoProperties, Busy
<1>7. CASE Decide
  <2>1. /\ inside = 0 /\ UNCHANGED <<valid, verdict, inside, propBad>>
        /\ (answer' = "invoked" => valid)
    BY <1>7 DEF Decide, Looping
  <2> QED BY <2>1 DEF GoodInv, NoBadVerdict, StillValid, NoProperties
<1>8. CASE Return
  <2>1. /\ valid' = TRUE /\ verdict' = [p \in Indices |-> "unseen"] /\ propBad' = FALSE
        /\ inside' = inside
    BY <1>8 DEF Return
  <2> QED BY <2>1 DEF GoodInv, NoBadVerdict, StillValid, NoProperties
<1>9. CASE UNCHANGED vars
  BY <1>9 DEF GoodInv, NoBadVerdict, StillValid, NoProperties, vars
<1> QED BY <1>1, <1>2, <1>3, <1>4, <1>5, <1>6, <1>7, <1>8, <1>9 DEF Next, Step

(* Unless some input is an object with properties, an action runs only if  *)
(* no call of handleInputType returned false (lines 1150, 1171); with such *)
(* properties the last one of them decides alone (1740-1757).              *)
THEOREM InvokedIfAllGood ==
  ASSUME ~HasProperty
  PROVE  Spec => []InvokedOnlyIfGood
<1>1. Init => GoodInv
  BY DEF Init, GoodInv, NoBadVerdict, StillValid, NoProperties
<1>2. GoodInv => InvokedOnlyIfGood
  BY DEF GoodInv, NoBadVerdict, StillValid, NoProperties, InvokedOnlyIfGood
<1> QED BY <1>1, <1>2, RequestInvariant, GoodStep, PTL DEF Spec
===============================================================================
