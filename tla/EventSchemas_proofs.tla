-------------------------- MODULE EventSchemas_proofs --------------------------
(***************************************************************************)
(* Proofs about EventSchemas, for every number of events, every set of     *)
(* schemas and every length of names, values and slots: the document never *)
(* holds more than it has the room for, the schemas of a regular Thing are *)
(* copied whole, and what follows from it for the texts of consumers and   *)
(* for the notifications.                                                  *)
(*                                                                         *)
(* The sums of bytes and the loop over the terms are recursive functions;  *)
(* what they compute for every length is proved by induction, in the form  *)
(* of a fact about sets of naturals.                                       *)
(***************************************************************************)
EXTENDS EventSchemas, WellFoundedInduction, TLAPS

(* The least element of a set of naturals, and induction as a fact about   *)
(* such sets.                                                              *)
LEMMA Least ==
  ASSUME NEW S, S \subseteq Nat, S # {}
  PROVE  \E x \in S : \A y \in S : x <= y
<1> DEFINE R == {ss \in Nat \X Nat : ss[1] < ss[2]}
<1>1. IsWellFoundedOn(R, Nat)
  BY NatLessThanWellFounded DEF OpToRel
<1>2. PICK x \in S : \A y \in S : <<y, x>> \notin R
  <2> HIDE DEF R
  <2> QED
    BY <1>1, WFMin
<1>3. ASSUME NEW y \in S, y < x PROVE FALSE
  <2>1. <<y, x>> \in Nat \X Nat
    OBVIOUS
  <2>2. <<y, x>> \in R
    BY <1>3, <2>1
  <2> QED
    BY <1>2, <2>2
<1> QED
  BY <1>3

LEMMA AllNaturals ==
  ASSUME NEW T, 0 \in T, \A n \in Nat : n \in T => n + 1 \in T
  PROVE  Nat \subseteq T
<1> DEFINE S == Nat \ T
<1> SUFFICES ASSUME S # {} PROVE FALSE
  OBVIOUS
<1>1. PICK x \in S : \A y \in S : x <= y
  BY Least
<1>2. x # 0 /\ x \in Nat
  BY <1>1
<1>3. x - 1 \in Nat /\ x - 1 \notin S
  BY <1>1, <1>2
<1> QED
  BY <1>2, <1>3

-------------------------------------------------------------------------------
(* The places of the tables: three for each event, in its order.           *)
LEMMA PlacesAre ==
  /\ Places \in Nat
  /\ \A p \in 1 .. Places : EventAt(p) \in Events /\ KindAt(p) \in KindSet
  /\ \A p, q \in 1 .. Places : EventAt(p) = EventAt(q) /\ KindAt(p) = KindAt(q) => p = q
  /\ \A p \in 1 .. Places : EventAt(p) = 1 <=> p \in 1 .. 3
  /\ \A e \in Events, k \in KindSet : \E p \in 1 .. Places : EventAt(p) = e /\ KindAt(p) = k
<1> USE SchemasAssumption DEF Places, EventAt, KindAt, Events, Kinds, KindSet
<1>1. Places \in Nat
  OBVIOUS
<1>2. \A p \in 1 .. Places : EventAt(p) \in Events
  OBVIOUS
<1>3. \A p \in 1 .. Places : KindAt(p) \in KindSet
  OBVIOUS
<1>4. \A p, q \in 1 .. Places : EventAt(p) = EventAt(q) /\ KindAt(p) = KindAt(q) => p = q
  OBVIOUS
<1>5. \A p \in 1 .. Places : EventAt(p) = 1 <=> p \in 1 .. 3
  OBVIOUS
<1>6. ASSUME NEW e \in Events, NEW k \in KindSet
      PROVE  \E p \in 1 .. Places : EventAt(p) = e /\ KindAt(p) = k
  <2>1. PICK j \in 1 .. 3 : Kinds[j] = k
    OBVIOUS
  <2>2. PICK p \in Int : p = 3 * (e - 1) + j
    OBVIOUS
  <2>3. p \in 1 .. Places /\ (p - 1) \div 3 = e - 1 /\ (p - 1) % 3 = j - 1
    BY <2>2
  <2>4. EventAt(p) = e /\ KindAt(p) = k
    BY <2>1, <2>3
  <2> QED
    BY <2>3, <2>4
<1> QED
  BY <1>1, <1>2, <1>3, <1>4, <1>5, <1>6

-------------------------------------------------------------------------------
(* The sum of the first values of a function, one after the other.         *)
IsSum(t, f, n) == t = [i \in 0 .. n |-> IF i = 0 THEN 0 ELSE t[i - 1] + f[i]]

LEMMA SumExists ==
  ASSUME NEW f, NEW m \in Nat
  PROVE  \E t : IsSum(t, f, m)
<1> USE DEF IsSum
<1> DEFINE T == {n \in Nat : \E t : IsSum(t, f, n)}
<1>1. \E t : IsSum(t, f, 0)
  <2>1. PICK t : t = [i \in 0 .. 0 |-> 0]
    OBVIOUS
  <2>2. IsSum(t, f, 0)
    BY <2>1
  <2> QED
    BY <2>2
<1>2. ASSUME NEW n \in Nat, NEW t, IsSum(t, f, n)  PROVE \E u : IsSum(u, f, n + 1)
  <2>1. PICK u : u = [i \in 0 .. n + 1 |-> IF i = n + 1 THEN t[n] + f[n + 1] ELSE t[i]]
    OBVIOUS
  <2>2. \A i \in 0 .. n : u[i] = t[i]
    BY <2>1
  <2>3. ASSUME NEW i \in 0 .. n + 1
        PROVE  u[i] = IF i = 0 THEN 0 ELSE u[i - 1] + f[i]
    <3>1. CASE i = n + 1
      <4>1. u[i] = t[n] + f[n + 1] /\ i # 0 /\ i - 1 = n /\ n \in 0 .. n
        BY <2>1, <3>1
      <4> QED
        BY <2>2, <3>1, <4>1
    <3>2. CASE i = 0
      <4>1. u[i] = t[i] /\ i \in 0 .. n
        BY <2>2, <3>2
      <4> QED
        BY <1>2, <3>2, <4>1
    <3>3. CASE i # n + 1 /\ i # 0
      <4>1. i \in 0 .. n /\ i - 1 \in 0 .. n
        BY <3>3
      <4>2. u[i] = t[i] /\ u[i - 1] = t[i - 1]
        BY <2>2, <4>1
      <4> QED
        BY <1>2, <3>3, <4>1, <4>2
    <3> QED
      BY <3>1, <3>2, <3>3
  <2>4. IsSum(u, f, n + 1)
    BY <2>1, <2>3
  <2> QED
    BY <2>4
<1> HIDE DEF IsSum
<1>3. 0 \in T /\ \A n \in Nat : n \in T => n + 1 \in T
  BY <1>1, <1>2
<1>4. m \in T
  <2> HIDE DEF T
  <2> QED
    BY <1>3, AllNaturals
<1> QED
  BY <1>4

LEMMA SumUnique ==
  ASSUME NEW f, NEW m \in Nat, NEW n \in Nat, NEW t, NEW u,
         IsSum(t, f, m), IsSum(u, f, n)
  PROVE  \A i \in 0 .. m : i <= n => t[i] = u[i]
<1> USE DEF IsSum
<1> DEFINE T == {i \in Nat : i <= m /\ i <= n => t[i] = u[i]}
<1>1. 0 \in T
  OBVIOUS
<1>2. ASSUME NEW i \in Nat, i \in T PROVE i + 1 \in T
  <2> SUFFICES ASSUME i + 1 <= m, i + 1 <= n PROVE t[i + 1] = u[i + 1]
    OBVIOUS
  <2>1. t[i] = u[i]
    BY <1>2
  <2>2. t[i + 1] = t[i] + f[i + 1] /\ u[i + 1] = u[i] + f[i + 1]
    OBVIOUS
  <2> QED
    BY <2>1, <2>2
<1>3. Nat \subseteq T
  <2> HIDE DEF T
  <2> QED
    BY <1>1, <1>2, AllNaturals
<1>4. ASSUME NEW i \in 0 .. m, i <= n PROVE t[i] = u[i]
  <2>1. i \in Nat
    OBVIOUS
  <2>2. i \in T
    <3> HIDE DEF T
    <3> QED
      BY <1>3, <2>1
  <2> QED
    BY <1>4, <2>2
<1> QED
  BY <1>4

LEMMA Sums ==
  ASSUME NEW f
  PROVE  /\ SumTo(f, 0) = 0
         /\ \A n \in Nat : SumTo(f, n + 1) = SumTo(f, n) + f[n + 1]
<1>1. ASSUME NEW n \in Nat
      PROVE  \E t : IsSum(t, f, n) /\ SumTo(f, n) = t[n]
  <2>1. PICK t : t = CHOOSE v : IsSum(v, f, n)
    OBVIOUS
  <2>2. \E v : IsSum(v, f, n)
    BY SumExists
  <2>3. IsSum(t, f, n)
    BY <2>1, <2>2
  <2>4. SumTo(f, n) = t[n]
    BY <2>1 DEF SumTo, IsSum
  <2> QED
    BY <2>3, <2>4
<1>2. SumTo(f, 0) = 0
  <2>1. PICK t : IsSum(t, f, 0) /\ SumTo(f, 0) = t[0]
    BY <1>1
  <2> QED
    BY <2>1 DEF IsSum
<1>3. ASSUME NEW n \in Nat PROVE SumTo(f, n + 1) = SumTo(f, n) + f[n + 1]
  <2>1. PICK t : IsSum(t, f, n) /\ SumTo(f, n) = t[n]
    BY <1>1
  <2>2. n + 1 \in Nat
    OBVIOUS
  <2>3. PICK u : IsSum(u, f, n + 1) /\ SumTo(f, n + 1) = u[n + 1]
    BY <1>1, <2>2
  <2>4. t[n] = u[n]
    <3>1. \A i \in 0 .. n : i <= n + 1 => t[i] = u[i]
      BY <2>1, <2>3, <2>2, SumUnique
    <3> QED
      BY <3>1
  <2>5. u[n + 1] = u[n] + f[n + 1]
    BY <2>3 DEF IsSum
  <2> QED
    BY <2>1, <2>3, <2>4, <2>5
<1> QED
  BY <1>2, <1>3

LEMMA SumsGrow ==
  ASSUME NEW f, NEW m \in Nat, \A i \in 1 .. m : f[i] \in Nat
  PROVE  /\ \A n \in 0 .. m : SumTo(f, n) \in Nat
         /\ \A n \in 1 .. m : /\ SumTo(f, n) = SumTo(f, n - 1) + f[n]
                              /\ SumTo(f, n - 1) <= SumTo(f, n)
<1> DEFINE T == {n \in Nat : n <= m => SumTo(f, n) \in Nat}
<1>1. 0 \in T
  BY Sums
<1>2. ASSUME NEW n \in Nat, n \in T PROVE n + 1 \in T
  <2> SUFFICES ASSUME n + 1 <= m PROVE SumTo(f, n + 1) \in Nat
    OBVIOUS
  <2>1. SumTo(f, n) \in Nat /\ f[n + 1] \in Nat
    BY <1>2
  <2> QED
    BY <2>1, Sums
<1>3. Nat \subseteq T
  <2> HIDE DEF T
  <2> QED
    BY <1>1, <1>2, AllNaturals
<1>4. \A n \in 0 .. m : SumTo(f, n) \in Nat
  BY <1>3
<1>5. ASSUME NEW n \in 1 .. m
      PROVE  /\ SumTo(f, n) = SumTo(f, n - 1) + f[n]
             /\ SumTo(f, n - 1) <= SumTo(f, n)
  <2>1. n - 1 \in Nat /\ n - 1 \in 0 .. m /\ (n - 1) + 1 = n
    OBVIOUS
  <2>2. SumTo(f, n) = SumTo(f, n - 1) + f[n]
    BY <2>1, Sums
  <2> QED
    BY <1>4, <2>1, <2>2
<1> QED
  BY <1>4, <1>5

-------------------------------------------------------------------------------
(* A schema is a sequence of terms, and a missing one is empty.            *)
Schemas == Offered \cup {None}

LEMMA SchemasAre ==
  /\ \A s \in Schemas : s \in Seq(Terms) /\ (s # None => s \in Messages)
  /\ \A s \in Seq(Terms) : Len(s) = 0 <=> s = None
<1>1. ASSUME NEW s \in Messages PROVE s \in Seq(Terms)
  <2>1. PICK n \in 0 .. MaxTerms : s \in [1 .. n -> Terms]
    BY DEF Messages
  <2>2. n \in Nat
    BY <2>1, NamesAssumption
  <2> QED
    BY <2>1, <2>2
<1>2. None \in Seq(Terms)
  BY DEF None
<1>3. \A s \in Seq(Terms) : Len(s) = 0 <=> s = None
  BY DEF None
<1> QED
  BY <1>1, <1>2, <1>3, SchemasAssumption DEF Schemas

LEMMA LengthsAre ==
  /\ \A t \in Terms : NameLen[t.name] \in Nat /\ ValueLen[t.value] \in Nat
  /\ \A s \in Seq(Terms) : Text(s) \in Nat
  /\ \A s \in Seq(Terms) : Bytes(s) \in Nat /\ Bytes(s) >= SlotSize
<1>1. ASSUME NEW t \in Terms
      PROVE  NameLen[t.name] \in Nat /\ ValueLen[t.value] \in Nat
  <2>1. t.name \in Names /\ t.value \in Values
    BY DEF Terms
  <2> QED
    BY <2>1, NamesAssumption
<1>2. ASSUME NEW s \in Seq(Terms) PROVE Text(s) \in Nat
  <2>1. PICK f : f = [i \in DOMAIN s |-> 25 + NameLen[s[i].name] + ValueLen[s[i].value]]
    OBVIOUS
  <2>2. Len(s) \in Nat /\ \A i \in 1 .. Len(s) : i \in DOMAIN s /\ s[i] \in Terms
    OBVIOUS
  <2>3. \A i \in 1 .. Len(s) : f[i] \in Nat
    BY <1>1, <2>1, <2>2
  <2>4. SumTo(f, Len(s)) \in Nat
    <3>1. \A n \in 0 .. Len(s) : SumTo(f, n) \in Nat
      BY <2>2, <2>3, SumsGrow
    <3> QED
      BY <2>2, <3>1
  <2> QED
    BY <2>1, <2>4 DEF Text
<1>3. ASSUME NEW s \in Seq(Terms) PROVE Bytes(s) \in Nat /\ Bytes(s) >= SlotSize
  <2>1. PICK f : f = [i \in DOMAIN s |-> 3 * SlotSize + NameLen[s[i].name] + 1]
    OBVIOUS
  <2>2. Len(s) \in Nat /\ \A i \in 1 .. Len(s) : i \in DOMAIN s /\ s[i] \in Terms
    OBVIOUS
  <2>3. SlotSize \in Nat
    BY SchemasAssumption
  <2>4. \A i \in 1 .. Len(s) : f[i] \in Nat
    BY <1>1, <2>1, <2>2, <2>3
  <2>5. SumTo(f, Len(s)) \in Nat
    <3>1. \A n \in 0 .. Len(s) : SumTo(f, n) \in Nat
      BY <2>2, <2>4, SumsGrow
    <3> QED
      BY <2>2, <3>1
  <2>6. Bytes(s) = SlotSize + SumTo(f, Len(s))
    BY <2>1 DEF Bytes
  <2> QED
    BY <2>3, <2>5, <2>6
<1> QED
  BY <1>1, <1>2, <1>3

Declares == declared \in [Events -> [KindSet -> Schemas]]

LEMMA SchemaTyped ==
  ASSUME Declares
  PROVE  \A p \in 1 .. Places : SchemaAt(p) \in Schemas /\ SchemaAt(p) \in Seq(Terms)
BY PlacesAre, SchemasAre DEF SchemaAt, Declares

LEMMA CapacityTyped ==
  ASSUME Declares
  PROVE  Capacity \in Nat
<1>1. PICK f : f = [p \in 1 .. Places |-> Text(SchemaAt(p))]
  OBVIOUS
<1>2. Places \in Nat /\ \A p \in 1 .. Places : f[p] \in Nat
  BY <1>1, PlacesAre, SchemaTyped, LengthsAre
<1>3. PICK n : n = SumTo(f, Places)
  OBVIOUS
<1>4. n \in Nat
  BY <1>2, <1>3, SumsGrow
<1>5. Capacity = IF n = 0 THEN 20 ELSE Pad(2 * n)
  BY <1>1, <1>3 DEF Capacity
<1> QED
  BY <1>4, <1>5 DEF Pad

(* What the first p places need, one place after the other.                *)
LEMMA NeedsAre ==
  ASSUME Declares
  PROVE  /\ Need(0) = 0
         /\ \A p \in 0 .. Places : Need(p) \in Nat
         /\ \A p \in 1 .. Places : /\ Need(p) = Need(p - 1) + Cost(p)
                                   /\ Need(p - 1) <= Need(p)
<1>1. PICK f : f = [p \in 1 .. Places |-> Cost(p)]
  OBVIOUS
<1>2. \A p : Need(p) = SumTo(f, p)
  BY <1>1 DEF Need
<1>3. ASSUME NEW p \in 1 .. Places PROVE f[p] \in Nat /\ f[p] = Cost(p)
  <2>1. SlotSize \in Nat
    BY SchemasAssumption
  <2>2. Bytes(SchemaAt(p)) \in Nat
    BY SchemaTyped, LengthsAre
  <2> QED
    BY <1>1, <2>1, <2>2 DEF Cost
<1>4. Places \in Nat
  BY PlacesAre
<1>5. /\ \A p \in 0 .. Places : SumTo(f, p) \in Nat
      /\ \A p \in 1 .. Places : /\ SumTo(f, p) = SumTo(f, p - 1) + f[p]
                                /\ SumTo(f, p - 1) <= SumTo(f, p)
  BY <1>3, <1>4, SumsGrow
<1>6. SumTo(f, 0) = 0
  BY Sums
<1> QED
  BY <1>2, <1>3, <1>5, <1>6

-------------------------------------------------------------------------------
(* The loop over the terms of a schema.                                    *)
IsStore(t, u, terms, n) ==
  t = [i \in 0 .. n |-> IF i = 0 THEN [arr |-> << >>, used |-> u]
                       ELSE StoreTerm(t[i - 1], terms[i])]

LEMMA StoreExists ==
  ASSUME NEW u, NEW terms, NEW m \in Nat
  PROVE  \E t : IsStore(t, u, terms, m)
<1> USE DEF IsStore
<1> DEFINE T == {n \in Nat : \E t : IsStore(t, u, terms, n)}
<1>1. \E t : IsStore(t, u, terms, 0)
  <2>1. PICK t : t = [i \in 0 .. 0 |-> [arr |-> << >>, used |-> u]]
    OBVIOUS
  <2>2. IsStore(t, u, terms, 0)
    BY <2>1
  <2> QED
    BY <2>2
<1>2. ASSUME NEW n \in Nat, NEW t, IsStore(t, u, terms, n)
      PROVE  \E v : IsStore(v, u, terms, n + 1)
  <2>1. PICK v : v = [i \in 0 .. n + 1 |->
                        IF i = n + 1 THEN StoreTerm(t[n], terms[n + 1]) ELSE t[i]]
    OBVIOUS
  <2>2. \A i \in 0 .. n : v[i] = t[i]
    BY <2>1
  <2>3. ASSUME NEW i \in 0 .. n + 1
        PROVE  v[i] = IF i = 0 THEN [arr |-> << >>, used |-> u]
                      ELSE StoreTerm(v[i - 1], terms[i])
    <3>1. CASE i = n + 1
      <4>1. v[i] = StoreTerm(t[n], terms[n + 1]) /\ i # 0 /\ i - 1 = n /\ n \in 0 .. n
        BY <2>1, <3>1
      <4> QED
        BY <2>2, <3>1, <4>1
    <3>2. CASE i = 0
      <4>1. v[i] = t[i] /\ i \in 0 .. n
        BY <2>2, <3>2
      <4> QED
        BY <1>2, <3>2, <4>1
    <3>3. CASE i # n + 1 /\ i # 0
      <4>1. i \in 0 .. n /\ i - 1 \in 0 .. n
        BY <3>3
      <4>2. v[i] = t[i] /\ v[i - 1] = t[i - 1]
        BY <2>2, <4>1
      <4> QED
        BY <1>2, <3>3, <4>1, <4>2
    <3> QED
      BY <3>1, <3>2, <3>3
  <2>4. IsStore(v, u, terms, n + 1)
    BY <2>1, <2>3
  <2> QED
    BY <2>4
<1> HIDE DEF IsStore
<1>3. 0 \in T /\ \A n \in Nat : n \in T => n + 1 \in T
  BY <1>1, <1>2
<1>4. m \in T
  <2> HIDE DEF T
  <2> QED
    BY <1>3, AllNaturals
<1> QED
  BY <1>4

Turns(t, u, terms) ==
  /\ t[0] = [arr |-> << >>, used |-> u]
  /\ \A i \in 1 .. Len(terms) : t[i] = StoreTerm(t[i - 1], terms[i])
  /\ StoreTerms(u, terms) = t[Len(terms)]

LEMMA StoreAfter ==
  ASSUME NEW u, NEW terms, Len(terms) \in Nat
  PROVE  \E t : Turns(t, u, terms)
<1>1. PICK n \in Nat : n = Len(terms)
  OBVIOUS
<1>2. PICK t : t = CHOOSE v : IsStore(v, u, terms, n)
  OBVIOUS
<1>3. \E v : IsStore(v, u, terms, n)
  BY StoreExists
<1>4. IsStore(t, u, terms, n)
  BY <1>2, <1>3
<1>5. StoreTerms(u, terms) = t[n]
  BY <1>1, <1>2 DEF StoreTerms, IsStore
<1>6. t[0] = [arr |-> << >>, used |-> u]
  BY <1>4 DEF IsStore
<1>7. ASSUME NEW i \in 1 .. n PROVE t[i] = StoreTerm(t[i - 1], terms[i])
  BY <1>4 DEF IsStore
<1> QED
  BY <1>1, <1>5, <1>6, <1>7 DEF Turns

(* Whatever a turn stores, it takes no byte that is not left.              *)
Stores == [arr : Seq(Stored), used : 0 .. Capacity]

LEMMA StoreTermTyped ==
  ASSUME Declares, NEW S \in Stores, NEW t \in Terms \cup {Junk}
  PROVE  StoreTerm(S, t) \in Stores
<1>1. Capacity \in Nat
  BY CapacityTyped
<1>2. SlotSize \in Nat
  BY SchemasAssumption
<1>3. t.name \in Names \cup {NoName} /\ t.value \in Values \cup {NoValue}
  BY DEF Terms, Junk
<1>4. PICK length : length = IF t.name = NoName THEN 0 ELSE NameLen[t.name] + 1
  OBVIOUS
<1>5. length \in Nat
  BY <1>3, <1>4, NamesAssumption
<1>6. S.arr \in Seq(Stored) /\ S.used \in 0 .. Capacity
  BY DEF Stores
<1>7. \A r \in Stored : Append(S.arr, r) \in Seq(Stored)
  BY <1>6
<1>8. ASSUME NEW n \in {t.name, NoName}, NEW v \in {t.value, NoValue}
      PROVE  [name |-> n, value |-> v] \in Stored
  BY <1>3 DEF Stored
<1> DEFINE H1 == Fits(S.used, SlotSize)
           H2 == Fits(S.used, 2 * SlotSize)
           H3 == Fits(S.used, 2 * SlotSize + length)
           u  == S.used + 2 * SlotSize + (IF H3 THEN length ELSE 0)
           H4 == H2 /\ Fits(u, SlotSize)
           name  == IF H2 /\ H3 THEN t.name ELSE NoName
           value == IF H4 THEN t.value ELSE NoValue
           next  == IF ~H2 THEN S.used + SlotSize ELSE IF H4 THEN u + SlotSize ELSE u
<1>9. StoreTerm(S, t) = IF ~H1 THEN S
                         ELSE [arr |-> Append(S.arr, [name |-> name, value |-> value]),
                               used |-> next]
  BY <1>4 DEF StoreTerm
<1>10. Append(S.arr, [name |-> name, value |-> value]) \in Seq(Stored)
  <2>1. name \in {t.name, NoName} /\ value \in {t.value, NoValue}
    OBVIOUS
  <2> HIDE DEF name, value
  <2> QED
    BY <1>7, <1>8, <2>1
<1>11. H1 => next \in 0 .. Capacity
  <2>1. PICK a \in Nat, b \in Nat, c \in Nat : a = S.used /\ b = SlotSize /\ c = Capacity
    BY <1>1, <1>2, <1>6
  <2>2. CASE ~H2
    BY <2>1, <2>2 DEF Fits
  <2>3. CASE H2 /\ ~H3
    <3>1. u = a + 2 * b /\ a + 2 * b <= c
      BY <2>1, <2>3 DEF Fits
    <3>2. next = IF a + 2 * b + b <= c THEN a + 2 * b + b ELSE a + 2 * b
      BY <2>1, <2>3, <3>1 DEF Fits
    <3> HIDE DEF H1, H2, H3, u, H4, name, value, next
    <3> QED
      BY <2>1, <3>1, <3>2
  <2>4. CASE H2 /\ H3
    <3>1. u = a + 2 * b + length /\ a + (2 * b + length) <= c
      BY <2>1, <2>4 DEF Fits
    <3>2. next = IF a + 2 * b + length + b <= c THEN a + 2 * b + length + b
                 ELSE a + 2 * b + length
      BY <2>1, <2>4, <3>1 DEF Fits
    <3> HIDE DEF H1, H2, H3, u, H4, name, value, next
    <3> QED
      BY <1>5, <2>1, <3>1, <3>2
  <2> QED
    BY <2>2, <2>3, <2>4
<1> HIDE DEF H1, H2, H3, u, H4, name, value, next
<1> QED
  BY <1>9, <1>10, <1>11 DEF Stores

Texts == UNION {[1 .. n -> Terms \cup {Junk}] : n \in Nat}

LEMMA StoreTermsTyped ==
  ASSUME Declares, NEW u \in 0 .. Capacity, NEW terms \in Texts
  PROVE  StoreTerms(u, terms) \in Stores
<1>1. PICK n \in Nat : terms \in [1 .. n -> Terms \cup {Junk}]
  BY DEF Texts
<1>2. Len(terms) = n
  BY <1>1
<1>3. PICK t : /\ t[0] = [arr |-> << >>, used |-> u]
               /\ \A i \in 1 .. n : t[i] = StoreTerm(t[i - 1], terms[i])
               /\ StoreTerms(u, terms) = t[n]
  <2>1. Len(terms) \in Nat
    BY <1>2
  <2>2. \E t : Turns(t, u, terms)
    BY <2>1, StoreAfter
  <2> QED
    BY <1>2, <2>2 DEF Turns
<1> DEFINE T == {i \in Nat : i <= n => t[i] \in Stores}
<1>4. 0 \in T
  <2>1. << >> \in Seq(Stored)
    OBVIOUS
  <2>2. t[0] \in Stores
    BY <1>3, <2>1 DEF Stores
  <2> QED
    BY <2>2
<1>5. ASSUME NEW i \in Nat, i \in T PROVE i + 1 \in T
  <2> SUFFICES ASSUME i + 1 <= n PROVE t[i + 1] \in Stores
    OBVIOUS
  <2>1. i + 1 \in 1 .. n /\ (i + 1) - 1 = i /\ t[i] \in Stores
    BY <1>5
  <2>2. terms[i + 1] \in Terms \cup {Junk}
    BY <1>1, <2>1
  <2>3. t[i + 1] = StoreTerm(t[i], terms[i + 1])
    BY <1>3, <2>1
  <2> QED
    BY <2>1, <2>2, <2>3, StoreTermTyped
<1>6. n \in T
  <2> HIDE DEF T
  <2> QED
    BY <1>4, <1>5, AllNaturals
<1> QED
  BY <1>3, <1>6

(* If the room is left, a turn stores its term.                            *)
LEMMA StoreTermWhole ==
  ASSUME Declares, NEW S \in Stores, NEW t \in Terms,
         S.used + 3 * SlotSize + NameLen[t.name] + 1 <= Capacity
  PROVE  StoreTerm(S, t) = [arr |-> Append(S.arr, t),
                            used |-> S.used + 3 * SlotSize + NameLen[t.name] + 1]
<1>1. Capacity \in Nat /\ SlotSize \in Nat /\ S.used \in Nat
  BY CapacityTyped, SchemasAssumption DEF Stores
<1>2. t.name \in Names /\ t.name # NoName /\ t = [name |-> t.name, value |-> t.value]
  BY NamesAssumption DEF Terms
<1>3. PICK length \in Nat : length = NameLen[t.name] + 1 /\ NameLen[t.name] \in Nat
  BY <1>2, NamesAssumption
<1>4. /\ Fits(S.used, SlotSize) /\ Fits(S.used, 2 * SlotSize)
      /\ Fits(S.used, 2 * SlotSize + length)
      /\ Fits(S.used + 2 * SlotSize + length, SlotSize)
  BY <1>1, <1>3 DEF Fits
<1>5. StoreTerm(S, t) = [arr  |-> Append(S.arr, [name |-> t.name, value |-> t.value]),
                         used |-> S.used + 2 * SlotSize + length + SlotSize]
  BY <1>2, <1>3, <1>4 DEF StoreTerm
<1>6. S.used + 2 * SlotSize + length + SlotSize = S.used + 3 * SlotSize + NameLen[t.name] + 1
  BY <1>1, <1>3
<1> QED
  BY <1>2, <1>5, <1>6

LEMMA StoreTermsWhole ==
  ASSUME Declares, NEW s \in Seq(Terms), NEW u \in Nat, u + Bytes(s) <= Capacity
  PROVE  StoreTerms(u + SlotSize, s) = [arr |-> s, used |-> u + Bytes(s)]
<1>1. Capacity \in Nat /\ SlotSize \in Nat
  BY CapacityTyped, SchemasAssumption
<1>2. PICK n \in Nat : n = Len(s)
  OBVIOUS
<1>3. s \in [1 .. n -> Terms]
  BY <1>2
<1>4. PICK f : f = [i \in DOMAIN s |-> 3 * SlotSize + NameLen[s[i].name] + 1]
  OBVIOUS
<1>5. ASSUME NEW i \in 1 .. n
      PROVE  f[i] = 3 * SlotSize + NameLen[s[i].name] + 1 /\ f[i] \in Nat
  <2>1. s[i] \in Terms /\ i \in DOMAIN s
    BY <1>3
  <2>2. NameLen[s[i].name] \in Nat
    BY <2>1, LengthsAre
  <2> QED
    BY <1>1, <1>4, <2>1, <2>2
<1>6. /\ \A i \in 0 .. n : SumTo(f, i) \in Nat
      /\ \A i \in 1 .. n : /\ SumTo(f, i) = SumTo(f, i - 1) + f[i]
                           /\ SumTo(f, i - 1) <= SumTo(f, i)
  BY <1>5, SumsGrow
<1>7. Bytes(s) = SlotSize + SumTo(f, n)
  BY <1>2, <1>4 DEF Bytes
<1>8. PICK t : /\ t[0] = [arr |-> << >>, used |-> u + SlotSize]
               /\ \A i \in 1 .. n : t[i] = StoreTerm(t[i - 1], s[i])
               /\ StoreTerms(u + SlotSize, s) = t[n]
  <2>1. Len(s) \in Nat
    OBVIOUS
  <2>2. \E t : Turns(t, u + SlotSize, s)
    BY <2>1, StoreAfter
  <2> QED
    BY <1>2, <2>2 DEF Turns
<1> DEFINE After(i) == [arr |-> SubSeq(s, 1, i), used |-> u + SlotSize + SumTo(f, i)]
           T == {i \in Nat : i <= n => t[i] = After(i)}
<1>9. 0 \in T
  <2>1. SumTo(f, 0) = 0 /\ SubSeq(s, 1, 0) = << >>
    BY Sums
  <2> QED
    BY <1>1, <1>8, <2>1
<1>10. \A i \in Nat : i <= n => SumTo(f, i) <= SumTo(f, n)
  <2> DEFINE B == {j \in Nat : j <= n => SumTo(f, n - j) <= SumTo(f, n)}
  <2>1. 0 \in B
    BY <1>6
  <2>2. ASSUME NEW j \in Nat, j \in B PROVE j + 1 \in B
    <3> SUFFICES ASSUME j + 1 <= n PROVE SumTo(f, n - (j + 1)) <= SumTo(f, n)
      OBVIOUS
    <3>1. n - j \in 1 .. n /\ (n - j) - 1 = n - (j + 1) /\ n - (j + 1) \in 0 .. n
          /\ n \in 0 .. n /\ n - j \in 0 .. n
      OBVIOUS
    <3>2. SumTo(f, n - (j + 1)) <= SumTo(f, n - j)
      BY <1>6, <3>1
    <3>3. SumTo(f, n - j) <= SumTo(f, n)
      BY <2>2
    <3> QED
      BY <1>6, <3>1, <3>2, <3>3
  <2>3. Nat \subseteq B
    <3> HIDE DEF B
    <3> QED
      BY <2>1, <2>2, AllNaturals
  <2>4. ASSUME NEW i \in Nat, i <= n PROVE SumTo(f, i) <= SumTo(f, n)
    <3>1. n - i \in Nat /\ n - (n - i) = i
      BY <2>4
    <3>2. n - i \in B
      <4> HIDE DEF B
      <4> QED
        BY <2>3, <3>1
    <3> QED
      BY <3>1, <3>2, <2>4
  <2> QED
    BY <2>4
<1>11. ASSUME NEW i \in Nat, i \in T PROVE i + 1 \in T
  <2> SUFFICES ASSUME i + 1 <= n PROVE t[i + 1] = After(i + 1)
    OBVIOUS
  <2>1. i + 1 \in 1 .. n /\ (i + 1) - 1 = i /\ i \in 0 .. n /\ n \in 0 .. n
        /\ t[i] = After(i)
    BY <1>11
  <2>2. s[i + 1] \in Terms
    BY <1>3, <2>1
  <2>3. t[i + 1] = StoreTerm(t[i], s[i + 1])
    BY <1>8, <2>1
  <2>4. PICK w \in Nat, x \in Nat, y \in Nat, z \in Nat :
          /\ w = NameLen[s[i + 1].name] /\ x = SumTo(f, i)
          /\ y = SumTo(f, i + 1) /\ z = SumTo(f, n)
    <3>1. SumTo(f, i) \in Nat /\ SumTo(f, n) \in Nat /\ SumTo(f, i + 1) \in Nat
      BY <1>6, <2>1
    <3>2. NameLen[s[i + 1].name] \in Nat
      BY <2>2, LengthsAre
    <3> QED
      BY <3>1, <3>2
  <2>5. w \in Nat /\ x \in Nat /\ y \in Nat /\ z \in Nat /\ u \in Nat
    OBVIOUS
  <2>6. y = x + (3 * SlotSize + w + 1)
    <3>1. SumTo(f, i + 1) = SumTo(f, i) + f[i + 1]
      BY <1>6, <2>1
    <3>2. f[i + 1] = 3 * SlotSize + NameLen[s[i + 1].name] + 1
      BY <1>5, <2>1
    <3> QED
      BY ONLY <2>4, <3>1, <3>2
  <2>7. y <= z
    <3>1. SumTo(f, i + 1) <= SumTo(f, n)
      BY <1>10, <2>1
    <3> QED
      BY ONLY <2>4, <3>1
  <2>8. PICK S : S = t[i]
    OBVIOUS
  <2>9. /\ S.arr = SubSeq(s, 1, i)
        /\ S = [arr |-> S.arr, used |-> S.used]
    BY <2>1, <2>8
  <2>10. S.used = u + SlotSize + x
    BY <2>1, <2>4, <2>8
  <2>11. S.arr \in Seq(Terms) /\ S.arr \in Seq(Stored) /\ Append(S.arr, s[i + 1]) = SubSeq(s, 1, i + 1)
    <3>1. Terms \subseteq Stored
      BY DEF Terms, Stored
    <3>2. S.arr \in Seq(Terms)
      BY <2>1, <2>9, <1>2
    <3>3. S.arr \in Seq(Stored)
      BY <3>1, <3>2
    <3>4. Append(S.arr, s[i + 1]) = SubSeq(s, 1, i + 1)
      BY <2>1, <2>9, <1>2
    <3> QED
      BY <3>2, <3>3, <3>4
  <2> HIDE DEF After, T
  <2>12. u + (SlotSize + z) <= Capacity
    BY ONLY <1>7, <2>4, u + Bytes(s) <= Capacity
  <2>13. S.used + 3 * SlotSize + NameLen[s[i + 1].name] + 1 <= Capacity
    <3>1. S.used + 3 * SlotSize + w + 1 <= Capacity
      BY ONLY <1>1, <2>5, <2>10, <2>6, <2>7, <2>12
    <3> QED
      BY ONLY <2>4, <3>1
  <2>14. S.used \in 0 .. Capacity
    BY ONLY <1>1, <2>5, <2>10, <2>6, <2>7, <2>12
  <2>15. S \in Stores
    BY <2>9, <2>11, <2>14 DEF Stores
  <2>16. StoreTerm(S, s[i + 1]) = [arr |-> Append(S.arr, s[i + 1]),
                                   used |-> S.used + 3 * SlotSize + NameLen[s[i + 1].name] + 1]
    BY <2>2, <2>13, <2>15, StoreTermWhole
  <2>17. S.used + 3 * SlotSize + NameLen[s[i + 1].name] + 1 = u + SlotSize + SumTo(f, i + 1)
    <3>1. S.used + 3 * SlotSize + w + 1 = u + SlotSize + y
      BY ONLY <1>1, <2>5, <2>10, <2>6
    <3> QED
      BY ONLY <2>4, <3>1
  <2> QED
    BY <2>3, <2>8, <2>11, <2>16, <2>17 DEF After
<1>12. n \in T
  <2> HIDE DEF T
  <2> QED
    BY <1>9, <1>11, AllNaturals
<1>13. SubSeq(s, 1, n) = s /\ SumTo(f, n) \in Nat
  BY <1>2, <1>6
<1>14. t[n] = After(n)
  BY <1>12
<1>15. u + SlotSize + SumTo(f, n) = u + Bytes(s)
  BY <1>1, <1>7, <1>13
<1> QED
  BY <1>8, <1>13, <1>14, <1>15

-------------------------------------------------------------------------------
(* The object of an event and the array of one kind.                       *)
Objects == [made : BOOLEAN, of : [KindSet -> Seq(Stored)]]

LEMMA StoreSchemaTyped ==
  ASSUME Declares, NEW E \in Objects, NEW u \in 0 .. Capacity, NEW k \in KindSet,
         NEW terms \in Texts, NEW R, R = StoreSchema(E, u, k, terms)
  PROVE  /\ R.event \in Objects /\ R.used \in 0 .. Capacity
         /\ \A j \in KindSet : j # k => R.event.of[j] = E.of[j]
<1>1. Capacity \in Nat /\ SlotSize \in Nat
  BY CapacityTyped, SchemasAssumption
<1>2. PICK made \in BOOLEAN : made <=> E.made \/ Fits(u, SlotSize)
  OBVIOUS
<1>3. PICK v : v = IF E.made \/ ~made THEN u ELSE u + SlotSize
  OBVIOUS
<1>4. v \in 0 .. Capacity
  BY <1>1, <1>2, <1>3 DEF Fits
<1>5. PICK S : S = StoreTerms(v + SlotSize, terms)
  OBVIOUS
<1>6. CASE made /\ Fits(v, SlotSize)
  <2>1. v + SlotSize \in 0 .. Capacity
    BY <1>1, <1>4, <1>6 DEF Fits
  <2>2. S.arr \in Seq(Stored) /\ S.used \in 0 .. Capacity
    BY <1>5, <2>1, StoreTermsTyped DEF Stores
  <2>3. R = [event |-> [made |-> TRUE, of |-> [E.of EXCEPT ![k] = S.arr]], used |-> S.used]
    BY <1>2, <1>3, <1>5, <1>6 DEF StoreSchema
  <2>4. E.of \in [KindSet -> Seq(Stored)]
    BY DEF Objects
  <2>5. [E.of EXCEPT ![k] = S.arr] \in [KindSet -> Seq(Stored)]
    BY <2>2, <2>4
  <2>6. R.event \in Objects
    BY <2>3, <2>5 DEF Objects
  <2> QED
    BY <2>2, <2>3, <2>4, <2>6
<1>7. CASE ~(made /\ Fits(v, SlotSize))
  <2>1. R.event = [E EXCEPT !.made = E.made \/ Fits(u, SlotSize)] /\ R.used = v
    BY <1>2, <1>3, <1>5, <1>7 DEF StoreSchema
  <2>2. R.event = [E EXCEPT !.made = made]
    BY <1>2, <2>1
  <2>3. R.event \in Objects /\ R.event.of = E.of
    BY <2>2 DEF Objects
  <2> QED
    BY <1>4, <2>1, <2>3
<1> QED
  BY <1>6, <1>7

LEMMA StoreSchemaWhole ==
  ASSUME Declares, NEW E \in Objects, NEW u \in Nat, NEW k \in KindSet,
         NEW s \in Seq(Terms), NEW R, R = StoreSchema(E, u, k, s), NEW d,
         d = IF E.made THEN 0 ELSE SlotSize,
         u + d + Bytes(s) <= Capacity
  PROVE  R = [event |-> [made |-> TRUE, of |-> [E.of EXCEPT ![k] = s]],
              used |-> u + d + Bytes(s)]
<1>1. Capacity \in Nat /\ SlotSize \in Nat /\ Bytes(s) \in Nat /\ Bytes(s) >= SlotSize
  BY CapacityTyped, SchemasAssumption, LengthsAre
<1>2. E.made \/ Fits(u, SlotSize)
  BY <1>1 DEF Fits
<1>3. PICK v \in Nat : v = u + d
  BY <1>1
<1>4. v = IF E.made THEN u ELSE u + SlotSize
  BY <1>1, <1>3
<1>5. Fits(v, SlotSize) /\ v + Bytes(s) <= Capacity
  BY <1>1, <1>3 DEF Fits
<1>6. StoreTerms(v + SlotSize, s) = [arr |-> s, used |-> v + Bytes(s)]
  BY <1>5, StoreTermsWhole
<1>7. PICK S : S = StoreTerms(v + SlotSize, s)
  OBVIOUS
<1>8. R = [event |-> [made |-> TRUE, of |-> [E.of EXCEPT ![k] = S.arr]], used |-> S.used]
  BY <1>2, <1>4, <1>5, <1>7 DEF StoreSchema
<1>9. S.arr = s /\ S.used = v + Bytes(s)
  BY <1>6, <1>7
<1>10. v + Bytes(s) = u + d + Bytes(s)
  BY <1>3
<1> QED
  BY <1>8, <1>9, <1>10

-------------------------------------------------------------------------------
(* The invariant.  What setup() has not reached is empty.  As long as the  *)
(* schemas are regular the document holds what they need, an event has its *)
(* object once one of its schemas is declared, and schema_size is the      *)
(* length of the last schema of the first event that was copied.           *)
CopiedTo(n) ==
  /\ \A p \in n + 1 .. Places : es[EventAt(p)].of[KindAt(p)] = << >>
  /\ \A p \in 1 .. n : Regular(p) => es[EventAt(p)].of[KindAt(p)] = SchemaAt(p)
  /\ Regular(n) => used = Need(n)
  /\ Regular(n) =>
       \A p \in n + 1 .. Places :
         es[EventAt(p)].made <=> \E q \in 1 .. n : EventAt(q) = EventAt(p) /\ SchemaAt(q) # None
  /\ \A q \in 1 .. 3 :
       /\ q <= n /\ SchemaAt(q) # None
       /\ \A r \in q + 1 .. 3 : r <= n => SchemaAt(r) = None
       => size = Len(SchemaAt(q))

IInv == TypeOK /\ \E n \in 0 .. Places : at = n + 1 /\ CopiedTo(n)

LEMMA Typed ==
  ASSUME TypeOK
  PROVE  /\ Declares /\ Capacity \in Nat /\ used \in 0 .. Capacity
         /\ \A e \in Events : es[e] \in Objects
         /\ at \in Nat /\ size \in Nat
<1>1. Declares
  BY DEF TypeOK, Declares, Schemas
<1>2. at \in Nat
  BY PlacesAre DEF TypeOK
<1> QED
  BY <1>1, <1>2, CapacityTyped DEF TypeOK, Objects

(* The operators that only speak of the schemas do not change.             *)
LEMMA Steady ==
  ASSUME declared' = declared
  PROVE  /\ Capacity' = Capacity
         /\ \A p : SchemaAt(p)' = SchemaAt(p)
         /\ \A p : Need(p)' = Need(p)
         /\ \A p : Regular(p)' <=> Regular(p)
         /\ Declares' <=> Declares
<1>1. ASSUME NEW p PROVE SchemaAt(p)' = SchemaAt(p)
  BY DEF SchemaAt
<1>2. Capacity' = Capacity
  BY DEF Capacity, SchemaAt
<1>3. ASSUME NEW p PROVE Opens(p)' <=> Opens(p)
  BY <1>1 DEF Opens
<1>4. ASSUME NEW p PROVE Cost(p)' = Cost(p)
  BY <1>1, <1>3 DEF Cost
<1>5. ASSUME NEW p PROVE Need(p)' = Need(p)
  <2>1. [q \in 1 .. Places |-> Cost(q)]' = [q \in 1 .. Places |-> Cost(q)]
    BY <1>4
  <2> QED
    BY <2>1 DEF Need
<1>6. LastSize' = LastSize
  BY DEF LastSize, SchemaAt
<1>7. ASSUME NEW p PROVE Even(p)' <=> Even(p)
  BY <1>1, <1>6 DEF Even
<1>8. ASSUME NEW p PROVE Regular(p)' <=> Regular(p)
  BY <1>2, <1>5, <1>7 DEF Regular
<1>9. Declares' <=> Declares
  BY DEF Declares
<1> QED
  BY <1>1, <1>2, <1>5, <1>8, <1>9

LEMMA RegularBefore ==
  ASSUME Declares, NEW n \in 0 .. Places, n + 1 <= Places, Regular(n + 1)
  PROVE  Regular(n)
<1>1. n \in Nat /\ n \in 0 .. Places /\ n + 1 \in 0 .. Places /\ n + 1 \in 1 .. Places
      /\ (n + 1) - 1 = n
  BY PlacesAre
<1>2. Need(n) <= Need(n + 1) /\ Need(n) \in Nat /\ Need(n + 1) \in Nat
  BY <1>1, NeedsAre
<1>3. Capacity \in Nat /\ Need(n + 1) <= Capacity
  BY CapacityTyped DEF Regular
<1>4. Need(n) <= Capacity
  BY <1>2, <1>3
<1>5. \A q \in 1 .. n : q \in 1 .. n + 1
  BY <1>1
<1> QED
  BY <1>4, <1>5 DEF Regular

-------------------------------------------------------------------------------
(* setup(), one place after the other.                                     *)
LEMMA CopyTyped ==
  ASSUME TypeOK, Copy
  PROVE  TypeOK'
<1> USE DEF TypeOK
<1>1. /\ Declares /\ Capacity \in Nat /\ at \in Nat /\ at \in 1 .. Places
      /\ used \in 0 .. Capacity
      /\ declared' = declared /\ chans' = chans /\ at' = at + 1
  BY Typed, PlacesAre DEF Copy, Ready
<1>2. EventAt(at) \in Events /\ KindAt(at) \in KindSet /\ SchemaAt(at) \in Seq(Terms)
  BY <1>1, PlacesAre, SchemaTyped
<1>3. at' \in 1 .. Places + 1
  BY <1>1, PlacesAre
<1>4. Capacity' = Capacity
  BY <1>1, Steady
<1>5. CASE SchemaAt(at) = None /\ UNCHANGED <<es, used, size>>
  BY <1>1, <1>3, <1>4, <1>5
<1>6. CASE SchemaAt(at) # None /\ ~(UNCHANGED <<es, used, size>> /\ SchemaAt(at) = None)
  <2>1. SizeAt(at) \in Nat
    BY <1>2 DEF SizeAt
  <2>2. PICK terms, R :
          /\ terms \in Read(SchemaAt(at), SizeAt(at))
          /\ R = StoreSchema(es[EventAt(at)], used, KindAt(at), terms)
          /\ es' = [es EXCEPT ![EventAt(at)] = R.event]
          /\ used' = R.used /\ size' = SizeAt(at)
    BY <1>6 DEF Copy
  <2>3. terms \in Texts
    BY <2>1, <2>2 DEF Texts, Read
  <2>4. es[EventAt(at)] \in Objects
    BY <1>2, Typed
  <2>5. R.event \in Objects /\ R.used \in 0 .. Capacity
    BY <1>1, <1>2, <2>2, <2>3, <2>4, StoreSchemaTyped
  <2>6. es' \in [Events -> Objects]
    BY <2>2, <2>5 DEF Objects
  <2> QED
    BY <1>1, <1>3, <1>4, <2>1, <2>2, <2>5, <2>6 DEF Objects
<1> QED
  BY <1>5, <1>6 DEF Copy

(* A schema that is regular is read whole: the size is its own.            *)
LEMMA ReadWhole ==
  ASSUME Declares, NEW n \in 0 .. Places, n + 1 <= Places, Regular(n + 1), CopiedTo(n),
         SchemaAt(n + 1) # None, NEW terms \in Read(SchemaAt(n + 1), SizeAt(n + 1))
  PROVE  terms = SchemaAt(n + 1)
<1>1. /\ n \in Nat /\ n + 1 \in 1 .. Places /\ SchemaAt(n + 1) \in Seq(Terms)
      /\ EventAt(n + 1) = 1 <=> n + 1 \in 1 .. 3
      /\ \A q \in 1 .. 3 : q \in 1 .. Places
  BY PlacesAre, SchemaTyped, SchemasAssumption DEF Places
<1>2. SizeAt(n + 1) = Len(SchemaAt(n + 1))
  <2>1. CASE EventAt(n + 1) = 1
    BY <2>1 DEF SizeAt
  <2>2. CASE EventAt(n + 1) # 1
    <3>1. n >= 3
      BY <1>1, <2>2
    <3>2. Len(SchemaAt(n + 1)) = LastSize
      BY <1>1, <2>2 DEF Regular, Even
    <3>3. SizeAt(n + 1) = size
      BY <2>2 DEF SizeAt
    <3>4. PICK D : D = {q \in 1 .. 3 : SchemaAt(q) # None}
      OBVIOUS
    <3>5. LastSize = IF D = {} THEN 0
                     ELSE Len(SchemaAt(CHOOSE q \in D : \A r \in D : r <= q))
      BY <3>4 DEF LastSize
    <3>6. CASE D = {}
      BY <1>1, <3>2, <3>5, <3>6, SchemasAre
    <3>7. CASE D # {}
      <4>1. \E q \in D : \A r \in D : r <= q
        <5>1. D \subseteq 1 .. 3
          BY <3>4
        <5>2. CASE 3 \in D
          BY <5>1, <5>2
        <5>3. CASE 3 \notin D /\ 2 \in D
          BY <5>1, <5>3
        <5>4. CASE 3 \notin D /\ 2 \notin D
          <6>1. \A r \in D : r = 1
            BY <5>1, <5>4
          <6> QED
            BY <3>7, <6>1
        <5> QED
          BY <5>2, <5>3, <5>4
      <4>2. PICK q : q = CHOOSE x \in D : \A r \in D : r <= x
        OBVIOUS
      <4>3. q \in D /\ \A r \in D : r <= q
        BY <4>1, <4>2
      <4>4. q \in 1 .. 3 /\ SchemaAt(q) # None
        BY <3>4, <4>3
      <4>5. \A r \in q + 1 .. 3 : SchemaAt(r) = None
        <5>1. ASSUME NEW r \in q + 1 .. 3 PROVE SchemaAt(r) = None
          <6>1. r \in 1 .. 3 /\ ~(r <= q)
            BY <4>4, <5>1
          <6> QED
            BY <3>4, <4>3, <6>1
        <5> QED
          BY <5>1
      <4>6. q <= n
        BY <1>1, <3>1, <4>4
      <4>7. size = Len(SchemaAt(q))
        BY <4>4, <4>5, <4>6 DEF CopiedTo
      <4> QED
        BY <3>2, <3>3, <3>5, <3>7, <4>2, <4>7
    <3> QED
      BY <3>6, <3>7
  <2> QED
    BY <2>1, <2>2
<1>3. PICK m \in Nat : m = Len(SchemaAt(n + 1))
  BY <1>1
<1>4. terms \in [1 .. m -> Terms \cup {Junk}] /\ \A i \in 1 .. m : terms[i] = SchemaAt(n + 1)[i]
  BY <1>2, <1>3 DEF Read
<1>5. SchemaAt(n + 1) \in [1 .. m -> Terms]
  BY <1>1, <1>3
<1> QED
  BY <1>4, <1>5

(* A place whose schema is missing leaves everything as it is.             *)
LEMMA CopyNone ==
  ASSUME TypeOK, NEW n \in 0 .. Places, at = n + 1, CopiedTo(n), n + 1 <= Places,
         SchemaAt(n + 1) = None, UNCHANGED <<declared, es, used, size>>
  PROVE  CopiedTo(n + 1)'
<1>1. n \in Nat /\ n + 1 \in 1 .. Places /\ (n + 1) - 1 = n
  BY PlacesAre
<1>2. Declares /\ SlotSize \in Nat
  BY Typed, SchemasAssumption
<1>3. /\ \A p : SchemaAt(p)' = SchemaAt(p)
      /\ Need(n + 1)' = Need(n + 1)
      /\ \A p : Regular(p)' <=> Regular(p)
      /\ es' = es /\ used' = used /\ size' = size
  BY Steady
<1>4. Need(n + 1) = Need(n)
  <2>1. Need(n + 1) = Need(n) + Cost(n + 1) /\ Need(n) \in Nat
    BY <1>1, <1>2, NeedsAre
  <2>2. Cost(n + 1) = 0
    BY DEF Cost
  <2> QED
    BY <2>1, <2>2
<1>5. ASSUME NEW p \in n + 2 .. Places PROVE es'[EventAt(p)].of[KindAt(p)] = << >>
  BY <1>1, <1>3 DEF CopiedTo
<1>6. ASSUME NEW p \in 1 .. n + 1, Regular(p)'
      PROVE  es'[EventAt(p)].of[KindAt(p)] = SchemaAt(p)'
  <2>1. CASE p = n + 1
    BY <1>1, <1>3, <2>1 DEF CopiedTo, None
  <2>2. CASE p # n + 1
    BY <1>1, <1>3, <1>6, <2>2 DEF CopiedTo
  <2> QED
    BY <2>1, <2>2
<1>7. ASSUME Regular(n + 1)' PROVE Regular(n)
  BY <1>2, <1>3, <1>7, RegularBefore
<1>8. ASSUME Regular(n + 1)' PROVE used' = Need(n + 1)'
  BY <1>3, <1>4, <1>7, <1>8 DEF CopiedTo
<1>9. ASSUME Regular(n + 1)', NEW p \in n + 2 .. Places
      PROVE  es'[EventAt(p)].made <=>
               \E q \in 1 .. n + 1 : EventAt(q) = EventAt(p) /\ SchemaAt(q)' # None
  <2>1. p \in n + 1 .. Places
    BY <1>1
  <2>2. es'[EventAt(p)].made <=>
          \E q \in 1 .. n : EventAt(q) = EventAt(p) /\ SchemaAt(q) # None
    BY <1>3, <1>7, <1>9, <2>1 DEF CopiedTo
  <2>3. \A q \in 1 .. n + 1 : SchemaAt(q) # None => q \in 1 .. n
    BY <1>1
  <2>4. \A q \in 1 .. n : q \in 1 .. n + 1
    BY <1>1
  <2> QED
    BY <1>3, <2>2, <2>3, <2>4
<1>10. ASSUME NEW q \in 1 .. 3, q <= n + 1, SchemaAt(q)' # None,
              \A r \in q + 1 .. 3 : r <= n + 1 => SchemaAt(r)' = None
       PROVE  size' = Len(SchemaAt(q))'
  <2>1. q # n + 1 /\ SchemaAt(q) # None
    BY <1>3, <1>10
  <2>2. q <= n
    BY <1>1, <1>10, <2>1
  <2>3. \A r \in q + 1 .. 3 : r <= n => SchemaAt(r) = None
    BY <1>1, <1>3, <1>10
  <2>4. size = Len(SchemaAt(q))
    BY <2>1, <2>2, <2>3 DEF CopiedTo
  <2> QED
    BY <1>3, <2>4
<1>11. (n + 1) + 1 = n + 2
  BY <1>1
<1> QED
  BY <1>5, <1>6, <1>8, <1>9, <1>10, <1>11 DEF CopiedTo

(* A place whose schema is declared stores what was read for it.           *)
LEMMA CopySome ==
  ASSUME TypeOK, NEW n \in 0 .. Places, at = n + 1, CopiedTo(n), n + 1 <= Places,
         SchemaAt(n + 1) # None, declared' = declared,
         NEW terms \in Read(SchemaAt(n + 1), SizeAt(n + 1)), NEW R,
         R = StoreSchema(es[EventAt(n + 1)], used, KindAt(n + 1), terms),
         es' = [es EXCEPT ![EventAt(n + 1)] = R.event],
         used' = R.used, size' = SizeAt(n + 1)
  PROVE  CopiedTo(n + 1)'
<1> DEFINE P == n + 1
           e == EventAt(P)
           k == KindAt(P)
<1>1. n \in Nat /\ P \in 1 .. Places /\ P - 1 = n /\ P \in Nat
  BY PlacesAre
<1>2. Declares /\ SlotSize \in Nat /\ SchemaAt(P) \in Seq(Terms)
  BY <1>1, Typed, SchemaTyped, SchemasAssumption
<1>3. /\ \A p : SchemaAt(p)' = SchemaAt(p)
      /\ Need(P)' = Need(P)
      /\ \A p : Regular(p)' <=> Regular(p)
  BY Steady
<1>4. e \in Events /\ k \in KindSet
  BY <1>1, PlacesAre
<1>5. es[e] \in Objects /\ used \in 0 .. Capacity /\ used \in Nat
  BY <1>4, Typed
<1>6. terms \in Texts
  <2>1. SizeAt(P) \in Nat
    BY <1>2, Typed DEF SizeAt
  <2> QED
    BY <2>1 DEF Texts, Read
<1>7. \A j \in KindSet : j # k => R.event.of[j] = es[e].of[j]
  BY <1>2, <1>4, <1>5, <1>6, StoreSchemaTyped
<1>8. es'[e] = R.event /\ \A f \in Events : f # e => es'[f] = es[f]
  BY <1>4 DEF TypeOK
<1>9. ASSUME NEW p \in 1 .. Places, p # P
      PROVE  es'[EventAt(p)].of[KindAt(p)] = es[EventAt(p)].of[KindAt(p)]
  <2>1. EventAt(p) \in Events /\ KindAt(p) \in KindSet
        /\ ~(EventAt(p) = e /\ KindAt(p) = k)
    BY <1>1, <1>9, PlacesAre
  <2> HIDE DEF e, k
  <2>2. CASE EventAt(p) = e
    BY <1>7, <1>8, <2>1, <2>2
  <2>3. CASE EventAt(p) # e
    BY <1>8, <2>1, <2>3
  <2> QED
    BY <2>2, <2>3
<1>10. ASSUME Regular(P)
       PROVE  /\ Regular(n)
              /\ es'[e] = [made |-> TRUE, of |-> [es[e].of EXCEPT ![k] = SchemaAt(P)]]
              /\ used' = Need(P)
  <2>1. Regular(n)
    BY <1>2, <1>10, RegularBefore
  <2>2. terms = SchemaAt(P)
    BY <1>2, <1>10, ReadWhole
  <2>3. es[e].made <=> ~Opens(P)
    <3>1. P \in n + 1 .. Places
      BY <1>1
    <3>2. es[e].made <=> \E q \in 1 .. n : EventAt(q) = e /\ SchemaAt(q) # None
      BY <2>1, <3>1 DEF CopiedTo
    <3> QED
      BY <1>1, <3>2 DEF Opens
  <2>4. PICK d : d = IF es[e].made THEN 0 ELSE SlotSize
    OBVIOUS
  <2>5. d \in Nat /\ Bytes(SchemaAt(P)) \in Nat /\ Need(n) \in Nat
    BY <1>1, <1>2, <2>4, LengthsAre, NeedsAre
  <2>6. Cost(P) = Bytes(SchemaAt(P)) + d
    BY <2>3, <2>4 DEF Cost
  <2>7. Need(P) = Need(n) + Cost(P)
    BY <1>1, <1>2, NeedsAre
  <2>8. used = Need(n)
    BY <2>1 DEF CopiedTo
  <2>9. used + d + Bytes(SchemaAt(P)) = Need(P) /\ used + d + Bytes(SchemaAt(P)) <= Capacity
    <3>1. Need(P) <= Capacity
      BY <1>10 DEF Regular
    <3> QED
      BY <2>5, <2>6, <2>7, <2>8, <3>1
  <2>10. R = StoreSchema(es[e], used, k, SchemaAt(P))
    BY <2>2
  <2> HIDE DEF P, e, k
  <2>11. R = [event |-> [made |-> TRUE, of |-> [es[e].of EXCEPT ![k] = SchemaAt(P)]],
              used |-> used + d + Bytes(SchemaAt(P))]
    BY <1>2, <1>4, <1>5, <2>4, <2>9, <2>10, StoreSchemaWhole
  <2>12. R.event = [made |-> TRUE, of |-> [es[e].of EXCEPT ![k] = SchemaAt(P)]]
         /\ R.used = used + d + Bytes(SchemaAt(P))
    <3>1. PICK object, bytes :
            /\ object = [made |-> TRUE, of |-> [es[e].of EXCEPT ![k] = SchemaAt(P)]]
            /\ bytes = used + d + Bytes(SchemaAt(P))
      OBVIOUS
    <3>2. R = [event |-> object, used |-> bytes]
      BY ONLY <2>11, <3>1
    <3>3. R.event = object /\ R.used = bytes
      BY ONLY <3>2
    <3> QED
      BY ONLY <3>1, <3>3
  <2> QED
    BY <1>8, <2>1, <2>9, <2>12
<1>11. ASSUME NEW p \in n + 2 .. Places PROVE es'[EventAt(p)].of[KindAt(p)] = << >>
  <2>1. p \in 1 .. Places /\ p # P /\ p \in n + 1 .. Places
    BY <1>1
  <2> QED
    BY <1>9, <2>1 DEF CopiedTo
<1>12. ASSUME NEW p \in 1 .. n + 1, Regular(p)'
       PROVE  es'[EventAt(p)].of[KindAt(p)] = SchemaAt(p)'
  <2>1. CASE p = P
    <3>1. es'[e].of[k] = SchemaAt(P)
      BY <1>3, <1>4, <1>5, <1>10, <1>12, <2>1 DEF Objects
    <3> QED
      BY <1>3, <2>1, <3>1
  <2>2. CASE p # P
    <3>1. p \in 1 .. n /\ p \in 1 .. Places
      BY <1>1, <2>2, PlacesAre
    <3>2. es[EventAt(p)].of[KindAt(p)] = SchemaAt(p)
      BY <1>3, <1>12, <3>1 DEF CopiedTo
    <3> QED
      BY <1>3, <1>9, <2>2, <3>1, <3>2
  <2> QED
    BY <2>1, <2>2
<1>13. ASSUME Regular(n + 1)' PROVE used' = Need(n + 1)'
  BY <1>3, <1>10, <1>13
<1>14. ASSUME Regular(n + 1)', NEW p \in n + 2 .. Places
       PROVE  es'[EventAt(p)].made <=>
                \E q \in 1 .. n + 1 : EventAt(q) = EventAt(p) /\ SchemaAt(q)' # None
  <2>1. p \in n + 1 .. Places /\ p \in 1 .. Places /\ EventAt(p) \in Events
    BY <1>1, PlacesAre
  <2>2. Regular(P)
    BY <1>3, <1>14
  <2>3. CASE EventAt(p) = e
    <3>1. es'[EventAt(p)].made = TRUE
      BY <1>10, <2>2, <2>3
    <3>2. P \in 1 .. n + 1 /\ EventAt(P) = EventAt(p) /\ SchemaAt(P)' # None
      BY <1>1, <1>3, <2>3
    <3> QED
      BY <3>1, <3>2
  <2>4. CASE EventAt(p) # e
    <3>1. es'[EventAt(p)] = es[EventAt(p)]
      BY <1>8, <2>1, <2>4
    <3>2. es[EventAt(p)].made <=>
            \E q \in 1 .. n : EventAt(q) = EventAt(p) /\ SchemaAt(q) # None
      BY <1>10, <2>1, <2>2 DEF CopiedTo
    <3>3. \A q \in 1 .. n + 1 : EventAt(q) = EventAt(p) => q \in 1 .. n
      BY <1>1, <2>4
    <3>4. \A q \in 1 .. n : q \in 1 .. n + 1
      BY <1>1
    <3> QED
      BY <1>3, <3>1, <3>2, <3>3, <3>4
  <2> QED
    BY <2>3, <2>4
<1>15. ASSUME NEW q \in 1 .. 3, q <= n + 1, SchemaAt(q)' # None,
              \A r \in q + 1 .. 3 : r <= n + 1 => SchemaAt(r)' = None
       PROVE  size' = Len(SchemaAt(q))'
  <2>1. P \in 1 .. 3 <=> EventAt(P) = 1
    BY <1>1, PlacesAre
  <2>2. CASE P \in 1 .. 3
    <3>1. size' = Len(SchemaAt(P))
      BY <2>1, <2>2 DEF SizeAt
    <3>2. q = P
      BY <1>1, <1>3, <1>15, <2>2
    <3> QED
      BY <1>3, <3>1, <3>2
  <2>3. CASE P \notin 1 .. 3
    <3>1. size' = size
      BY <2>1, <2>3 DEF SizeAt
    <3>2. q <= n
      BY <1>1, <2>3
    <3>3. \A r \in q + 1 .. 3 : r <= n => SchemaAt(r) = None
      BY <1>1, <1>3, <1>15
    <3>4. size = Len(SchemaAt(q))
      BY <1>3, <1>15, <3>2, <3>3 DEF CopiedTo
    <3> QED
      BY <1>3, <3>1, <3>4
  <2> QED
    BY <2>2, <2>3
<1>16. (n + 1) + 1 = n + 2
  BY <1>1
<1> QED
  BY <1>11, <1>12, <1>13, <1>14, <1>15, <1>16 DEF CopiedTo

LEMMA InitIInv ==
  ASSUME Init
  PROVE  IInv
<1> USE DEF Init
<1>1. Declares
  BY DEF Declares, Schemas
<1>2. Capacity \in Nat /\ Places \in Nat
  BY <1>1, CapacityTyped, PlacesAre
<1>3. es \in [Events -> Objects]
  BY DEF Objects
<1>4. TypeOK
  BY <1>2, <1>3 DEF TypeOK, Objects
<1>5. Need(0) = 0
  BY <1>1, NeedsAre
<1>6. \A p \in 1 .. Places : es[EventAt(p)].of[KindAt(p)] = << >> /\ es[EventAt(p)].made = FALSE
  BY PlacesAre
<1>7. CopiedTo(0)
  <2>1. \A p \in 0 + 1 .. Places : p \in 1 .. Places
    BY <1>2
  <2>2. \A p \in 0 + 1 .. Places : es[EventAt(p)].of[KindAt(p)] = << >>
    BY <1>6, <2>1
  <2>3. \A p \in 0 + 1 .. Places :
          es[EventAt(p)].made <=> \E q \in 1 .. 0 : EventAt(q) = EventAt(p) /\ SchemaAt(q) # None
    <3>1. \A q : q \notin 1 .. 0
      OBVIOUS
    <3>2. \A p \in 0 + 1 .. Places : ~es[EventAt(p)].made
      BY <1>6, <2>1
    <3> QED
      BY ONLY <3>1, <3>2
  <2>4. used = Need(0)
    BY <1>5
  <2>5. \A q \in 1 .. 3 : ~(q <= 0)
    OBVIOUS
  <2>6. \A p : p \notin 1 .. 0
    OBVIOUS
  <2> QED
    BY ONLY <2>2, <2>3, <2>4, <2>5, <2>6 DEF CopiedTo
<1>8. 0 \in 0 .. Places /\ at = 0 + 1
  BY <1>2
<1> QED
  BY <1>4, <1>7, <1>8 DEF IInv

LEMMA ChannelTyped ==
  ASSUME TypeOK, NEW i \in DOMAIN chans
  PROVE  /\ i \in Nat /\ i >= 1
         /\ chans[i].key \in Events /\ chans[i].flag \in BOOLEAN
         /\ chans[i] = [key |-> chans[i].key, flag |-> chans[i].flag]
<1>1. PICK S : S = [key : Events, flag : BOOLEAN]
  OBVIOUS
<1>2. chans \in Seq(S)
  BY <1>1 DEF TypeOK
<1>3. chans[i] \in S /\ i \in Nat /\ i >= 1
  BY <1>2
<1> QED
  BY <1>1, <1>3

LEMMA TextTyped ==
  ASSUME TypeOK, NEW m \in Messages, TextOf(m)
  PROVE  TypeOK'
<1>1. PICK i : i = Taker(m)
  OBVIOUS
<1>2. Takers(m) # {} /\ Takers(m) \subseteq Nat
  BY DEF TextOf, Confirms, Takers, TypeOK
<1>3. \E x \in Takers(m) : \A y \in Takers(m) : x <= y
  BY <1>2, Least
<1>4. i \in Takers(m)
  BY <1>1, <1>3 DEF Taker
<1>5. i \in DOMAIN chans
  BY <1>4 DEF Takers
<1>6. PICK S, c : /\ S = [key : Events, flag : BOOLEAN]
                  /\ c = [chans[i] EXCEPT !.flag = ~chans[i].flag]
  OBVIOUS
<1>7. c \in S
  <2>1. /\ chans[i].key \in Events /\ chans[i].flag \in BOOLEAN
        /\ chans[i] = [key |-> chans[i].key, flag |-> chans[i].flag]
    BY <1>5, ChannelTyped
  <2>2. PICK b \in BOOLEAN : b = ~chans[i].flag
    BY <2>1
  <2>3. c = [key |-> chans[i].key, flag |-> b]
    BY <1>6, <2>1, <2>2
  <2> QED
    BY <1>6, <2>1, <2>2, <2>3
<1>8. chans' \in Seq([key : Events, flag : BOOLEAN])
  <2>1. chans \in Seq(S)
    BY <1>6 DEF TypeOK
  <2>2. chans' = [chans EXCEPT ![i] = c]
    BY <1>1, <1>6 DEF TextOf
  <2>3. chans' \in Seq(S)
    BY <1>5, <1>7, <2>1, <2>2
  <2> QED
    BY <1>6, <2>3
<1>9. Capacity' = Capacity
  BY Steady DEF TextOf
<1> QED
  BY <1>8, <1>9 DEF TextOf, TypeOK

LEMMA NextIInv ==
  ASSUME IInv, [Next]_vars
  PROVE  IInv'
<1>1. PICK n \in 0 .. Places : TypeOK /\ at = n + 1 /\ CopiedTo(n)
  BY DEF IInv
<1>2. CASE Copy
  <2>1. /\ n \in Nat /\ n + 1 <= Places /\ n + 1 \in 0 .. Places
        /\ at' = (n + 1) + 1 /\ declared' = declared
    BY <1>1, <1>2, PlacesAre DEF Copy, Ready
  <2>2. TypeOK'
    BY <1>1, <1>2, CopyTyped
  <2>3. CASE SchemaAt(at) = None /\ UNCHANGED <<es, used, size>>
    <3>1. CopiedTo(n + 1)'
      BY <1>1, <2>1, <2>3, CopyNone
    <3> QED
      BY <2>1, <2>2, <3>1 DEF IInv
  <2>4. CASE ~(SchemaAt(at) = None /\ UNCHANGED <<es, used, size>>)
    <3>1. PICK terms, R :
            /\ terms \in Read(SchemaAt(n + 1), SizeAt(n + 1))
            /\ R = StoreSchema(es[EventAt(n + 1)], used, KindAt(n + 1), terms)
            /\ es' = [es EXCEPT ![EventAt(n + 1)] = R.event]
            /\ used' = R.used /\ size' = SizeAt(n + 1)
            /\ SchemaAt(n + 1) # None
      BY <1>1, <1>2, <2>4 DEF Copy
    <3>2. CopiedTo(n + 1)'
      BY <1>1, <2>1, <3>1, CopySome
    <3> QED
      BY <2>1, <2>2, <3>2 DEF IInv
  <2> QED
    BY <2>3, <2>4
<1>3. ASSUME UNCHANGED <<declared, es, used, size, at>>, TypeOK' PROVE IInv'
  <2>1. /\ \A p : SchemaAt(p)' = SchemaAt(p)
        /\ \A p : Need(p)' = Need(p)
        /\ \A p : Regular(p)' <=> Regular(p)
    BY <1>3, Steady
  <2>2. CopiedTo(n)'
    BY <1>1, <1>3, <2>1 DEF CopiedTo
  <2> QED
    BY <1>1, <1>3, <2>2 DEF IInv
<1>4. ASSUME NEW e \in Events, Connect(e) PROVE IInv'
  <2>1. [key |-> e, flag |-> ~Has(e, "subscription")] \in [key : Events, flag : BOOLEAN]
    BY DEF Has
  <2>2. chans' \in Seq([key : Events, flag : BOOLEAN])
    BY <1>1, <1>4, <2>1 DEF Connect, TypeOK
  <2>3. Capacity' = Capacity
    BY <1>4, Steady DEF Connect
  <2>4. TypeOK'
    BY <1>1, <1>4, <2>2, <2>3 DEF Connect, TypeOK
  <2> QED
    BY <1>3, <1>4, <2>4 DEF Connect
<1>5. CASE Disconnect
  <2>1. Capacity' = Capacity
    BY <1>5, Steady DEF Disconnect
  <2>2. TypeOK'
    BY <1>1, <1>5, <2>1 DEF Disconnect, TypeOK
  <2> QED
    BY <1>3, <1>5, <2>2 DEF Disconnect
<1>6. ASSUME NEW m \in Messages, TextOf(m) PROVE IInv'
  <2>1. TypeOK'
    BY <1>1, <1>6, TextTyped
  <2> QED
    BY <1>3, <1>6, <2>1 DEF TextOf
<1>7. CASE UNCHANGED vars
  <2>1. Capacity' = Capacity
    BY <1>7, Steady DEF vars
  <2>2. TypeOK'
    BY <1>1, <1>7, <2>1 DEF vars, TypeOK
  <2> QED
    BY <1>3, <1>7, <2>2 DEF vars
<1> QED
  BY <1>2, <1>4, <1>5, <1>6, <1>7 DEF Next

LEMMA SpecIInv == Spec => []IInv
<1>1. Init => IInv
  BY InitIInv
<1>2. IInv /\ [Next]_vars => IInv'
  BY NextIInv
<1> QED
  BY <1>1, <1>2, PTL DEF Spec

-------------------------------------------------------------------------------
(* The document never holds more bytes than it has, whichever terms setup()*)
(* reads behind the end of a table, and the other variables have their     *)
(* types.                                                                  *)
THEOREM PoolNeverOverrun == Spec => []TypeOK
<1>1. IInv => TypeOK
  BY DEF IInv
<1> QED
  BY <1>1, SpecIInv, PTL

(* A schema is copied whole if the document has the room for it and those  *)
(* before it and those of the later events are as long as the last one of  *)
(* the first event, whose size is used for them.                           *)
THEOREM RegularCopiedWhole == Spec => []WholeIfRegular
<1>1. IInv => WholeIfRegular
  <2> SUFFICES ASSUME IInv, NEW p \in 1 .. at - 1, Regular(p)
               PROVE  es[EventAt(p)].of[KindAt(p)] = SchemaAt(p)
    BY DEF WholeIfRegular
  <2>1. PICK n \in 0 .. Places : TypeOK /\ at = n + 1 /\ CopiedTo(n)
    BY DEF IInv
  <2>2. p \in 1 .. n
    BY <2>1, PlacesAre
  <2> QED
    BY <2>1, <2>2 DEF CopiedTo
<1> QED
  BY <1>1, SpecIInv, PTL

(* Of a regular Thing es_doc holds what was declared, once setup() ended.  *)
LEMMA AllCopied ==
  ASSUME IInv, Ready, Regular(Places)
  PROVE  \A e \in Events, k \in KindSet : es[e].of[k] = declared[e][k]
<1>1. PICK n \in 0 .. Places : TypeOK /\ at = n + 1 /\ CopiedTo(n)
  BY DEF IInv
<1>2. n = Places /\ Places \in Nat
  BY <1>1, PlacesAre DEF Ready
<1>3. ASSUME NEW p \in 1 .. Places PROVE Regular(p)
  <2> DEFINE T == {i \in Nat : i < Places => Regular(Places - i)}
  <2>1. 0 \in T
    BY <1>2
  <2>2. ASSUME NEW i \in Nat, i \in T PROVE i + 1 \in T
    <3> SUFFICES ASSUME i + 1 < Places PROVE Regular(Places - (i + 1))
      OBVIOUS
    <3>1. PICK j \in 0 .. Places : j = Places - (i + 1)
      BY <1>2
    <3>2. Places - i = j + 1 /\ j + 1 <= Places
      BY <1>2, <3>1
    <3>3. Regular(j + 1)
      BY <1>2, <2>2, <3>2
    <3>4. Declares
      BY <1>1, Typed
    <3> QED
      BY <3>1, <3>2, <3>3, <3>4, RegularBefore
  <2>3. Places - p \in Nat /\ Places - p < Places /\ Places - (Places - p) = p
    BY <1>2
  <2>4. Places - p \in T
    <3> HIDE DEF T
    <3> QED
      BY <2>1, <2>2, <2>3, AllNaturals
  <2> QED
    BY <2>3, <2>4
<1>4. ASSUME NEW e \in Events, NEW k \in KindSet PROVE es[e].of[k] = declared[e][k]
  <2>1. PICK p \in 1 .. Places : EventAt(p) = e /\ KindAt(p) = k
    BY PlacesAre
  <2>2. es[EventAt(p)].of[KindAt(p)] = SchemaAt(p)
    BY <1>1, <1>2, <1>3 DEF CopiedTo
  <2> QED
    BY <2>1, <2>2 DEF SchemaAt
<1> QED
  BY <1>4

(* Of a Thing whose schemas were copied whole a text is confirmed if it is *)
(* the schema declared for the first channel of the address that it fits,  *)
(* and no text is confirmed that is not the schema of its channel.         *)
THEOREM ConfirmedAsDeclared == Spec => []ConfirmedIsDeclared
<1>1. IInv => ConfirmedIsDeclared
  <2> SUFFICES ASSUME IInv, Ready, Regular(Places) PROVE ConfirmedIsDeclared
    BY DEF ConfirmedIsDeclared
  <2> DEFINE Own(i) == declared[chans[i].key][KindFor(i)]
  <2>1. ASSUME NEW i \in DOMAIN chans PROVE SchemaFor(i) = Own(i)
    <3>1. chans[i].key \in Events
      BY ChannelTyped DEF IInv
    <3>2. KindFor(i) \in KindSet
      BY DEF KindFor, KindSet
    <3> QED
      BY <3>1, <3>2, AllCopied DEF SchemaFor
  <2>2. \A m : Takers(m) \subseteq DOMAIN chans /\ DOMAIN chans \subseteq Nat
    BY DEF Takers, IInv, TypeOK
  <2>3. ASSUME NEW m, Takers(m) # {}
        PROVE  Taker(m) \in Takers(m) /\ \A j \in Takers(m) : Taker(m) <= j
    <3>1. \E x \in Takers(m) : \A y \in Takers(m) : x <= y
      BY <2>2, <2>3, Least
    <3> QED
      BY <3>1 DEF Taker
  <2>4. ASSUME NEW m \in Messages, Confirms(m) PROVE m = Own(Taker(m))
    BY <2>1, <2>2, <2>3, <2>4 DEF Confirms, Accepts
  <2>5. ASSUME NEW i \in DOMAIN chans, Own(i) # None,
               \A j \in 1 .. i - 1 : ~FitsNames(j, Own(i))
        PROVE  Confirms(Own(i))
    <3>1. FitsNames(i, Own(i))
      BY <2>1, <2>5 DEF FitsNames, Has
    <3>2. i \in Takers(Own(i))
      BY <3>1 DEF Takers
    <3>3. PICK t : t = Taker(Own(i))
      OBVIOUS
    <3>4. t \in Takers(Own(i)) /\ t <= i
      BY <2>3, <3>2, <3>3
    <3>5. t \in DOMAIN chans /\ FitsNames(t, Own(i))
      BY <3>4 DEF Takers
    <3>6. t \in Nat /\ t >= 1 /\ i \in Nat
      BY <3>5, ChannelTyped DEF IInv
    <3>7. t = i
      BY <2>5, <3>4, <3>5, <3>6
    <3> QED
      BY <2>1, <3>2, <3>3, <3>7 DEF Confirms, Accepts
  <2> QED
    BY <2>4, <2>5 DEF ConfirmedIsDeclared
<1> QED
  BY <1>1, SpecIInv, PTL

(* Although the table of data schemas is read one element too far, a       *)
(* notification of a regular Thing carries the data schema of its event if *)
(* the event after it has one too, and is empty if neither has.            *)
THEOREM NoticeAsDeclared == Spec => []NoticeIsDataIfLikeNext
<1>1. IInv => NoticeIsDataIfLikeNext
  <2> SUFFICES ASSUME IInv, Ready, Regular(Places), NEW e \in 1 .. NumEvents - 1,
                      Has(e, "data") = Has(e + 1, "data")
               PROVE  Notices(e) = {declared[e]["data"]}
    BY DEF NoticeIsDataIfLikeNext
  <2>1. e \in Events /\ e < NumEvents /\ "data" \in KindSet
    BY SchemasAssumption DEF Events, KindSet
  <2>2. es[e].of["data"] = declared[e]["data"]
    BY <2>1, AllCopied
  <2>3. DataFlag(e) = {Has(e, "data")}
    BY <2>1 DEF DataFlag
  <2>4. Notices(e) = {IF Has(e, "data") THEN es[e].of["data"] ELSE None}
    BY <2>3 DEF Notices
  <2>5. ~Has(e, "data") => declared[e]["data"] = None
    BY DEF Has
  <2> QED
    BY <2>2, <2>4, <2>5
<1> QED
  BY <1>1, SpecIInv, PTL
================================================================================
