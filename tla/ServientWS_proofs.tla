-------------------------- MODULE ServientWS_proofs --------------------------
(* Type correctness of the servient and the agreement of the documents of   *)
(* each registry, for every Thing, every number of slots and addresses, and *)
(* also when handlers lose their own connection half-way.                   *)
EXTENDS ServientWS, SequenceTheorems, WellFoundedInduction, FiniteSetTheorems, TLAPS

-------------------------------------------------------------------------------
(* What the operations of a registry preserve, for every number of slots    *)
(* and every set of addresses.                                              *)

(* A nonempty set of naturals has a least element, and Min returns it.      *)
LEMMA MinIsLeast ==
  ASSUME NEW S, S \subseteq Nat, S # {}
  PROVE  /\ Min(S) \in S /\ \A y \in S : Min(S) <= y
         /\ \A j \in 1 .. Min(S) - 1 : j \notin S
<1> DEFINE R == {ss \in Nat \X Nat : ss[1] < ss[2]}
<1>1. IsWellFoundedOn(R, Nat)
  BY NatLessThanWellFounded DEF OpToRel
<1>2. PICK x \in S : \A y \in S : <<y, x>> \notin R
  <2> HIDE DEF R
  <2> QED BY <1>1, WFMin
<1>3. ASSUME NEW y \in S, y < x PROVE FALSE
  <2>1. <<y, x>> \in Nat \X Nat
    OBVIOUS
  <2>2. <<y, x>> \in R
    BY <1>3, <2>1
  <2> QED BY <1>2, <2>2
<1>4. \A y \in S : x <= y
  BY <1>3
<1>5. Min(S) \in S /\ \A y \in S : Min(S) <= y
  BY <1>4 DEF Min
<1>6. ASSUME NEW m \in Nat, NEW j \in 1 .. m - 1, m <= j PROVE FALSE
  BY <1>6
<1>7. Min(S) \in Nat
  BY <1>5
<1>8. ASSUME NEW j \in 1 .. Min(S) - 1 PROVE j \notin S
  <2> DEFINE m == Min(S)
  <2>1. m \in Nat /\ (j \in S => m <= j) /\ j \in 1 .. m - 1
    BY <1>5, <1>7
  <2> HIDE DEF m
  <2> QED BY <2>1, <1>6
<1> QED BY <1>5, <1>8

(* The fields of a registry and of the objects in it.                       *)
LEMMA RegistryFields ==
  ASSUME NEW K, NEW r \in Registry(K)
  PROVE  /\ r.arr \in Seq(Owner)
         /\ Len(r.arr) \in Nat /\ DOMAIN r.arr = 1 .. Len(r.arr)
         /\ \A i \in DOMAIN r.arr : r.arr[i].ip \in Addr /\ r.arr[i].num \in Nums
         /\ r.num \in [Addr -> Nums \cup {NoNum}]
         /\ r.doc \in [Addr -> Seq(Entry(K))]
<1>1. r.arr \in Seq(Owner)
  BY DEF Registry
<1>2. \A i \in 1 .. Len(r.arr) : r.arr[i] \in Owner
  BY <1>1, ElementOfSeq
<1>3. \A o \in Owner : o.ip \in Addr /\ o.num \in Nums
  BY DEF Owner
<1>4. Len(r.arr) \in Nat /\ DOMAIN r.arr = 1 .. Len(r.arr)
  BY <1>1
<1>5. r.num \in [Addr -> Nums \cup {NoNum}] /\ r.doc \in [Addr -> Seq(Entry(K))]
  BY DEF Registry
<1> QED BY <1>1, <1>2, <1>3, <1>4, <1>5

(* Where the scan stops: at an object of socket n if there is one.          *)
LEMMA StopsAtOwner ==
  ASSUME NEW K, NEW r \in Registry(K), NEW n, IsOwner(r, n)
  PROVE  /\ StopsAt(r, n) \in DOMAIN r.arr
         /\ r.arr[StopsAt(r, n)].num = n
         /\ \A j \in 1 .. StopsAt(r, n) - 1 : r.arr[j].num # n
<1> DEFINE hits == {i \in DOMAIN r.arr : r.arr[i].num = n}
<1>1. r.arr \in Seq(Owner)
  BY DEF Registry
<1>2. hits \subseteq Nat /\ hits # {}
  BY <1>1 DEF IsOwner
<1>3. StopsAt(r, n) = Min(hits)
  BY <1>2 DEF StopsAt
<1>4. Min(hits) \in hits /\ \A y \in hits : Min(hits) <= y
  <2> HIDE DEF hits
  <2> QED BY <1>2, MinIsLeast
<1>5. \A j \in 1 .. Min(hits) - 1 : j \notin hits
  <2> HIDE DEF hits
  <2> QED BY <1>2, MinIsLeast
<1>6. \A j \in 1 .. Min(hits) - 1 : j \in DOMAIN r.arr
  <2>1. Min(hits) \in 1 .. Len(r.arr)
    BY <1>1, <1>4
  <2> HIDE DEF hits
  <2> QED BY <1>1, <2>1
<1>7. \A j \in 1 .. Min(hits) - 1 : r.arr[j].num # n
  BY <1>5, <1>6
<1>8. Min(hits) \in DOMAIN r.arr /\ r.arr[Min(hits)].num = n
  BY <1>4
<1> HIDE DEF hits
<1> QED BY <1>3, <1>7, <1>8

LEMMA StopsAtType ==
  ASSUME NEW K, NEW r \in Registry(K), NEW n
  PROVE  StopsAt(r, n) \in 1 .. Len(r.arr) + 1
<1>1. r.arr \in Seq(Owner)
  BY DEF Registry
<1>2. CASE IsOwner(r, n)
  BY <1>1, <1>2, StopsAtOwner
<1>3. CASE ~IsOwner(r, n)
  BY <1>1, <1>3 DEF IsOwner, StopsAt
<1> QED BY <1>2, <1>3

(* Taking the i-th element out of a sequence.                               *)
LEMMA RemoveAtProperties ==
  ASSUME NEW S, NEW s \in Seq(S), NEW i \in 1 .. Len(s)
  PROVE  /\ RemoveAt(s, i) \in Seq(S)
         /\ Len(RemoveAt(s, i)) = Len(s) - 1
         /\ \A j \in 1 .. i - 1 : RemoveAt(s, i)[j] = s[j]
         /\ \A j \in i .. Len(s) - 1 : RemoveAt(s, i)[j] = s[j + 1]
<1> DEFINE a == SubSeq(s, 1, i - 1)
           b == SubSeq(s, i + 1, Len(s))
<1>1. /\ a \in Seq(S) /\ Len(a) = i - 1
      /\ \A j \in 1 .. i - 1 : a[j] = s[j]
  BY SubSeqProperties
<1>2. /\ b \in Seq(S) /\ Len(b) = Len(s) - i
      /\ \A j \in 1 .. Len(s) - i : b[j] = s[i + j]
  BY SubSeqProperties
<1>3. RemoveAt(s, i) = a \o b
  BY DEF RemoveAt
<1>4. /\ a \o b \in Seq(S)
      /\ Len(a \o b) = Len(s) - 1
      /\ \A j \in 1 .. Len(s) - 1 : (a \o b)[j] = IF j <= i - 1 THEN a[j] ELSE b[j - (i - 1)]
  <2> HIDE DEF a, b
  <2>1. /\ a \o b \in Seq(S)
        /\ Len(a \o b) = Len(a) + Len(b)
        /\ \A j \in 1 .. Len(a) + Len(b) :
             (a \o b)[j] = IF j <= Len(a) THEN a[j] ELSE b[j - Len(a)]
    BY <1>1, <1>2, ConcatProperties
  <2>2. Len(s) \in Nat /\ i \in Nat /\ Len(a) + Len(b) = Len(s) - 1
    BY <1>1, <1>2
  <2> QED BY <1>1, <2>1, <2>2
<1>5. ASSUME NEW j \in 1 .. i - 1
      PROVE  (a \o b)[j] = s[j]
  <2> HIDE DEF a, b
  <2> QED BY <1>1, <1>4
<1>6. ASSUME NEW j \in i .. Len(s) - 1
      PROVE  (a \o b)[j] = s[j + 1]
  <2>1. j - (i - 1) \in 1 .. Len(s) - i
    OBVIOUS
  <2>2. b[j - (i - 1)] = s[i + (j - (i - 1))]
    BY <1>2, <2>1
  <2>3. i + (j - (i - 1)) = j + 1 /\ j \in 1 .. Len(s) - 1 /\ ~(j <= i - 1)
    OBVIOUS
  <2> HIDE DEF a, b
  <2> QED BY <1>4, <2>2, <2>3
<1>7. RemoveAt(s, i) \in Seq(S) /\ Len(RemoveAt(s, i)) = Len(s) - 1
  BY <1>3, <1>4
<1>8. /\ \A j \in 1 .. i - 1 : RemoveAt(s, i)[j] = s[j]
      /\ \A j \in i .. Len(s) - 1 : RemoveAt(s, i)[j] = s[j + 1]
  BY <1>3, <1>5, <1>6
<1> QED BY <1>7, <1>8

-------------------------------------------------------------------------------
(* Forget.                                                                  *)
LEMMA ForgetType ==
  ASSUME NEW K, NEW r \in Registry(K), NEW n
  PROVE  Forget(r, n) \in Registry(K)
<1> DEFINE i == StopsAt(r, n)
           a == r.arr[i].ip
<1>1. CASE ~IsOwner(r, n)
  BY <1>1 DEF Forget
<1>2. CASE IsOwner(r, n)
  <2>1. r.arr \in Seq(Owner) /\ i \in 1 .. Len(r.arr)
    BY <1>2, StopsAtOwner, RegistryFields
  <2>2. a \in Addr
    BY <2>1, RegistryFields
  <2>3. RemoveAt(r.arr, i) \in Seq(Owner)
    BY <2>1, RemoveAtProperties
  <2>4. [r.num EXCEPT ![a] = NoNum] \in [Addr -> Nums \cup {NoNum}]
    BY <2>2 DEF Registry
  <2>5. << >> \in Seq(Entry(K))
    OBVIOUS
  <2>6. [r.doc EXCEPT ![a] = << >>] \in [Addr -> Seq(Entry(K))]
    BY <2>2, <2>5 DEF Registry
  <2> QED BY <1>2, <2>3, <2>4, <2>6 DEF Forget, Registry
<1> QED BY <1>1, <1>2

(* What is left of arr are the other objects of it, in their order.         *)
LEMMA ForgetArr ==
  ASSUME NEW K, NEW r \in Registry(K), NEW n, IsOwner(r, n)
  PROVE  LET p == StopsAt(r, n)
             f == Forget(r, n)
         IN  /\ p \in 1 .. Len(r.arr)
             /\ Len(f.arr) = Len(r.arr) - 1
             /\ \A i \in 1 .. p - 1 : f.arr[i] = r.arr[i]
             /\ \A i \in p .. Len(r.arr) - 1 : f.arr[i] = r.arr[i + 1]
<1>1. r.arr \in Seq(Owner) /\ StopsAt(r, n) \in 1 .. Len(r.arr)
  BY StopsAtOwner, RegistryFields
<1>2. Forget(r, n).arr = RemoveAt(r.arr, StopsAt(r, n))
  BY DEF Forget
<1> QED BY <1>1, <1>2, RemoveAtProperties

(* Each object left was there before, at another place than the forgotten   *)
(* one, and each other object is still there.                               *)
LEMMA ForgetKeeps ==
  ASSUME NEW K, NEW r \in Registry(K), NEW n, IsOwner(r, n)
  PROVE  LET p == StopsAt(r, n)
             f == Forget(r, n)
         IN  /\ \A i \in DOMAIN f.arr : \E j \in DOMAIN r.arr \ {p} :
                  f.arr[i] = r.arr[j] /\ j = IF i < p THEN i ELSE i + 1
             /\ \A j \in DOMAIN r.arr \ {p} : \E i \in DOMAIN f.arr :
                  f.arr[i] = r.arr[j]
<1> DEFINE p == StopsAt(r, n)
           f == Forget(r, n)
<1>1. f \in Registry(K)
  BY ForgetType
<1>2. /\ DOMAIN f.arr = 1 .. Len(r.arr) - 1 /\ DOMAIN r.arr = 1 .. Len(r.arr)
      /\ Len(r.arr) \in Nat /\ p \in 1 .. Len(r.arr)
  BY <1>1, ForgetArr, RegistryFields
<1>3. /\ \A i \in 1 .. p - 1 : f.arr[i] = r.arr[i]
      /\ \A i \in p .. Len(r.arr) - 1 : f.arr[i] = r.arr[i + 1]
  BY ForgetArr
<1> HIDE DEF p, f
<1>4. ASSUME NEW i \in DOMAIN f.arr
      PROVE  \E j \in DOMAIN r.arr \ {p} :
               f.arr[i] = r.arr[j] /\ j = IF i < p THEN i ELSE i + 1
  <2>1. CASE i < p
    <3>1. i \in DOMAIN r.arr \ {p} /\ i \in 1 .. p - 1
      BY <1>2, <2>1
    <3> QED BY <1>3, <2>1, <3>1
  <2>2. CASE ~(i < p)
    <3>1. i + 1 \in DOMAIN r.arr \ {p} /\ i \in p .. Len(r.arr) - 1
      BY <1>2, <2>2
    <3> QED BY <1>3, <2>2, <3>1
  <2> QED BY <2>1, <2>2
<1>5. ASSUME NEW j \in DOMAIN r.arr \ {p}
      PROVE  \E i \in DOMAIN f.arr : f.arr[i] = r.arr[j]
  <2>1. CASE j < p
    <3>1. j \in DOMAIN f.arr /\ j \in 1 .. p - 1
      BY <1>2, <2>1
    <3> QED BY <1>3, <3>1
  <2>2. CASE ~(j < p)
    <3>1. j - 1 \in DOMAIN f.arr /\ j - 1 \in p .. Len(r.arr) - 1 /\ (j - 1) + 1 = j
      BY <1>2, <2>2
    <3> QED BY <1>3, <3>1
  <2> QED BY <2>1, <2>2
<1> QED BY <1>4, <1>5 DEF p, f

(* An address loses its objects in all three documents or in none.          *)
LEMMA ForgetKeys ==
  ASSUME NEW K, NEW r \in Registry(K), NEW n, KeysAgree(r)
  PROVE  KeysAgree(Forget(r, n))
<1> DEFINE p == StopsAt(r, n)
           f == Forget(r, n)
           a == r.arr[p].ip
<1>1. CASE ~IsOwner(r, n)
  BY <1>1 DEF Forget
<1>2. CASE IsOwner(r, n)
  <2>1. /\ r.arr \in Seq(Owner) /\ DOMAIN r.arr = 1 .. Len(r.arr) /\ p \in DOMAIN r.arr
        /\ r.num \in [Addr -> Nums \cup {NoNum}] /\ r.doc \in [Addr -> Seq(Entry(K))]
    BY <1>2, StopsAtOwner, RegistryFields
  <2>2. a \in Addr
    BY <2>1, RegistryFields
  <2>3. f.num = [r.num EXCEPT ![a] = NoNum] /\ f.doc = [r.doc EXCEPT ![a] = << >>]
    BY <1>2 DEF Forget
  <2>4. /\ \A i \in DOMAIN f.arr : \E j \in DOMAIN r.arr \ {p} :
             f.arr[i] = r.arr[j] /\ j = IF i < p THEN i ELSE i + 1
        /\ \A j \in DOMAIN r.arr \ {p} : \E i \in DOMAIN f.arr : f.arr[i] = r.arr[j]
    BY <1>2, ForgetKeeps
  <2>5. f \in Registry(K)
    BY ForgetType
  <2>6. DOMAIN f.arr \subseteq Nat /\ p \in Nat
    BY <2>1, <2>5 DEF Registry
  <2>7. \A j \in DOMAIN r.arr \ {p} : r.arr[j].ip # a /\ r.arr[j].ip \in Addr
    BY <2>1, RegistryFields DEF KeysAgree
  <2> HIDE DEF p, f, a
  <2>8. \A i, j \in DOMAIN f.arr : f.arr[i].ip = f.arr[j].ip => i = j
    <3> SUFFICES ASSUME NEW i \in DOMAIN f.arr, NEW j \in DOMAIN f.arr,
                        f.arr[i].ip = f.arr[j].ip
                 PROVE  i = j
      OBVIOUS
    <3>1. PICK ii \in DOMAIN r.arr : f.arr[i] = r.arr[ii] /\ ii = IF i < p THEN i ELSE i + 1
      BY <2>4
    <3>2. PICK jj \in DOMAIN r.arr : f.arr[j] = r.arr[jj] /\ jj = IF j < p THEN j ELSE j + 1
      BY <2>4
    <3>3. ii = jj
      BY <3>1, <3>2 DEF KeysAgree
    <3> QED BY <2>6, <3>1, <3>2, <3>3
  <2>9. \A i \in DOMAIN f.arr : f.num[f.arr[i].ip] = f.arr[i].num
    <3> SUFFICES ASSUME NEW i \in DOMAIN f.arr
                 PROVE  f.num[f.arr[i].ip] = f.arr[i].num
      OBVIOUS
    <3>1. PICK j \in DOMAIN r.arr \ {p} : f.arr[i] = r.arr[j]
      BY <2>4
    <3>2. r.num[r.arr[j].ip] = r.arr[j].num
      BY DEF KeysAgree
    <3>3. f.num[r.arr[j].ip] = r.num[r.arr[j].ip]
      BY <2>1, <2>3, <2>7
    <3> QED BY <3>1, <3>2, <3>3
  <2>10. \A b \in Addr : f.doc[b] # << >> <=> \E i \in DOMAIN f.arr : f.arr[i].ip = b
    <3>1. ASSUME NEW b \in Addr, b = a
          PROVE  f.doc[b] = << >> /\ ~ \E i \in DOMAIN f.arr : f.arr[i].ip = b
      <4>1. f.doc[b] = << >>
        BY <2>1, <2>3, <3>1
      <4>2. ASSUME NEW i \in DOMAIN f.arr, f.arr[i].ip = b PROVE FALSE
        <5>1. PICK j \in DOMAIN r.arr \ {p} : f.arr[i] = r.arr[j]
          BY <2>4
        <5> QED BY <2>7, <3>1, <4>2, <5>1
      <4> QED BY <4>1, <4>2
    <3>2. ASSUME NEW b \in Addr, b # a
          PROVE  f.doc[b] # << >> <=> \E i \in DOMAIN f.arr : f.arr[i].ip = b
      <4>1. f.doc[b] = r.doc[b]
        BY <2>1, <2>3, <3>2
      <4>2. (\E i \in DOMAIN r.arr : r.arr[i].ip = b) <=> \E j \in DOMAIN r.arr \ {p} : r.arr[j].ip = b
        BY <3>2 DEF a
      <4>3. (\E j \in DOMAIN r.arr \ {p} : r.arr[j].ip = b) <=> \E i \in DOMAIN f.arr : f.arr[i].ip = b
        BY <2>4
      <4> QED BY <4>1, <4>2, <4>3 DEF KeysAgree
    <3> QED BY <3>1, <3>2
  <2>11. \A b \in Addr : f.num[b] # NoNum <=> f.doc[b] # << >>
    BY <2>1, <2>2, <2>3 DEF KeysAgree
  <2> QED BY <2>8, <2>9, <2>10, <2>11 DEF KeysAgree, f
<1> QED BY <1>1, <1>2

(* With no socket recorded twice, the forgotten one is gone and the others  *)
(* stay distinct.                                                           *)
LEMMA ForgetOwners ==
  ASSUME NEW K, NEW r \in Registry(K), NEW n, OwnersDistinct(r)
  PROVE  /\ OwnersDistinct(Forget(r, n))
         /\ ~IsOwner(Forget(r, n), n)
         /\ \A i \in DOMAIN Forget(r, n).arr : \E j \in DOMAIN r.arr :
              Forget(r, n).arr[i] = r.arr[j]
<1> DEFINE p == StopsAt(r, n)
           f == Forget(r, n)
<1>1. CASE ~IsOwner(r, n)
  BY <1>1 DEF Forget
<1>2. CASE IsOwner(r, n)
  <2>1. p \in DOMAIN r.arr /\ r.arr[p].num = n /\ DOMAIN r.arr \subseteq Nat
    BY <1>2, StopsAtOwner, RegistryFields
  <2>2. \A i \in DOMAIN f.arr : \E j \in DOMAIN r.arr \ {p} :
          f.arr[i] = r.arr[j] /\ j = IF i < p THEN i ELSE i + 1
    BY <1>2, ForgetKeeps
  <2>3. f \in Registry(K)
    BY ForgetType
  <2>4. DOMAIN f.arr \subseteq Nat
    BY <2>3, RegistryFields
  <2> HIDE DEF p, f
  <2>5. ASSUME NEW i \in DOMAIN f.arr, NEW j \in DOMAIN f.arr, f.arr[i].num = f.arr[j].num
        PROVE  i = j
    <3>1. PICK ii \in DOMAIN r.arr : f.arr[i] = r.arr[ii] /\ ii = IF i < p THEN i ELSE i + 1
      BY <2>2
    <3>2. PICK jj \in DOMAIN r.arr : f.arr[j] = r.arr[jj] /\ jj = IF j < p THEN j ELSE j + 1
      BY <2>2
    <3>3. ii = jj
      BY <2>5, <3>1, <3>2 DEF OwnersDistinct
    <3> QED BY <2>1, <2>4, <3>1, <3>2, <3>3
  <2>6. ASSUME NEW i \in DOMAIN f.arr, f.arr[i].num = n PROVE FALSE
    <3>1. PICK j \in DOMAIN r.arr \ {p} : f.arr[i] = r.arr[j]
      BY <2>2
    <3> QED BY <2>1, <2>6, <3>1 DEF OwnersDistinct
  <2>7. OwnersDistinct(f)
    BY <2>5 DEF OwnersDistinct
  <2>8. ~IsOwner(f, n)
    BY <2>6 DEF IsOwner
  <2>9. \A i \in DOMAIN f.arr : \E j \in DOMAIN r.arr : f.arr[i] = r.arr[j]
    BY <2>2
  <2> QED BY <2>7, <2>8, <2>9 DEF f
<1> QED BY <1>1, <1>2

-------------------------------------------------------------------------------
(* Record.                                                                  *)
LEMMA RecordType ==
  ASSUME NEW K, NEW r \in Registry(K), NEW a \in Addr, NEW n \in Nums, NEW entry \in Entry(K)
  PROVE  Record(r, a, n, entry) \in Registry(K)
<1>1. [ip |-> a, num |-> n] \in Owner
  BY DEF Owner
<1>2. Append(r.arr, [ip |-> a, num |-> n]) \in Seq(Owner)
  BY <1>1, RegistryFields, AppendProperties
<1>3. [r.num EXCEPT ![a] = n] \in [Addr -> Nums \cup {NoNum}]
  BY RegistryFields
<1>4. r.doc[a] \in Seq(Entry(K))
  BY RegistryFields
<1>5. Append(r.doc[a], entry) \in Seq(Entry(K))
  BY <1>4, AppendProperties
<1>6. [r.doc EXCEPT ![a] = Append(@, entry)] \in [Addr -> Seq(Entry(K))]
  BY <1>5, RegistryFields
<1> QED BY <1>2, <1>3, <1>6, RegistryFields DEF Record, Registry

(* The address is known afterwards, and no other address is touched.        *)
LEMMA RecordDoc ==
  ASSUME NEW K, NEW r \in Registry(K), NEW a \in Addr, NEW n \in Nums, NEW entry \in Entry(K),
         NEW f, f = Record(r, a, n, entry)
  PROVE  /\ f.doc[a] # << >>
         /\ \A b \in Addr \ {a} : f.doc[b] = r.doc[b]
<1>1. f.doc = [r.doc EXCEPT ![a] = Append(@, entry)]
  BY DEF Record
<1>2. r.doc[a] \in Seq(Entry(K)) /\ r.doc \in [Addr -> Seq(Entry(K))]
  BY RegistryFields
<1>3. Append(r.doc[a], entry) # << >>
  BY <1>2, AppendProperties
<1> QED BY <1>1, <1>2, <1>3

(* An address that was unknown gets one more object at the end of arr.      *)
LEMMA RecordArr ==
  ASSUME NEW K, NEW r \in Registry(K), NEW a \in Addr, NEW n \in Nums, NEW entry \in Entry(K),
         NEW f, f = Record(r, a, n, entry), r.doc[a] = << >>
  PROVE  /\ DOMAIN f.arr = DOMAIN r.arr \cup {Len(r.arr) + 1}
         /\ \A i \in DOMAIN r.arr : f.arr[i] = r.arr[i]
         /\ f.arr[Len(r.arr) + 1] = [ip |-> a, num |-> n]
         /\ f.num = [r.num EXCEPT ![a] = n]
<1> DEFINE o == [ip |-> a, num |-> n]
<1>1. f.arr = Append(r.arr, o) /\ f.num = [r.num EXCEPT ![a] = n]
  BY DEF Record
<1>2. o \in Owner
  BY DEF Owner
<1>3. /\ Len(Append(r.arr, o)) = Len(r.arr) + 1
      /\ \A i \in 1 .. Len(r.arr) : Append(r.arr, o)[i] = r.arr[i]
      /\ Append(r.arr, o)[Len(r.arr) + 1] = o
      /\ Append(r.arr, o) \in Seq(Owner)
  <2> HIDE DEF o
  <2> QED BY <1>2, RegistryFields, AppendProperties
<1>4. DOMAIN Append(r.arr, o) = 1 .. Len(r.arr) + 1
  BY <1>3
<1>5. DOMAIN r.arr = 1 .. Len(r.arr) /\ Len(r.arr) \in Nat
  BY RegistryFields
<1> HIDE DEF o
<1>6. DOMAIN f.arr = DOMAIN r.arr \cup {Len(r.arr) + 1}
  BY <1>1, <1>4, <1>5
<1> QED BY <1>1, <1>3, <1>5, <1>6 DEF o

LEMMA RecordKeys ==
  ASSUME NEW K, NEW r \in Registry(K), NEW a \in Addr, NEW n \in Nums, NEW entry \in Entry(K),
         KeysAgree(r), NEW f, f = Record(r, a, n, entry)
  PROVE  KeysAgree(f)
<1> DEFINE l == Len(r.arr) + 1
<1> HIDE DEF l
<1>1. /\ f.doc[a] # << >>
      /\ \A b \in Addr \ {a} : f.doc[b] = r.doc[b]
  BY RecordDoc
<1>2. CASE r.doc[a] # << >>
  <2>1. f.arr = r.arr /\ f.num = r.num
    BY <1>2 DEF Record
  <2> QED BY <1>1, <1>2, <2>1 DEF KeysAgree
<1>3. CASE r.doc[a] = << >>
  <2>1. /\ DOMAIN f.arr = DOMAIN r.arr \cup {l}
        /\ \A i \in DOMAIN r.arr : f.arr[i] = r.arr[i]
        /\ f.arr[l] = [ip |-> a, num |-> n]
        /\ f.num = [r.num EXCEPT ![a] = n]
    BY <1>3, RecordArr DEF l
  <2>2. /\ l \notin DOMAIN r.arr
        /\ r.num \in [Addr -> Nums \cup {NoNum}]
        /\ \A i \in DOMAIN r.arr : r.arr[i].ip \in Addr /\ r.arr[i].ip # a
    BY <1>3, RegistryFields DEF KeysAgree, l
  <2>3. n # NoNum
    BY ClientMaxAssumption DEF Nums, NoNum
  <2>4. \A i, j \in DOMAIN f.arr : f.arr[i].ip = f.arr[j].ip => i = j
    BY <2>1, <2>2 DEF KeysAgree
  <2>5. \A i \in DOMAIN f.arr : f.num[f.arr[i].ip] = f.arr[i].num
    <3>1. f.num[f.arr[l].ip] = f.arr[l].num
      BY <2>1, <2>2
    <3>2. ASSUME NEW i \in DOMAIN r.arr
          PROVE  f.num[f.arr[i].ip] = f.arr[i].num
      BY <2>1, <2>2 DEF KeysAgree
    <3> QED BY <2>1, <3>1, <3>2
  <2>6. \A b \in Addr : f.doc[b] # << >> <=> \E i \in DOMAIN f.arr : f.arr[i].ip = b
    <3>1. f.doc[a] # << >> /\ \E i \in DOMAIN f.arr : f.arr[i].ip = a
      BY <1>1, <2>1
    <3>2. ASSUME NEW b \in Addr, b # a
          PROVE  f.doc[b] # << >> <=> \E i \in DOMAIN f.arr : f.arr[i].ip = b
      BY <1>1, <2>1, <2>2, <3>2 DEF KeysAgree
    <3> QED BY <3>1, <3>2
  <2>7. \A b \in Addr : f.num[b] # NoNum <=> f.doc[b] # << >>
    BY <1>1, <2>1, <2>2, <2>3 DEF KeysAgree
  <2> QED BY <2>4, <2>5, <2>6, <2>7 DEF KeysAgree
<1> QED BY <1>2, <1>3

-------------------------------------------------------------------------------
(* SetFlag and Overwrite touch no address and no socket.                    *)
LEMMA ReplaceEntry ==
  ASSUME NEW K, NEW r \in Registry(K), NEW a \in Addr, NEW i \in DOMAIN r.doc[a],
         NEW entry \in Entry(K), NEW f,
         f = [r EXCEPT !.doc[a][i] = entry]
  PROVE  /\ f \in Registry(K) /\ f.arr = r.arr /\ f.num = r.num
         /\ \A b \in Addr : f.doc[b] = << >> <=> r.doc[b] = << >>
         /\ KeysAgree(r) => KeysAgree(f)
<1>1. r.doc[a] \in Seq(Entry(K)) /\ r.doc \in [Addr -> Seq(Entry(K))]
  BY RegistryFields
<1>2. DOMAIN r.doc[a] = 1 .. Len(r.doc[a])
  BY <1>1
<1>3. /\ [r.doc[a] EXCEPT ![i] = entry] \in Seq(Entry(K))
      /\ Len([r.doc[a] EXCEPT ![i] = entry]) = Len(r.doc[a])
  BY <1>1, <1>2, ExceptSeq
<1>4. /\ f.arr = r.arr /\ f.num = r.num
      /\ f.doc = [r.doc EXCEPT ![a] = [r.doc[a] EXCEPT ![i] = entry]]
      /\ f = [arr |-> f.arr, num |-> f.num, doc |-> f.doc]
  BY DEF Registry
<1>5. f \in Registry(K)
  <2>1. f.doc \in [Addr -> Seq(Entry(K))]
    BY <1>1, <1>3, <1>4
  <2> QED BY <1>4, <2>1, RegistryFields DEF Registry
<1>6. [r.doc[a] EXCEPT ![i] = entry] # << >> /\ r.doc[a] # << >>
  BY <1>1, <1>2, <1>3, EmptySeq
<1>7. \A b \in Addr : f.doc[b] = << >> <=> r.doc[b] = << >>
  BY <1>1, <1>4, <1>6
<1>8. KeysAgree(r) => KeysAgree(f)
  BY <1>4, <1>7 DEF KeysAgree
<1> QED BY <1>4, <1>5, <1>7, <1>8

LEMMA SetFlagKeeps ==
  ASSUME NEW K, NEW r \in Registry(K), NEW a \in Addr, NEW i \in DOMAIN r.doc[a],
         NEW flag \in BOOLEAN, NEW f, f = SetFlag(r, a, i, flag)
  PROVE  /\ f \in Registry(K) /\ f.arr = r.arr /\ f.num = r.num
         /\ \A b \in Addr : f.doc[b] = << >> <=> r.doc[b] = << >>
         /\ KeysAgree(r) => KeysAgree(f)
<1> DEFINE e == [r.doc[a][i] EXCEPT !.flag = flag]
<1>1. r.doc[a] \in Seq(Entry(K))
  BY RegistryFields
<1>2. r.doc[a][i] \in Entry(K)
  BY <1>1, ElementOfSeq
<1>3. e \in Entry(K)
  BY <1>2 DEF Entry
<1>4. SetFlag(r, a, i, flag) = [r EXCEPT !.doc[a][i] = e]
  BY DEF SetFlag
<1> HIDE DEF e
<1> QED BY <1>3, <1>4, ReplaceEntry

LEMMA OverwriteKeeps ==
  ASSUME NEW K, NEW r \in Registry(K), NEW a \in Addr, NEW entry \in Entry(K),
         NEW f, f = Overwrite(r, a, entry)
  PROVE  /\ f \in Registry(K) /\ f.arr = r.arr /\ f.num = r.num
         /\ \A b \in Addr : f.doc[b] = << >> <=> r.doc[b] = << >>
         /\ KeysAgree(r) => KeysAgree(f)
<1>1. CASE r.doc[a] = << >>
  BY <1>1 DEF Overwrite
<1>2. CASE r.doc[a] # << >>
  <2>1. r.doc[a] \in Seq(Entry(K))
    BY RegistryFields
  <2>2. Len(r.doc[a]) \in DOMAIN r.doc[a]
    BY <1>2, <2>1, EmptySeq
  <2>3. Overwrite(r, a, entry) = [r EXCEPT !.doc[a][Len(r.doc[a])] = entry]
    BY <1>2 DEF Overwrite
  <2> QED BY <2>2, <2>3, ReplaceEntry
<1> QED BY <1>1, <1>2

-------------------------------------------------------------------------------
(* The handlers of the servient.                                            *)

(* A state a handler works on is good when it has the types of the          *)
(* variables and the documents of its registries agree.                     *)
State == [slots : [Nums -> Slot], ev : Registry(Events), ia : Registry(Requests),
          view : [Nums -> View]]

Good(S) == S \in State /\ KeysAgree(S.ev) /\ KeysAgree(S.ia)

Inv == TypeOK /\ RegistriesAgree

LEMMA Constants ==
  /\ ClientMax \in Nat /\ ClientMax > 0 /\ 0 \in Nums /\ Nums \subseteq Nat
  /\ ZeroIP \in Addr /\ IPs \subseteq Addr
  /\ 0 \notin Events /\ Events \subseteq Nat /\ Requests \subseteq Nat
  /\ Free \in Slot /\ NoView \in View
BY ClientMaxAssumption, AddrAssumption, ThingAssumption
   DEF Nums, Events, Requests, Free, Slot, NoView, View

LEMMA NowGood == Inv => Good(Now)
BY DEF Inv, TypeOK, RegistriesAgree, Good, State, Now

LEMMA BecomeGood ==
  ASSUME NEW S, Good(S), Become(S)
  PROVE  /\ slots' \in [Nums -> Slot]
         /\ ev' \in Registry(Events) /\ ia' \in Registry(Requests)
         /\ view' \in [Nums -> View]
         /\ RegistriesAgree'
BY DEF Good, State, Become, RegistriesAgree, KeysAgree

(* Disconnecting a slot keeps the state good: by ForgetType and ForgetKeys. *)
LEMMA DisconnectGood ==
  ASSUME NEW S, Good(S), NEW n \in Nums
  PROVE  Good(Disconnect(S, n))
<1> DEFINE D == Disconnect(S, n)
<1>1. D.slots \in [Nums -> Slot] /\ D.view \in [Nums -> View]
  BY Constants DEF Good, State, Disconnect
<1>2. D.ev \in Registry(Events) /\ KeysAgree(D.ev)
  BY ForgetType, ForgetKeys DEF Good, State, Disconnect
<1>3. D.ia \in Registry(Requests) /\ KeysAgree(D.ia)
  BY ForgetType, ForgetKeys DEF Good, State, Disconnect
<1> HIDE DEF D
<1> QED BY <1>1, <1>2, <1>3 DEF Good, State, D, Disconnect

LEMMA DropAtGood ==
  ASSUME NEW S, Good(S), NEW n \in Nums, NEW loss, NEW where
  PROVE  Good(DropAt(S, n, loss, where))
BY DisconnectGood DEF DropAt

LEMMA IndexType ==
  ASSUME NEW S, Good(S), NEW n \in Nums
  PROVE  IndexAfterDisconnect(S, n) \in Nat \ {0}
<1>1. StopsAt(S.ev, n) \in 1 .. Len(S.ev.arr) + 1 /\ Len(S.ev.arr) \in Nat
  BY StopsAtType, RegistryFields DEF Good, State
<1>2. StopsAt(S.ia, n) \in 1 .. Len(S.ia.arr) + 1 /\ Len(S.ia.arr) \in Nat
  BY StopsAtType, RegistryFields DEF Good, State
<1> QED BY <1>1, <1>2 DEF IndexAfterDisconnect

(* What a handler changes in one field of a good state.                     *)
LEMMA SetEv ==
  ASSUME NEW S, Good(S), NEW r \in Registry(Events), KeysAgree(r)
  PROVE  Good([S EXCEPT !.ev = r])
BY DEF Good, State

LEMMA SetIa ==
  ASSUME NEW S, Good(S), NEW r \in Registry(Requests), KeysAgree(r)
  PROVE  Good([S EXCEPT !.ia = r])
BY DEF Good, State

LEMMA SetView ==
  ASSUME NEW S, Good(S), NEW n \in Nums, NEW v \in View
  PROVE  Good([S EXCEPT !.view[n] = v])
BY DEF Good, State

LEMMA SetSlot ==
  ASSUME NEW S, Good(S), NEW n \in Nums, NEW x \in Slot
  PROVE  Good([S EXCEPT !.slots[n] = x])
BY DEF Good, State

-------------------------------------------------------------------------------
(* The handlers of the callback.                                            *)

(* MayNotify leaves the round well typed.                                   *)
LEMMA MayNotifyType ==
  ASSUME TypeOK, NEW action \in Actions, NEW replyTo \in Nums \cup {NoNum},
         MayNotify(action, replyTo)
  PROVE  round' \in Round \cup {Idle}
<1>1. CASE UNCHANGED round
  BY <1>1 DEF TypeOK
<1>2. CASE /\ Trigger[action] # 0
           /\ round' = [Idle EXCEPT !.ev = Trigger[action], !.i = 1, !.reply = replyTo]
  <2>1. Trigger[action] \in Events
    BY <1>2, ThingAssumption
  <2>2. round' = [ev |-> Trigger[action], i |-> 1, ip |-> ZeroIP, left |-> 0, sent |-> {},
                  drops |-> 0, reply |-> replyTo]
    BY <1>2 DEF Idle
  <2> QED BY <2>1, <2>2, Constants DEF Round
<1> QED BY <1>1, <1>2 DEF MayNotify

LEMMA ConnectEventGood ==
  ASSUME NEW S, Good(S), NEW n \in Nums, NEW a \in Addr, NEW e \in Events, NEW loss,
         ConnectEvent(S, n, a, e, loss)
  PROVE  \E T : Good(T) /\ Become(T)
<1> DEFINE auto   == SubSchema[e] = NoSchema
           told   == IF loss = "never" THEN [ep |-> e, sub |-> auto /\ ~HasKey(S.ev, a, e)]
                                       ELSE S.view[n]
           rec    == Record(S.ev, a, n, [key |-> e, flag |-> auto])
           before == [S EXCEPT !.ev = Record(@, a, n, [key |-> e, flag |-> auto]),
                               !.view[n] = told]
           gone   == Disconnect(before, n)
           k      == IndexAfterDisconnect(before, n)
<1>1. told \in View
  <2>1. S.view[n] \in View
    BY DEF Good, State
  <2>2. [ep |-> e, sub |-> auto /\ ~HasKey(S.ev, a, e)] \in View
    <3>1. (auto /\ ~HasKey(S.ev, a, e)) \in BOOLEAN
      OBVIOUS
    <3> HIDE DEF auto
    <3> QED BY <3>1 DEF View
  <2> QED BY <2>1, <2>2
<1>2. [key |-> e, flag |-> auto] \in Entry(Events)
  BY DEF Entry
<1>3. S.ev \in Registry(Events) /\ KeysAgree(S.ev)
  BY DEF Good, State
<1>4. rec \in Registry(Events) /\ KeysAgree(rec)
  <2> DEFINE entry == [key |-> e, flag |-> auto]
  <2> HIDE DEF entry
  <2>1. Record(S.ev, a, n, entry) \in Registry(Events) /\ KeysAgree(Record(S.ev, a, n, entry))
    BY <1>2, <1>3, RecordType, RecordKeys DEF entry
  <2> QED BY <2>1 DEF entry
<1>5. Good(before)
  <2>1. before = [[S EXCEPT !.ev = rec] EXCEPT !.view[n] = told]
    BY DEF Good, State
  <2> HIDE DEF before, rec, told
  <2> QED BY <1>1, <1>4, <2>1, SetEv, SetView
<1>6. CASE /\ HasKey(S.ev, a, e)
           /\ Become(DropAt([S EXCEPT !.view[n] = told], n, loss, "send"))
  <2> HIDE DEF told
  <2>1. Good([S EXCEPT !.view[n] = told])
    BY <1>1, SetView
  <2> QED BY <1>6, <2>1, DropAtGood
<1>7. CASE /\ ~HasKey(S.ev, a, e) /\ loss # "send"
           /\ Become(before)
  BY <1>5, <1>7
<1>8. CASE /\ ~HasKey(S.ev, a, e) /\ loss = "send"
           /\ \E entry \in IF k \in Events
                           THEN {[key |-> k, flag |-> SubSchema[k] = NoSchema]}
                           ELSE Entry(Events) :
                Become([gone EXCEPT !.ev = Overwrite(@, a, entry)])
  <2>1. k \in Events => {[key |-> k, flag |-> SubSchema[k] = NoSchema]} \subseteq Entry(Events)
    <3> HIDE DEF k
    <3> QED BY DEF Entry
  <2>2. PICK entry \in Entry(Events) :
          Become([gone EXCEPT !.ev = Overwrite(@, a, entry)])
    <3> HIDE DEF k, gone
    <3> QED BY <1>8, <2>1
  <2>3. Good(gone)
    <3> HIDE DEF before
    <3> QED BY <1>5, DisconnectGood
  <2> HIDE DEF gone, k
  <2>4. gone.ev \in Registry(Events) /\ KeysAgree(gone.ev)
    BY <2>3 DEF Good, State
  <2>5. Overwrite(gone.ev, a, entry) \in Registry(Events)
        /\ KeysAgree(Overwrite(gone.ev, a, entry))
    BY <2>4, OverwriteKeeps
  <2>6. [gone EXCEPT !.ev = Overwrite(@, a, entry)] = [gone EXCEPT !.ev = Overwrite(gone.ev, a, entry)]
    BY <2>3 DEF Good, State
  <2> QED BY <2>2, <2>3, <2>5, <2>6, SetEv
<1> QED BY <1>6, <1>7, <1>8 DEF ConnectEvent

LEMMA ConnectPropertyGood ==
  ASSUME NEW S, Good(S), NEW n \in Nums, NEW a \in Addr, NEW q \in Requests, NEW loss,
         ConnectProperty(S, n, a, q, loss)
  PROVE  \E T : Good(T) /\ Become(T)
<1> DEFINE entry == [key |-> q, flag |-> TRUE]
           T == IF HasKey(S.ia, a, q) THEN S
                ELSE [S EXCEPT !.ia = Record(@, a, n, entry)]
<1>1. entry \in Entry(Requests)
  BY DEF Entry
<1>2. S.ia \in Registry(Requests) /\ KeysAgree(S.ia)
  BY DEF Good, State
<1> HIDE DEF entry
<1>3. Record(S.ia, a, n, entry) \in Registry(Requests) /\ KeysAgree(Record(S.ia, a, n, entry))
  BY <1>1, <1>2, RecordType, RecordKeys
<1>4. [S EXCEPT !.ia = Record(@, a, n, entry)] = [S EXCEPT !.ia = Record(S.ia, a, n, entry)]
  BY DEF Good, State
<1>5. Good(T)
  BY <1>3, <1>4, SetIa
<1>6. Become(DropAt(T, n, loss, "send"))
  BY DEF ConnectProperty, entry
<1> HIDE DEF T
<1> QED BY <1>5, <1>6, DropAtGood

LEMMA ConnectActionGood ==
  ASSUME NEW S, Good(S), NEW n \in Nums, NEW a \in Addr, NEW j \in 1 .. NumWsActions,
         NEW loss, ConnectAction(S, n, a, j, loss)
  PROVE  \E T : Good(T) /\ Become(T)
<1> DEFINE q      == NumProps + j
           runs   == NoInput[j]
           entry  == [key |-> q, flag |-> runs]
           rec    == Record(S.ia, a, n, entry)
           before == [S EXCEPT !.ia = Record(@, a, n, entry)]
           gone   == Disconnect(before, n)
           k      == IndexAfterDisconnect(before, n)
<1>1. q \in Requests /\ runs \in BOOLEAN
  BY ThingAssumption DEF Requests, Actions
<1>2. entry \in Entry(Requests)
  <2> HIDE DEF q, runs
  <2> QED BY <1>1 DEF Entry
<1>3. S.ia \in Registry(Requests) /\ KeysAgree(S.ia)
  BY DEF Good, State
<1>4. rec \in Registry(Requests) /\ KeysAgree(rec)
  <2> HIDE DEF entry
  <2> QED BY <1>2, <1>3, RecordType, RecordKeys
<1>5. Good(before)
  <2> HIDE DEF entry
  <2>1. before = [S EXCEPT !.ia = rec]
    BY DEF Good, State
  <2> HIDE DEF before, rec
  <2> QED BY <1>4, <2>1, SetIa
<1>6. CASE /\ HasKey(S.ia, a, q)
           /\ Become(DropAt(S, n, loss, "send"))
  BY <1>6, DropAtGood
<1>7. CASE Become(before)
  BY <1>5, <1>7
<1>8. CASE \E key \in IF k \in Requests THEN {k} ELSE Requests \cup {Junk} :
             Become([gone EXCEPT !.ia = Overwrite(@, a, [key |-> key, flag |-> runs])])
  <2>1. (IF k \in Requests THEN {k} ELSE Requests \cup {Junk}) \subseteq Requests \cup {Junk}
    <3> HIDE DEF k
    <3> QED OBVIOUS
  <2>2. PICK key \in Requests \cup {Junk} :
          Become([gone EXCEPT !.ia = Overwrite(@, a, [key |-> key, flag |-> runs])])
    <3> HIDE DEF k, gone, runs
    <3> QED BY <1>8, <2>1
  <2>3. Good(gone)
    <3> HIDE DEF before
    <3> QED BY <1>5, DisconnectGood
  <2> DEFINE over == [key |-> key, flag |-> runs]
  <2>4. over \in Entry(Requests)
    <3> HIDE DEF runs
    <3> QED BY <1>1 DEF Entry
  <2> HIDE DEF gone, over
  <2>5. gone.ia \in Registry(Requests) /\ KeysAgree(gone.ia)
    BY <2>3 DEF Good, State
  <2>6. Overwrite(gone.ia, a, over) \in Registry(Requests)
        /\ KeysAgree(Overwrite(gone.ia, a, over))
    BY <2>4, <2>5, OverwriteKeeps
  <2>7. [gone EXCEPT !.ia = Overwrite(@, a, over)] = [gone EXCEPT !.ia = Overwrite(gone.ia, a, over)]
    BY <2>3 DEF Good, State
  <2>8. Become([gone EXCEPT !.ia = Overwrite(@, a, over)])
    BY <2>2 DEF over
  <2> QED BY <2>3, <2>6, <2>7, <2>8, SetIa
<1> QED BY <1>6, <1>7, <1>8 DEF ConnectAction

(* The address a handler reads, and the state in which it goes on.          *)
LEMMA AddressType ==
  ASSUME TypeOK, NEW n \in Nums, NEW loss
  PROVE  AddressOf(n, loss) \in Addr
BY Constants DEF TypeOK, Slot, AddressOf

LEMMA OpenedGood ==
  ASSUME Inv, NEW n \in Nums, NEW loss
  PROVE  Good(Opened(n, loss))
<1>1. Good(Now) /\ slots[n] \in Slot
  BY NowGood DEF Inv, TypeOK
<1>2. [slots[n] EXCEPT !.status = "open"] \in Slot
  BY <1>1 DEF Slot
<1>3. Good([Now EXCEPT !.slots[n] = [slots[n] EXCEPT !.status = "open"]])
  BY <1>1, <1>2, SetSlot
<1>4. [Now EXCEPT !.slots[n].status = "open"] =
      [Now EXCEPT !.slots[n] = [slots[n] EXCEPT !.status = "open"]]
  BY DEF Now
<1> QED BY <1>3, <1>4, DropAtGood DEF Opened

(* The texts.                                                               *)
LEMMA EventTextGood ==
  ASSUME Inv, NEW n \in Nums, NEW m \in Messages, EventText(n, m)
  PROVE  \E T : Good(T) /\ Become(T)
<1>1. PICK loss \in Losses :
       LET S == DropAt(Now, n, loss, "address")
           a == AddressOf(n, loss)
           i == Min(Takers(S, a, m))
           f == ~S.ev.doc[a][i].flag
           T == [S EXCEPT !.ev = SetFlag(@, a, i, f),
                          !.view[n].sub = IF loss = "address" THEN @ ELSE f]
       IN  /\ Takers(S, a, m) # {}
           /\ Become(DropAt(IF m.exact THEN T ELSE S, n, loss, "send"))
  BY DEF EventText
<1> DEFINE S == DropAt(Now, n, loss, "address")
           a == AddressOf(n, loss)
           i == Min(Takers(S, a, m))
           f == ~S.ev.doc[a][i].flag
           T == [S EXCEPT !.ev = SetFlag(@, a, i, f),
                          !.view[n].sub = IF loss = "address" THEN @ ELSE f]
<1>2. a \in Addr
  BY AddressType DEF Inv
<1>3. Good(S)
  BY NowGood, DropAtGood
<1>4. Takers(S, a, m) # {} /\ Become(DropAt(IF m.exact THEN T ELSE S, n, loss, "send"))
  BY <1>1
<1> HIDE DEF S, a
<1>5. S.ev \in Registry(Events) /\ KeysAgree(S.ev) /\ S.view \in [Nums -> View]
  BY <1>3 DEF Good, State
<1>6. S.ev.doc[a] \in Seq(Entry(Events))
  BY <1>2, <1>5, RegistryFields
<1>7. i \in DOMAIN S.ev.doc[a]
  <2>1. Takers(S, a, m) \subseteq DOMAIN S.ev.doc[a] /\ DOMAIN S.ev.doc[a] \subseteq Nat
    BY <1>6 DEF Takers
  <2> QED BY <1>4, <2>1, MinIsLeast
<1> HIDE DEF i
<1>8. f \in BOOLEAN
  OBVIOUS
<1> HIDE DEF f
<1>9. SetFlag(S.ev, a, i, f) \in Registry(Events) /\ KeysAgree(SetFlag(S.ev, a, i, f))
  BY <1>2, <1>5, <1>7, <1>8, SetFlagKeeps
<1>10. [S.view[n] EXCEPT !.sub = IF loss = "address" THEN @ ELSE f] \in View
  BY <1>5, <1>8 DEF View
<1>11. T = [[S EXCEPT !.ev = SetFlag(S.ev, a, i, f)] EXCEPT
             !.view[n] = [S.view[n] EXCEPT !.sub = IF loss = "address" THEN @ ELSE f]]
  BY <1>3 DEF Good, State
<1>12. Good(T)
  <2>1. Good([S EXCEPT !.ev = SetFlag(S.ev, a, i, f)])
    BY <1>3, <1>9, SetEv
  <2> QED BY <1>10, <1>11, <2>1, SetView
<1>13. Good(IF m.exact THEN T ELSE S)
  BY <1>3, <1>12
<1> HIDE DEF T
<1> QED BY <1>4, <1>13, DropAtGood

LEMMA ActionTextGood ==
  ASSUME Inv, NEW n \in Nums, NEW m \in Messages, ActionText(n, m)
  PROVE  /\ \E T : Good(T) /\ Become(T)
         /\ round' \in Round \cup {Idle}
<1>1. PICK loss \in Losses :
       LET S == DropAt(Now, n, loss, "address")
           a == AddressOf(n, loss)
           i == Min(Pending(S, a))
       IN  /\ Takers(S, a, m) = {} /\ Pending(S, a) # {}
           /\ Become(DropAt([S EXCEPT !.ia = SetFlag(@, a, i, TRUE)], n, loss, "send"))
           /\ IF loss = "send" THEN UNCHANGED round
                               ELSE MayNotify(S.ia.doc[a][i].key - NumProps, n)
  BY DEF ActionText
<1> DEFINE S == DropAt(Now, n, loss, "address")
           a == AddressOf(n, loss)
           i == Min(Pending(S, a))
           T == [S EXCEPT !.ia = SetFlag(@, a, i, TRUE)]
           action == S.ia.doc[a][i].key - NumProps
<1>2. a \in Addr
  BY AddressType DEF Inv
<1>3. Good(S)
  BY NowGood, DropAtGood
<1>4. /\ Pending(S, a) # {} /\ Become(DropAt(T, n, loss, "send"))
      /\ IF loss = "send" THEN UNCHANGED round ELSE MayNotify(action, n)
  BY <1>1
<1> HIDE DEF S, a
<1>5. S.ia \in Registry(Requests) /\ KeysAgree(S.ia)
  BY <1>3 DEF Good, State
<1>6. S.ia.doc[a] \in Seq(Entry(Requests))
  BY <1>2, <1>5, RegistryFields
<1>7. i \in Pending(S, a)
  <2>1. Pending(S, a) \subseteq Nat
    BY <1>6 DEF Pending
  <2> QED BY <1>4, <2>1, MinIsLeast
<1>8. i \in DOMAIN S.ia.doc[a] /\ S.ia.doc[a][i].key > NumProps
  BY <1>7 DEF Pending
<1> HIDE DEF i
<1>9. action \in Actions
  <2>1. S.ia.doc[a][i] \in Entry(Requests)
    BY <1>6, <1>8, ElementOfSeq
  <2>2. S.ia.doc[a][i].key \in Requests \cup {0}
    BY <2>1 DEF Entry, Junk
  <2> QED BY <1>8, <2>2, ThingAssumption DEF Requests, Actions
<1>10. SetFlag(S.ia, a, i, TRUE) \in Registry(Requests) /\ KeysAgree(SetFlag(S.ia, a, i, TRUE))
  <2>1. ASSUME NEW flag \in BOOLEAN
        PROVE  SetFlag(S.ia, a, i, flag) \in Registry(Requests)
               /\ KeysAgree(SetFlag(S.ia, a, i, flag))
    BY <1>2, <1>5, <1>8, SetFlagKeeps
  <2> QED BY <2>1
<1>11. T = [S EXCEPT !.ia = SetFlag(S.ia, a, i, TRUE)]
  BY <1>3 DEF Good, State
<1>12. Good(T)
  BY <1>3, <1>10, <1>11, SetIa
<1> HIDE DEF T, action
<1>13. \E U : Good(U) /\ Become(U)
  BY <1>4, <1>12, DropAtGood
<1>14. round' \in Round \cup {Idle}
  BY <1>4, <1>9, MayNotifyType DEF Inv, TypeOK
<1> QED BY <1>13, <1>14

-------------------------------------------------------------------------------
(* The steps of a round.                                                    *)
LEMMA RoundFields ==
  ASSUME round \in Round \cup {Idle}, Busy
  PROVE  /\ round \in Round
         /\ round.i \in Nat \ {0} /\ round.left \in Nat /\ round.ip \in Addr
         /\ round.sent \subseteq Nums /\ round.drops \in Nat
BY DEF Busy, Round, Idle

LEMMA ScanAddressType ==
  ASSUME Inv, ScanAddress
  PROVE  round' \in Round
<1> DEFINE a == ev.arr[round.i].ip
           k == Cardinality(Flagged(ev, a, round.ev))
<1>1. ev \in Registry(Events)
  BY DEF Inv, TypeOK
<1>2. round \in Round
  BY RoundFields DEF Inv, TypeOK, ScanAddress
<1>3. CASE round.i \in DOMAIN ev.arr
  <2>1. a \in Addr
    BY <1>1, <1>3, RegistryFields
  <2>2. ev.doc[a] \in Seq(Entry(Events))
    BY <1>1, <2>1, RegistryFields
  <2>3. IsFiniteSet(DOMAIN ev.doc[a])
    <3>1. DOMAIN ev.doc[a] = 1 .. Len(ev.doc[a]) /\ Len(ev.doc[a]) \in Int /\ 1 \in Int
      BY <2>2
    <3> QED BY <3>1, FS_Interval
  <2>4. Flagged(ev, a, round.ev) \subseteq DOMAIN ev.doc[a]
    BY DEF Flagged
  <2>5. k \in Nat
    BY <2>3, <2>4, FS_Subset, FS_CardinalityType
  <2>6. round' = IF k = 0 THEN [round EXCEPT !.i = @ + 1]
                          ELSE [round EXCEPT !.ip = a, !.left = k]
    BY DEF ScanAddress
  <2> HIDE DEF k, a
  <2>7. [round EXCEPT !.i = @ + 1] \in Round
    BY <1>2 DEF Round
  <2>8. [round EXCEPT !.ip = a, !.left = k] \in Round
    BY <1>2, <2>1, <2>5 DEF Round
  <2> QED BY <2>6, <2>7, <2>8
<1>4. round.i \in DOMAIN ev.arr
  <2>1. DOMAIN ev.arr = 1 .. Len(ev.arr) /\ Len(ev.arr) \in Nat
    BY <1>1, RegistryFields
  <2>2. round.i \in Nat \ {0} /\ round.i <= Len(ev.arr)
    BY RoundFields DEF Inv, TypeOK, ScanAddress
  <2> QED BY <2>1, <2>2
<1> QED BY <1>3, <1>4

LEMMA NotifyGood ==
  ASSUME Inv, Notify
  PROVE  /\ \E T : Good(T) /\ Become(T)
         /\ round' \in Round
<1> DEFINE n    == IF ev.num[round.ip] = NoNum THEN 0 ELSE ev.num[round.ip]
           lost == slots[n].status # "free" /\ ~slots[n].up
           i    == IF lost THEN IndexAfterDisconnect(Now, n) ELSE round.i
           reached == slots[n].up /\ slots[n].status = "open"
<1>1. Good(Now)
  BY NowGood
<1>2. /\ round \in Round /\ round.i \in Nat \ {0} /\ round.left \in Nat /\ round.ip \in Addr
      /\ round.sent \subseteq Nums /\ round.drops \in Nat /\ round.left > 0
  BY RoundFields DEF Inv, TypeOK, Notify
<1>3. n \in Nums
  BY <1>2, Constants, RegistryFields DEF Inv, TypeOK
<1>4. /\ Become(IF lost THEN Disconnect(Now, n) ELSE Now)
      /\ round' = [round EXCEPT !.left = @ - 1,
                                !.i = IF round.left = 1 THEN i + 1 ELSE i,
                                !.sent = IF reached THEN @ \cup {n} ELSE @,
                                !.drops = IF lost THEN @ + 1 ELSE @]
  BY DEF Notify
<1> HIDE DEF n, lost, reached
<1>5. i \in Nat \ {0}
  BY <1>1, <1>2, <1>3, IndexType
<1> HIDE DEF i
<1>6. \E T : Good(T) /\ Become(T)
  BY <1>1, <1>3, <1>4, DisconnectGood
<1> DEFINE left  == round.left - 1
           next  == IF round.left = 1 THEN i + 1 ELSE i
           sent  == IF reached THEN round.sent \cup {n} ELSE round.sent
           drops == IF lost THEN round.drops + 1 ELSE round.drops
<1>7. /\ left \in Nat /\ next \in Nat \ {0} /\ drops \in Nat
      /\ sent \in SUBSET Nums
  BY <1>2, <1>3, <1>5
<1>8. round' = [round EXCEPT !.left = left, !.i = next, !.sent = sent, !.drops = drops]
  BY <1>2, <1>4 DEF Round
<1> HIDE DEF left, next, sent, drops
<1>9. round' \in Round
  BY <1>2, <1>7, <1>8 DEF Round
<1> QED BY <1>6, <1>9

LEMMA EndRoundGood ==
  ASSUME Inv, EndRound
  PROVE  /\ \E T : Good(T) /\ Become(T)
         /\ round' = Idle
<1> DEFINE n    == round.reply
           lost == n # NoNum /\ slots[n].status # "free" /\ ~slots[n].up
<1>1. round.reply \in Nums \cup {NoNum}
  BY RoundFields DEF Inv, TypeOK, EndRound, Round
<1>2. Become(IF lost THEN Disconnect(Now, n) ELSE Now) /\ round' = Idle
  BY DEF EndRound
<1>3. lost => n \in Nums
  BY <1>1
<1> HIDE DEF lost, n
<1> QED BY <1>2, <1>3, NowGood, DisconnectGood

-------------------------------------------------------------------------------
(* The slot Accept takes.                                                   *)
LEMMA UsableMin ==
  ASSUME Usable # {}
  PROVE  Min(Usable) \in Nums /\ ~slots[Min(Usable)].up
<1>1. Usable \subseteq Nat
  BY Constants DEF Usable
<1>2. Min(Usable) \in Usable
  BY <1>1, MinIsLeast
<1> QED BY <1>2 DEF Usable

LEMMA AcceptGood ==
  ASSUME Inv, NEW a \in IPs, Accept(a)
  PROVE  \E T : Good(T) /\ Become(T)
<1> DEFINE n == Min(Usable)
           S == IF slots[n].status = "free" THEN Now ELSE Disconnect(Now, n)
           x == [status |-> "header", up |-> TRUE, ip |-> a]
<1>1. n \in Nums
  BY UsableMin DEF Accept
<1>2. Become([S EXCEPT !.slots[n] = x])
  BY DEF Accept
<1> HIDE DEF n
<1>3. Good(S)
  BY <1>1, NowGood, DisconnectGood
<1>4. x \in Slot
  BY Constants DEF Slot
<1> HIDE DEF S, x
<1> QED BY <1>1, <1>2, <1>3, <1>4, SetSlot

LEMMA AdvanceType ==
  ASSUME TypeOK, Advance
  PROVE  pos' \in 0 .. AcceptTurn
BY Constants DEF TypeOK, Advance, AcceptTurn

(* The whole step.                                                          *)
LEMMA StepInv ==
  ASSUME Inv, [Next]_vars
  PROVE  Inv'
<1> SUFFICES /\ slots' \in [Nums -> Slot] /\ view' \in [Nums -> View]
             /\ ev' \in Registry(Events) /\ ia' \in Registry(Requests)
             /\ RegistriesAgree'
             /\ round' \in Round \cup {Idle}
             /\ pos' \in 0 .. AcceptTurn
  BY DEF Inv, TypeOK
<1> USE DEF Inv
<1>0. TypeOK /\ round \in Round \cup {Idle} /\ pos \in 0 .. AcceptTurn
  BY DEF TypeOK
<1>1. ASSUME UNCHANGED <<slots, ev, ia, view>>
      PROVE  \E T : Good(T) /\ Become(T)
  BY <1>1, NowGood DEF Become, Now
<1>2. ASSUME NEW a \in IPs, Accept(a)
      PROVE  /\ \E T : Good(T) /\ Become(T)
             /\ round' \in Round \cup {Idle} /\ pos' \in 0 .. AcceptTurn
  BY <1>0, <1>2, AcceptGood DEF Accept
<1>3. ASSUME Skip
      PROVE  /\ \E T : Good(T) /\ Become(T)
             /\ round' \in Round \cup {Idle} /\ pos' \in 0 .. AcceptTurn
  BY <1>0, <1>1, <1>3, AdvanceType DEF Skip
<1>4. ASSUME NEW n \in Nums, Reap(n) \/ Close(n)
      PROVE  /\ \E T : Good(T) /\ Become(T)
             /\ round' \in Round \cup {Idle} /\ pos' \in 0 .. AcceptTurn
  BY <1>0, <1>4, NowGood, DisconnectGood, AdvanceType DEF Reap, Close
<1>5. ASSUME NEW n \in Nums, Upgrade(n)
      PROVE  /\ \E T : Good(T) /\ Become(T)
             /\ round' \in Round \cup {Idle} /\ pos' \in 0 .. AcceptTurn
  <2>1. Upgrading(n) /\ pos' \in 0 .. AcceptTurn
    BY <1>0, <1>5, AdvanceType
       DEF Upgrade, UpgradeEvent, UpgradeProperty, UpgradeAction, UpgradeUnknown, Upgrading
  <2>2. CASE UpgradeEvent(n)
    <3>1. PICK e \in Events, loss \in Losses :
            ConnectEvent(Opened(n, loss), n, AddressOf(n, loss), e, loss)
      BY <2>2 DEF UpgradeEvent
    <3>2. UNCHANGED round
      BY <2>2 DEF UpgradeEvent
    <3> QED BY <1>0, <2>1, <3>1, <3>2, OpenedGood, AddressType, ConnectEventGood
  <2>3. CASE UpgradeProperty(n)
    <3>1. PICK q \in 1 .. NumProps, loss \in Losses :
            ConnectProperty(Opened(n, loss), n, AddressOf(n, loss), q, loss)
      BY <2>3 DEF UpgradeProperty
    <3>2. q \in Requests
      BY ThingAssumption DEF Requests
    <3>3. UNCHANGED round
      BY <2>3 DEF UpgradeProperty
    <3> QED BY <1>0, <2>1, <3>1, <3>2, <3>3, OpenedGood, AddressType, ConnectPropertyGood
  <2>4. CASE UpgradeAction(n)
    <3>1. PICK j \in 1 .. NumWsActions, loss \in Losses :
            ConnectAction(Opened(n, loss), n, AddressOf(n, loss), j, loss)
      BY <2>4 DEF UpgradeAction
    <3>2. j \in Actions
      BY ThingAssumption DEF Actions
    <3>3. MayNotify(j, n) \/ UNCHANGED round
      BY <3>1 DEF ConnectAction
    <3>4. round' \in Round \cup {Idle}
      BY <1>0, <3>2, <3>3, MayNotifyType
    <3> QED BY <1>0, <2>1, <3>1, <3>4, OpenedGood, AddressType, ConnectActionGood
  <2>5. CASE UpgradeUnknown(n)
    <3>1. PICK loss \in Losses : Become(Opened(n, loss))
      BY <2>5 DEF UpgradeUnknown
    <3>2. UNCHANGED round
      BY <2>5 DEF UpgradeUnknown
    <3> QED BY <1>0, <2>1, <3>1, <3>2, OpenedGood
  <2> QED BY <1>5, <2>2, <2>3, <2>4, <2>5 DEF Upgrade
<1>6. ASSUME NEW n \in Nums, Text(n)
      PROVE  /\ \E T : Good(T) /\ Become(T)
             /\ round' \in Round \cup {Idle} /\ pos' \in 0 .. AcceptTurn
  <2>1. CASE \E m \in Messages : EventText(n, m)
    BY <1>0, <2>1, EventTextGood, AdvanceType DEF EventText, Receiving
  <2>2. CASE \E m \in Messages : ActionText(n, m)
    BY <1>0, <2>2, ActionTextGood, AdvanceType DEF ActionText, Receiving
  <2>3. CASE InvalidText(n)
    BY <1>0, <2>3, NowGood, DropAtGood, AdvanceType DEF InvalidText, Receiving
  <2> QED BY <1>6, <2>1, <2>2, <2>3 DEF Text
<1>7. ASSUME NEW n \in Nums, Lose(n)
      PROVE  /\ \E T : Good(T) /\ Become(T)
             /\ round' \in Round \cup {Idle} /\ pos' \in 0 .. AcceptTurn
  <2>1. slots[n] \in Slot
    BY <1>0 DEF TypeOK
  <2>2. [slots[n] EXCEPT !.up = FALSE] \in Slot
    BY <2>1 DEF Slot
  <2>3. Good([Now EXCEPT !.slots[n] = [slots[n] EXCEPT !.up = FALSE]])
    BY <2>2, NowGood, SetSlot
  <2>4. Become([Now EXCEPT !.slots[n] = [slots[n] EXCEPT !.up = FALSE]])
    BY <1>7 DEF Lose, Become, Now
  <2> QED BY <1>0, <1>7, <2>3, <2>4 DEF Lose
<1>8. ASSUME NEW action \in Actions, HttpAction(action)
      PROVE  /\ \E T : Good(T) /\ Become(T)
             /\ round' \in Round \cup {Idle} /\ pos' \in 0 .. AcceptTurn
  BY <1>0, <1>1, <1>8, MayNotifyType, AdvanceType DEF HttpAction
<1>9. ASSUME Run
      PROVE  /\ \E T : Good(T) /\ Become(T)
             /\ round' \in Round \cup {Idle} /\ pos' \in 0 .. AcceptTurn
  <2>1. CASE ScanAddress
    BY <1>0, <1>1, <2>1, ScanAddressType DEF ScanAddress
  <2>2. CASE Notify
    BY <1>0, <2>2, NotifyGood DEF Notify
  <2>3. CASE EndRound
    BY <1>0, <2>3, EndRoundGood DEF EndRound
  <2> QED BY <1>9, <2>1, <2>2, <2>3 DEF Run
<1>10. CASE UNCHANGED vars
  BY <1>0, <1>10, BecomeGood, <1>1 DEF vars
<1>11. CASE Next
  <2>1. /\ \E T : Good(T) /\ Become(T)
        /\ round' \in Round \cup {Idle} /\ pos' \in 0 .. AcceptTurn
    BY <1>2, <1>3, <1>4, <1>5, <1>6, <1>7, <1>8, <1>9, <1>11 DEF Next, Visit
  <2> QED BY <2>1, BecomeGood
<1> QED BY <1>10, <1>11

LEMMA InitInv == Init => Inv
<1> SUFFICES ASSUME Init PROVE Inv
  OBVIOUS
<1>1. EmptyRegistry \in Registry(Events) /\ EmptyRegistry \in Registry(Requests)
  BY DEF EmptyRegistry, Registry
<1>2. KeysAgree(EmptyRegistry)
  BY DEF EmptyRegistry, KeysAgree
<1>3. slots \in [Nums -> Slot] /\ view \in [Nums -> View]
  BY Constants DEF Init
<1>4. pos \in 0 .. AcceptTurn
  BY Constants DEF Init, AcceptTurn
<1> QED BY <1>1, <1>2, <1>3, <1>4 DEF Init, Inv, TypeOK, RegistriesAgree

-------------------------------------------------------------------------------
(* Every state the servient can reach is well typed: in particular, a socket*)
(* number read back from a registry names a slot, and the request an        *)
(* address is recorded for is one of ws_requests, so the dispatch of TEXT   *)
(* never leaves the action table.                                           *)
THEOREM TypeCorrect == Spec => []TypeOK
<1>1. Inv => TypeOK
  BY DEF Inv
<1> QED BY InitInv, StepInv, <1>1, PTL DEF Spec

(* The three documents of each registry name the same addresses and agree   *)
(* on the socket of each, whatever connects, texts, disconnects or is lost, *)
(* and in whichever place inside a handler.                                 *)
THEOREM RegistriesCorrect == Spec => []RegistriesAgree
<1>1. Inv => RegistriesAgree
  BY DEF Inv
<1> QED BY InitInv, StepInv, <1>1, PTL DEF Spec
===============================================================================
