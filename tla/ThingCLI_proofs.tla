---------------------------- MODULE ThingCLI_proofs ----------------------------
(***************************************************************************)
(* The tables of a rendered sketch, for every Thing; the dialogue about    *)
(* terms, for every number of answers; and, for every user, the types of a *)
(* session, that what is rendered is what was entered, and that the tables *)
(* and the dialogues keep what was proved of them.                         *)
(*                                                                         *)
(* Sequences that are selected from others are taken by the ranks of their *)
(* places, and what recursive functions compute is proved by induction, in *)
(* the form of a fact about sets of naturals (AllNaturals).                *)
(***************************************************************************)
EXTENDS ThingCLI, FiniteSetTheorems, SequenceTheorems, WellFoundedInduction, TLAPS

(* A Thing, as far as the table goes by it.                                *)
Thing(thing) == Len(thing.props) \in Nat /\ Len(thing.actions) \in Nat

(* What two sequences are when put together.                               *)
LEMMA Joined ==
  ASSUME NEW S, NEW s \in Seq(S), NEW t \in Seq(S)
  PROVE  /\ s \o t \in Seq(S) /\ Len(s \o t) = Len(s) + Len(t)
         /\ \A k \in 1 .. Len(s) : (s \o t)[k] = s[k]
         /\ \A k \in 1 .. Len(t) : (s \o t)[Len(s) + k] = t[k]
<1>1. /\ s \o t \in Seq(S) /\ Len(s \o t) = Len(s) + Len(t)
      /\ \A k \in 1 .. Len(s) + Len(t) :
           (s \o t)[k] = IF k <= Len(s) THEN s[k] ELSE t[k - Len(s)]
  BY ConcatProperties
<1>2. Len(s) \in Nat /\ Len(t) \in Nat
  OBVIOUS
<1>3. ASSUME NEW k \in 1 .. Len(s)  PROVE (s \o t)[k] = s[k]
  BY <1>1, <1>2
<1>4. ASSUME NEW k \in 1 .. Len(t)  PROVE (s \o t)[Len(s) + k] = t[k]
  <2>1. /\ Len(s) + k \in 1 .. Len(s) + Len(t) /\ ~(Len(s) + k <= Len(s))
        /\ (Len(s) + k) - Len(s) = k
    BY <1>2
  <2> QED
    BY <1>1, <2>1
<1> QED
  BY <1>1, <1>3, <1>4

(* The list has four parts; where each stands, and what it holds there.    *)
LEMMA ReqParts ==
  ASSUME NEW thing, Thing(thing), NEW r, r = Req(thing), NEW p, p = P(thing), NEW a, a = A(thing)
  PROVE  /\ DOMAIN r = 1 .. 3 + p + a + a
         /\ r[1] = Route("GET", Root)
         /\ r[2] = Route("GET", Description)
         /\ r[3] = Route("GET", All)
         /\ \A n \in 1 .. p : r[3 + n] = Route("GET", Property(n))
         /\ \A n \in 1 .. a : r[3 + p + n] = Route("POST", Action(n))
         /\ \A n \in 1 .. a : r[3 + p + a + n] = Route("GET", Action(n))
<1>1. p \in Nat /\ a \in Nat
  BY DEF Thing, P, A
<1> DEFINE Fixed == <<Route("GET", Root), Route("GET", Description), Route("GET", All)>>
           Props == [n \in 1 .. p |-> Route("GET", Property(n))]
           Posts == [n \in 1 .. a |-> Route("POST", Action(n))]
           Gets  == [n \in 1 .. a |-> Route("GET", Action(n))]
           S == {Route("GET", Root), Route("GET", Description), Route("GET", All)}
                  \cup {Route("GET", Property(n)) : n \in 1 .. p}
                  \cup {Route("POST", Action(n)) : n \in 1 .. a}
                  \cup {Route("GET", Action(n)) : n \in 1 .. a}
<1>2. Fixed \in Seq(S) /\ Len(Fixed) = 3
  OBVIOUS
<1>3. Props \in Seq(S) /\ Len(Props) = p
  BY <1>1
<1>4. Posts \in Seq(S) /\ Len(Posts) = a
  BY <1>1
<1>5. Gets \in Seq(S) /\ Len(Gets) = a
  BY <1>1
<1>6. r = ((Fixed \o Props) \o Posts) \o Gets
  BY DEF Req
<1>7. /\ Fixed[1] = Route("GET", Root) /\ Fixed[2] = Route("GET", Description)
      /\ Fixed[3] = Route("GET", All)
      /\ \A n \in 1 .. p : Props[n] = Route("GET", Property(n))
      /\ \A n \in 1 .. a : Posts[n] = Route("POST", Action(n))
      /\ \A n \in 1 .. a : Gets[n] = Route("GET", Action(n))
  OBVIOUS
<1> HIDE DEF Fixed, Props, Posts, Gets, S
<1> DEFINE One == Fixed \o Props
           Two == One \o Posts
           Whole == Two \o Gets
<1>8. /\ One \in Seq(S) /\ Len(One) = 3 + p
      /\ \A k \in 1 .. 3 : One[k] = Fixed[k]
      /\ \A k \in 1 .. p : One[3 + k] = Props[k]
  <2>1. Fixed \in Seq(S) /\ Props \in Seq(S)
    BY <1>2, <1>3
  <2>2. /\ Fixed \o Props \in Seq(S) /\ Len(Fixed \o Props) = Len(Fixed) + Len(Props)
        /\ \A k \in 1 .. Len(Fixed) : (Fixed \o Props)[k] = Fixed[k]
        /\ \A k \in 1 .. Len(Props) : (Fixed \o Props)[Len(Fixed) + k] = Props[k]
    BY ONLY Joined, <2>1
  <2> QED
    BY <1>2, <1>3, <2>2
<1> HIDE DEF One
<1>9. /\ Two \in Seq(S) /\ Len(Two) = 3 + p + a
      /\ \A k \in 1 .. 3 + p : Two[k] = One[k]
      /\ \A k \in 1 .. a : Two[3 + p + k] = Posts[k]
  <2>1. One \in Seq(S) /\ Posts \in Seq(S)
    BY <1>4, <1>8
  <2>2. /\ One \o Posts \in Seq(S) /\ Len(One \o Posts) = Len(One) + Len(Posts)
        /\ \A k \in 1 .. Len(One) : (One \o Posts)[k] = One[k]
        /\ \A k \in 1 .. Len(Posts) : (One \o Posts)[Len(One) + k] = Posts[k]
    BY ONLY Joined, <2>1
  <2> QED
    BY <1>4, <1>8, <2>2
<1> HIDE DEF Two
<1>10. /\ DOMAIN Whole = 1 .. 3 + p + a + a
       /\ \A k \in 1 .. 3 + p + a : Whole[k] = Two[k]
       /\ \A k \in 1 .. a : Whole[3 + p + a + k] = Gets[k]
  <2>1. Two \in Seq(S) /\ Gets \in Seq(S)
    BY <1>5, <1>9
  <2>2. /\ Two \o Gets \in Seq(S) /\ Len(Two \o Gets) = Len(Two) + Len(Gets)
        /\ \A k \in 1 .. Len(Two) : (Two \o Gets)[k] = Two[k]
        /\ \A k \in 1 .. Len(Gets) : (Two \o Gets)[Len(Two) + k] = Gets[k]
    BY ONLY Joined, <2>1
  <2>3. Len(Whole) = 3 + p + a + a
    BY <1>1, <1>5, <1>9, <2>2
  <2>4. DOMAIN Whole = 1 .. 3 + p + a + a
    BY <2>2, <2>3
  <2> QED
    BY <1>5, <1>9, <2>2, <2>4
<1>11. r = Whole
  BY <1>6 DEF One, Two
<1> HIDE DEF Whole
<1>12. ASSUME NEW k \in 1 .. 3  PROVE r[k] = Fixed[k]
  <2>1. k \in 1 .. 3 + p /\ k \in 1 .. 3 + p + a
    BY <1>1
  <2> QED
    BY <1>8, <1>9, <1>10, <1>11, <2>1
<1>13. ASSUME NEW k \in 1 .. p  PROVE r[3 + k] = Props[k]
  <2>1. 3 + k \in 1 .. 3 + p /\ 3 + k \in 1 .. 3 + p + a
    BY <1>1
  <2> QED
    BY <1>8, <1>9, <1>10, <1>11, <2>1
<1>14. ASSUME NEW k \in 1 .. a  PROVE r[3 + p + k] = Posts[k]
  <2>1. 3 + p + k \in 1 .. 3 + p + a
    BY <1>1
  <2> QED
    BY <1>9, <1>10, <1>11, <2>1
<1> QED
  BY <1>7, <1>10, <1>11, <1>12, <1>13, <1>14

(* Whatever properties and actions a Thing has, each HTTP request of its   *)
(* sketch is answered by the function of the endpoint it is registered for,*)
(* and a GET of an action by 405 (lines 745-760, 958-960, 1008-1061).      *)
THEOREM HttpTableAlwaysRight ==
  ASSUME NEW thing, Thing(thing)
  PROVE  HttpTableRight(thing)
<1> DEFINE p == P(thing)
           a == A(thing)
           r == Req(thing)
<1>1. p \in Nat /\ a \in Nat
  BY DEF Thing, P, A
<1>2. /\ DOMAIN r = 1 .. 3 + p + a + a
      /\ r[1] = Route("GET", Root)
      /\ r[2] = Route("GET", Description)
      /\ r[3] = Route("GET", All)
      /\ \A n \in 1 .. p : r[3 + n] = Route("GET", Property(n))
      /\ \A n \in 1 .. a : r[3 + p + n] = Route("POST", Action(n))
      /\ \A n \in 1 .. a : r[3 + p + a + n] = Route("GET", Action(n))
  BY ReqParts
<1> SUFFICES ASSUME NEW k \in DOMAIN r
             PROVE  HandleReq(thing, k) =
                      IF r[k].method = "GET" /\ r[k].ep.kind = "action"
                      THEN NotAllowed ELSE r[k].ep
  BY DEF HttpTableRight
<1> HIDE DEF r
<1>3. k \in 1 .. 3 + p + a + a
  BY <1>2
<1>4. CASE k \in {1, 2, 3}
  <2>1. HandleReq(thing, 1) = Root /\ HandleReq(thing, 2) = Description
    BY <1>1 DEF HandleReq
  <2>2. HandleReq(thing, 3) = Request(thing, 3)
    BY <1>1 DEF HandleReq
  <2>3. Request(thing, 3) = All
    BY <1>1 DEF Request
  <2> QED
    BY <1>2, <1>4, <2>1, <2>2, <2>3 DEF Route, Root, Description, All, Endpoint
<1>5. CASE k \in 4 .. 3 + p
  <2>1. k - 3 \in 1 .. p /\ k = 3 + (k - 3)
    BY <1>1, <1>5
  <2>2. r[k] = Route("GET", Property(k - 3))
    BY <1>2, <2>1
  <2>3. HandleReq(thing, k) = Request(thing, k)
    BY <1>1, <1>5 DEF HandleReq
  <2>4. Request(thing, k) = Property(k - 3)
    BY <1>1, <1>5, <2>1 DEF Request
  <2> QED
    BY <2>2, <2>3, <2>4 DEF Route, Property, Endpoint
<1>6. CASE k \in 4 + p .. 3 + p + a
  <2> DEFINE n == k - (3 + p)
  <2>1. n \in 1 .. a /\ k = 3 + p + n
    BY <1>1, <1>6
  <2>2. r[k] = Route("POST", Action(n))
    BY <1>2, <2>1
  <2>3. HandleReq(thing, k) = Request(thing, k)
    BY <1>1, <1>6 DEF HandleReq
  <2>4. Request(thing, k) = Action(n)
    BY <1>1, <1>6, <2>1 DEF Request
  <2> QED
    BY <2>2, <2>3, <2>4 DEF Route, Action, Endpoint
<1>7. CASE k \in 4 + p + a .. 3 + p + a + a
  <2> DEFINE n == k - (3 + p + a)
  <2>1. n \in 1 .. a /\ k = 3 + p + a + n
    BY <1>1, <1>7
  <2>2. r[k] = Route("GET", Action(n))
    BY <1>2, <2>1
  <2>3. HandleReq(thing, k) = NotAllowed
    BY <1>1, <1>7, <2>1 DEF HandleReq
  <2> QED
    BY <2>2, <2>3 DEF Route, Action, Endpoint
<1> QED
  BY <1>1, <1>3, <1>4, <1>5, <1>6, <1>7

(* The least element of a set of naturals, and induction as a fact about   *)
(* such sets.                                                              *)
LEMMA Least ==
  ASSUME NEW S, S \subseteq Nat, S # {}
  PROVE  \E x \in S : \A y \in S : x <= y
<1> DEFINE R == {ss \in Nat \X Nat : ss[1] < ss[2]}
<1>1. IsWellFoundedOn(R, Nat)
  BY NatLessThanWellFounded DEF OpToRel
<1>2. PICK x \in S : \A y \in S : <<y, x>> \notin R
  <2> HIDE DEF R
  <2> QED
    BY <1>1, WFMin
<1>3. ASSUME NEW y \in S, y < x PROVE FALSE
  <2>1. <<y, x>> \in Nat \X Nat
    OBVIOUS
  <2>2. <<y, x>> \in R
    BY <1>3, <2>1
  <2> QED
    BY <1>2, <2>2
<1> QED
  BY <1>3

(* A set of naturals with zero and the successor of each of its members     *)
(* holds them all.                                                          *)
LEMMA AllNaturals ==
  ASSUME NEW T, 0 \in T, \A n \in Nat : n \in T => n + 1 \in T
  PROVE  Nat \subseteq T
<1> DEFINE S == Nat \ T
<1> SUFFICES ASSUME S # {} PROVE FALSE
  OBVIOUS
<1>1. PICK x \in S : \A y \in S : x <= y
  BY Least
<1>2. x # 0 /\ x \in Nat
  BY <1>1
<1>3. x - 1 \in Nat /\ x - 1 \notin S
  BY <1>1, <1>2
<1> QED
  BY <1>2, <1>3

(* Ranks in a finite set of places.                                         *)
Places(T) == T \subseteq Nat \ {0} /\ IsFiniteSet(T)

LEMMA RankBelow ==
  ASSUME NEW T, Places(T)
  PROVE  /\ Cardinality(T) \in Nat
         /\ \A n \in Nat : Rank(T, n) \in Nat /\ IsFiniteSet({m \in T : m < n})
         /\ \A n \in T : Rank(T, n) < Cardinality(T)
<1> USE DEF Places
<1>1. Cardinality(T) \in Nat
  BY FS_CardinalityType
<1>2. ASSUME NEW n
      PROVE  /\ IsFiniteSet({m \in T : m < n}) /\ Rank(T, n) \in Nat
             /\ Rank(T, n) <= Cardinality(T)
             /\ n \in T => Rank(T, n) # Cardinality(T)
  <2> DEFINE L == {m \in T : m < n}
  <2>1. L \subseteq T
    OBVIOUS
  <2>2. n \in T => L # T
    <3>1. n \in T => n \in Nat /\ n \notin L
      OBVIOUS
    <3> QED
      BY <3>1
  <2>3. L = {m \in T : m < n}
    OBVIOUS
  <2> HIDE DEF L
  <2>4. /\ IsFiniteSet(L) /\ Cardinality(L) <= Cardinality(T)
        /\ Cardinality(T) = Cardinality(L) => T = L
    BY <2>1, FS_Subset
  <2>5. Cardinality(L) \in Nat
    BY <2>4, FS_CardinalityType
  <2>6. Rank(T, n) = Cardinality(L)
    BY <2>3 DEF Rank
  <2> QED
    BY <2>2, <2>3, <2>4, <2>5, <2>6
<1>3. ASSUME NEW n \in T PROVE Rank(T, n) < Cardinality(T)
  <2>1. /\ Rank(T, n) \in Nat /\ Rank(T, n) <= Cardinality(T)
        /\ Rank(T, n) # Cardinality(T)
    BY <1>2
  <2> QED
    BY <1>1, <2>1
<1> QED
  BY <1>1, <1>2, <1>3

LEMMA RankGrows ==
  ASSUME NEW T, Places(T), NEW n \in T, NEW p \in Nat, n < p
  PROVE  Rank(T, n) < Rank(T, p)
<1> DEFINE L == {m \in T : m < n}
           U == {m \in T : m < p}
<1>1. \A m \in T : m \in Nat
  BY DEF Places
<1>2. L \subseteq U /\ n \in U /\ n \notin L
  BY <1>1
<1>3. IsFiniteSet(L) /\ IsFiniteSet(U)
  BY <1>1, RankBelow
<1>4. Rank(T, n) = Cardinality(L) /\ Rank(T, p) = Cardinality(U)
  BY DEF Rank
<1> HIDE DEF L, U
<1>5. Cardinality(L) <= Cardinality(U) /\ Cardinality(L) # Cardinality(U)
  BY <1>2, <1>3, FS_Subset
<1>6. Cardinality(L) \in Nat /\ Cardinality(U) \in Nat
  BY <1>3, FS_CardinalityType
<1> QED
  BY <1>4, <1>5, <1>6

(* Every number below the cardinality is the rank of a place.               *)
LEMMA RankTaken ==
  ASSUME NEW T, Places(T), NEW j \in Nat, j < Cardinality(T)
  PROVE  \E n \in T : Rank(T, n) = j
<1> DEFINE Taken(i) == i < Cardinality(T) => \E n \in T : Rank(T, n) = i
           G == {i \in Nat : Taken(i)}
<1>1. /\ Cardinality(T) \in Nat /\ IsFiniteSet(T) /\ T \subseteq Nat
      /\ \A m \in T : m \in Nat
  BY RankBelow DEF Places
<1>2. Taken(0)
  <2> SUFFICES ASSUME 0 < Cardinality(T) PROVE \E n \in T : Rank(T, n) = 0
    OBVIOUS
  <2>1. T # {}
    BY FS_EmptySet
  <2>2. PICK n \in T : \A y \in T : n <= y
    BY <1>1, <2>1, Least
  <2>3. {m \in T : m < n} = {}
    <3>1. ASSUME NEW m \in T PROVE ~(m < n)
      <4>1. m \in Nat /\ n \in Nat /\ n <= m
        BY <1>1, <2>2
      <4> QED
        BY <4>1
    <3> QED
      BY <3>1
  <2>4. Rank(T, n) = 0
    BY <2>3, FS_EmptySet DEF Rank
  <2> QED
    BY <2>4
<1>3. ASSUME NEW i \in Nat, Taken(i) PROVE Taken(i + 1)
  <2> SUFFICES ASSUME i + 1 < Cardinality(T) PROVE \E n \in T : Rank(T, n) = i + 1
    OBVIOUS
  <2>1. PICK n \in T : Rank(T, n) = i
    BY <1>1, <1>3
  <2> DEFINE L == {m \in T : m < n}
             U == L \cup {n}
             D == T \ U
  <2>2. IsFiniteSet(L) /\ n \notin L /\ Cardinality(L) = i
    BY <1>1, <2>1, RankBelow DEF Rank
  <2>3. IsFiniteSet(U) /\ Cardinality(U) = i + 1
    <3> HIDE DEF L
    <3> QED
      BY <2>2, FS_AddElement
  <2>4. D # {} /\ D \subseteq Nat
    <3>1. U # T
      <4> HIDE DEF U
      <4> QED
        BY <1>1, <2>3
    <3>2. U \subseteq T
      OBVIOUS
    <3> QED
      BY <1>1, <3>1, <3>2
  <2>5. PICK p \in D : \A y \in D : p <= y
    <3> HIDE DEF D
    <3> QED
      BY <2>4, Least
  <2>6. {m \in T : m < p} = U
    <3>1. p \in T /\ p \in Nat /\ n \in Nat /\ ~(p < n) /\ p # n
      BY <1>1
    <3>2. ASSUME NEW m \in T, m < p PROVE m \in U
      <4>1. m \in Nat /\ ~(p <= m)
        BY <1>1, <3>1, <3>2
      <4>2. m \notin D
        BY <2>5, <4>1
      <4> QED
        BY <4>2
    <3>3. ASSUME NEW m \in U PROVE m \in T /\ m < p
      BY <1>1, <3>1
    <3> QED
      BY <3>2, <3>3
  <2>7. Rank(T, p) = i + 1 /\ p \in T
    BY <2>3, <2>6 DEF Rank
  <2> QED
    BY <2>7
<1> HIDE DEF Taken
<1>4. 0 \in G /\ \A i \in Nat : i \in G => i + 1 \in G
  BY <1>2, <1>3
<1>5. j \in G
  <2> HIDE DEF G
  <2> QED
    BY <1>4, AllNaturals
<1>6. Taken(j)
  BY <1>5
<1> QED
  BY <1>6 DEF Taken

LEMMA Placed ==
  ASSUME NEW T, Places(T), NEW k \in 1 .. Cardinality(T)
  PROVE  Place(T, k) \in T /\ Rank(T, Place(T, k)) = k - 1
<1>1. Cardinality(T) \in Nat
  BY RankBelow
<1>2. k - 1 \in Nat /\ k - 1 < Cardinality(T)
  BY <1>1
<1>3. \E n \in T : Rank(T, n) = k - 1
  BY <1>2, RankTaken
<1> QED
  BY <1>3 DEF Place

(* The place of a rank is the only one of that rank.                        *)
LEMMA PlaceOf ==
  ASSUME NEW T, Places(T), NEW n \in T
  PROVE  /\ Rank(T, n) + 1 \in 1 .. Cardinality(T)
         /\ Place(T, Rank(T, n) + 1) = n
<1>1. \A m \in T : m \in Nat
  BY DEF Places
<1>2. /\ Rank(T, n) \in Nat /\ Cardinality(T) \in Nat
      /\ Rank(T, n) < Cardinality(T)
  BY <1>1, RankBelow
<1>3. PICK k : k = Rank(T, n) + 1
  OBVIOUS
<1>4. k \in 1 .. Cardinality(T) /\ k - 1 = Rank(T, n)
  BY <1>2, <1>3
<1>5. PICK p : p = Place(T, k)
  OBVIOUS
<1>6. p \in T /\ Rank(T, p) = Rank(T, n)
  BY <1>4, <1>5, Placed
<1>7. p \in Nat /\ n \in Nat
  BY <1>1, <1>6
<1>8. ~(p < n) /\ ~(n < p)
  BY <1>2, <1>6, <1>7, RankGrows
<1>9. p = n
  BY <1>7, <1>8
<1> QED
  BY <1>3, <1>4, <1>5, <1>9

(* A rank says whether all places before are in the set.                    *)
LEMMA RankFull ==
  ASSUME NEW T, Places(T), NEW n \in T
  PROVE  Rank(T, n) = n - 1 <=> \A m \in 1 .. n - 1 : m \in T
<1> DEFINE L == {m \in T : m < n}
           I == 1 .. n - 1
<1>1. n \in Nat /\ n > 0 /\ n - 1 \in Nat /\ 1 \in Int /\ n - 1 \in Int
  BY DEF Places
<1>2. IsFiniteSet(I) /\ Cardinality(I) = n - 1
  <2>1. Cardinality(I) = IF 1 > n - 1 THEN 0 ELSE (n - 1) - 1 + 1
    BY <1>1, FS_Interval
  <2>2. IsFiniteSet(I)
    BY <1>1, FS_Interval
  <2> QED
    BY <1>1, <2>1, <2>2
<1>3. L \subseteq I /\ (L = I <=> \A m \in 1 .. n - 1 : m \in T)
  <2>1. \A m \in T : m \in Nat /\ m > 0
    BY DEF Places
  <2>2. \A m \in Nat : m \in I <=> m > 0 /\ m < n
    BY <1>1
  <2>3. L \subseteq I
    BY <2>1, <2>2
  <2>4. \A m \in I : m \in T <=> m \in L
    BY <1>1
  <2> QED
    BY <2>3, <2>4
<1>4. Rank(T, n) = Cardinality(L)
  BY DEF Rank
<1> HIDE DEF L, I
<1>5. Cardinality(L) = Cardinality(I) <=> L = I
  BY <1>2, <1>3, FS_Subset
<1> QED
  BY <1>2, <1>3, <1>4, <1>5

LEMMA SomePlaces ==
  ASSUME NEW S, NEW s \in Seq(S), NEW T, T \subseteq DOMAIN s
  PROVE  Places(T) /\ Len(s) \in Nat /\ DOMAIN s = 1 .. Len(s)
         /\ Places(DOMAIN s) /\ Cardinality(DOMAIN s) = Len(s)
<1>1. Len(s) \in Nat /\ DOMAIN s = 1 .. Len(s) /\ 1 \in Int /\ Len(s) \in Int
  OBVIOUS
<1>2. PICK I : I = 1 .. Len(s)
  OBVIOUS
<1>3. /\ IsFiniteSet(1 .. Len(s))
      /\ Cardinality(1 .. Len(s)) = IF 1 > Len(s) THEN 0 ELSE Len(s) - 1 + 1
  BY <1>1, FS_Interval
<1>4. IsFiniteSet(I) /\ Cardinality(I) = Len(s) /\ I \subseteq Nat \ {0}
  BY <1>1, <1>2, <1>3
<1>5. T \subseteq I
  BY <1>1, <1>2
<1>6. IsFiniteSet(T)
  BY <1>4, <1>5, FS_Subset
<1> QED
  BY <1>1, <1>2, <1>4, <1>5, <1>6 DEF Places

(* All places: the sequence itself.                                         *)
LEMMA SelectedAll ==
  ASSUME NEW S, NEW s \in Seq(S)
  PROVE  Selected(s, DOMAIN s) = s
<1>1. PICK T : T = DOMAIN s
  OBVIOUS
<1>2. T = 1 .. Len(s) /\ Len(s) \in Nat /\ Places(T) /\ Cardinality(T) = Len(s)
  BY <1>1, SomePlaces
<1>3. ASSUME NEW k \in T PROVE Place(T, k) = k
  <2>1. \A m \in 1 .. k - 1 : m \in T
    BY <1>2
  <2>2. Rank(T, k) = k - 1
    BY <1>2, <2>1, RankFull
  <2>3. Place(T, Rank(T, k) + 1) = k
    BY <1>2, PlaceOf
  <2>4. (k - 1) + 1 = k
    BY <1>2
  <2> QED
    BY <2>2, <2>3, <2>4
<1>4. Selected(s, T) = [k \in T |-> s[Place(T, k)]]
  BY <1>2 DEF Selected
<1>5. s = [k \in T |-> s[k]]
  BY <1>1
<1> QED
  BY <1>1, <1>3, <1>4, <1>5

(* Every element of the selection is one of the places.                     *)
LEMMA SelectedSeq ==
  ASSUME NEW S, NEW s \in Seq(S), NEW T, T \subseteq DOMAIN s
  PROVE  /\ Selected(s, T) \in Seq(S) /\ Len(Selected(s, T)) = Cardinality(T)
         /\ Places(T) /\ Cardinality(T) \in Nat
         /\ \A k \in 1 .. Cardinality(T) : /\ Place(T, k) \in T
                                           /\ Rank(T, Place(T, k)) = k - 1
                                           /\ Selected(s, T)[k] = s[Place(T, k)]
<1>1. Places(T) /\ Cardinality(T) \in Nat
  BY SomePlaces, RankBelow
<1>2. \A k \in 1 .. Cardinality(T) : Place(T, k) \in T /\ Rank(T, Place(T, k)) = k - 1
  BY <1>1, Placed
<1>3. \A n \in T : s[n] \in S
  OBVIOUS
<1>4. Selected(s, T) \in [1 .. Cardinality(T) -> S]
  BY <1>2, <1>3 DEF Selected
<1>5. PICK r : r = Selected(s, T)
  OBVIOUS
<1>6. r \in Seq(S) /\ Len(r) = Cardinality(T)
  BY <1>1, <1>4, <1>5, SeqDef
<1>7. \A k \in 1 .. Cardinality(T) : Selected(s, T)[k] = s[Place(T, k)]
  BY DEF Selected
<1> QED
  BY <1>1, <1>2, <1>5, <1>6, <1>7

-------------------------------------------------------------------------------
(* The tables of WebSocket requests.                                       *)

LEMMA FirstIn ==
  ASSUME NEW S, S \subseteq Nat, S # {}
  PROVE  First(S) \in S
<1>1. \E x \in S : \A y \in S : x <= y
  BY Least
<1> QED
  BY <1>1 DEF First

(* What an endpoint is called and how many forms it has.                   *)
LEMMA OfEndpoint ==
  ASSUME NEW thing
  PROVE  /\ Forms(thing, All) = thing.forms
         /\ \A n : Forms(thing, Property(n)) = thing.props[n].forms
         /\ \A n : /\ Forms(thing, Action(n)) = thing.actions[n].forms
                   /\ NameOf(thing, Action(n)) = thing.actions[n].name
         /\ \A n, m : Action(n) = Action(m) => n = m
  BY DEF Forms, NameOf, All, Property, Action, Endpoint

(* A table of the places of s that have a WebSocket form.                  *)
Collects(table, s, T) ==
  /\ Places(T) /\ Cardinality(T) \in Nat /\ DOMAIN table = 1 .. Cardinality(T)
  /\ \A k \in 1 .. Cardinality(T) :
       /\ Place(T, k) \in T /\ Rank(T, Place(T, k)) = k - 1
       /\ table[k] = s[Place(T, k)]
  /\ \A n \in T : /\ Rank(T, n) + 1 \in 1 .. Cardinality(T)
                  /\ table[Rank(T, n) + 1] = s[n]

LEMMA Collected ==
  ASSUME NEW thing, NEW S, NEW s \in Seq(S),
         NEW T, \A n : n \in T <=> n \in DOMAIN s /\ Forms(thing, s[n]) = 2,
         NEW table, table = WithSocket(thing, s)
  PROVE  Collects(table, s, T)
<1>1. T \subseteq DOMAIN s /\ table = Selected(s, T)
  <2>1. T = {n \in DOMAIN s : Forms(thing, s[n]) = 2}
    OBVIOUS
  <2> QED
    BY <2>1 DEF WithSocket
<1>2. /\ Places(T) /\ Cardinality(T) \in Nat
      /\ \A k \in 1 .. Cardinality(T) :
           /\ Place(T, k) \in T /\ Rank(T, Place(T, k)) = k - 1
           /\ table[k] = s[Place(T, k)]
  BY <1>1, SelectedSeq
<1>3. DOMAIN table = 1 .. Cardinality(T)
  BY <1>1 DEF Selected
<1>4. \A n \in T : Rank(T, n) + 1 \in 1 .. Cardinality(T) /\ Place(T, Rank(T, n) + 1) = n
  BY <1>2, PlaceOf
<1>5. ASSUME NEW n \in T  PROVE table[Rank(T, n) + 1] = s[n]
  <2>1. PICK k : k = Rank(T, n) + 1
    OBVIOUS
  <2>2. k \in 1 .. Cardinality(T) /\ Place(T, k) = n
    BY <1>4, <2>1
  <2> QED
    BY <1>2, <2>1, <2>2
<1> QED
  BY <1>2, <1>3, <1>4, <1>5 DEF Collects

(* The actions with a WebSocket form.                                      *)
SocketActions(thing) == {a \in 1 .. A(thing) : thing.actions[a].forms = 2}

LEMMA WsActionsHold ==
  ASSUME NEW thing, Thing(thing), NEW T, T = SocketActions(thing),
         NEW table, table = WsActions(thing)
  PROVE  /\ Places(T) /\ T \subseteq 1 .. A(thing) /\ DOMAIN table = 1 .. Cardinality(T)
         /\ Cardinality(T) \in Nat /\ Cardinality(T) <= A(thing)
         /\ \A k \in 1 .. Cardinality(T) :
              /\ Place(T, k) \in T /\ Rank(T, Place(T, k)) = k - 1
              /\ table[k] = Action(Place(T, k))
         /\ \A n \in T : /\ Rank(T, n) + 1 \in 1 .. Cardinality(T)
                         /\ table[Rank(T, n) + 1] = Action(n)
<1>1. A(thing) \in Nat
  BY DEF Thing, A
<1>0. PICK S : S = {Action(a) : a \in 1 .. A(thing)}
  OBVIOUS
<1>2. PICK s : s = [a \in 1 .. A(thing) |-> Action(a)]
  OBVIOUS
<1>3. s \in Seq(S) /\ DOMAIN s = 1 .. A(thing) /\ \A a \in 1 .. A(thing) : s[a] = Action(a)
  BY <1>0, <1>1, <1>2
<1>4. s \in Seq(S) /\ \A n : n \in T <=> n \in DOMAIN s /\ Forms(thing, s[n]) = 2
  BY <1>3, OfEndpoint DEF SocketActions
<1>5. table = WithSocket(thing, s)
  BY <1>2 DEF WsActions
<1>6. Collects(table, s, T)
  BY ONLY <1>4, <1>5, Collected
<1>7. T \subseteq 1 .. A(thing)
  BY DEF SocketActions
<1>8. Cardinality(T) <= A(thing)
  <2>1. IsFiniteSet(1 .. A(thing)) /\ Cardinality(1 .. A(thing)) = A(thing)
    <3>1. /\ 1 \in Int /\ A(thing) \in Int /\ 1 .. A(thing) = DOMAIN s
          /\ A(thing) = IF 1 > A(thing) THEN 0 ELSE A(thing) - 1 + 1
      BY <1>1, <1>3
    <3> QED
      BY <3>1, FS_Interval
  <2> QED
    BY <1>7, <2>1, FS_Subset
<1> QED
  BY <1>3, <1>6, <1>7, <1>8 DEF Collects

(* The endpoints that are not actions.                                     *)
Readable(thing) == {All} \cup {Property(p) : p \in 1 .. P(thing)}

LEMMA WsPropertiesHold ==
  ASSUME NEW thing, Thing(thing), NEW table, table = WsProperties(thing)
  PROVE  /\ DOMAIN table \subseteq Nat
         /\ \A k \in DOMAIN table : table[k] \in Readable(thing) /\ Forms(thing, table[k]) = 2
         /\ \A ep \in Readable(thing) :
              Forms(thing, ep) = 2 => \E k \in DOMAIN table : table[k] = ep
<1>1. PICK p : p = P(thing) /\ p \in Nat
  BY DEF Thing, P
<1>0. PICK S : S = Readable(thing)
  OBVIOUS
<1>2. PICK s : s = <<All>> \o [n \in 1 .. p |-> Property(n)]
  OBVIOUS
<1>3. /\ s \in Seq(S) /\ DOMAIN s = 1 .. 1 + p /\ s[1] = All
      /\ \A n \in 1 .. p : s[1 + n] = Property(n)
  <2>1. PICK one : one = <<All>>
    OBVIOUS
  <2>2. PICK props : props = [n \in 1 .. p |-> Property(n)]
    OBVIOUS
  <2>3. one \in Seq(S) /\ Len(one) = 1 /\ one[1] = All
    BY <1>0, <2>1 DEF Readable
  <2>4. /\ props \in Seq(S) /\ Len(props) = p
        /\ \A n \in 1 .. p : props[n] = Property(n)
    BY <1>0, <1>1, <2>2 DEF Readable
  <2>5. /\ one \o props \in Seq(S) /\ Len(one \o props) = Len(one) + Len(props)
        /\ \A k \in 1 .. Len(one) : (one \o props)[k] = one[k]
        /\ \A k \in 1 .. Len(props) : (one \o props)[Len(one) + k] = props[k]
    <3>1. one \in Seq(S) /\ props \in Seq(S)
      BY <2>3, <2>4
    <3> QED
      BY ONLY <3>1, Joined
  <2>6. s = one \o props
    BY <1>2, <2>1, <2>2
  <2> QED
    BY <1>1, <2>3, <2>4, <2>5, <2>6
<1>4. s \in Seq(S)
  BY <1>3
<1>5. PICK T : \A n : n \in T <=> n \in DOMAIN s /\ Forms(thing, s[n]) = 2
  <2>1. PICK T : T = {n \in DOMAIN s : Forms(thing, s[n]) = 2}
    OBVIOUS
  <2> QED
    BY <2>1
<1>6. table = WithSocket(thing, s)
  BY <1>1, <1>2 DEF WsProperties
<1>7. /\ Cardinality(T) \in Nat /\ DOMAIN table = 1 .. Cardinality(T)
      /\ \A k \in 1 .. Cardinality(T) : Place(T, k) \in T /\ table[k] = s[Place(T, k)]
      /\ \A n \in T : /\ Rank(T, n) + 1 \in 1 .. Cardinality(T)
                      /\ table[Rank(T, n) + 1] = s[n]
  <2>1. Collects(table, s, T)
    BY ONLY <1>5, <1>4, <1>6, Collected
  <2> QED
    BY <2>1 DEF Collects
<1>8. \A n \in T : s[n] \in S /\ Forms(thing, s[n]) = 2
  BY <1>4, <1>5
<1>9. ASSUME NEW ep \in S, Forms(thing, ep) = 2  PROVE \E n \in T : s[n] = ep
  <2>1. CASE ep = All
    BY <1>0, <1>1, <1>3, <1>5, <1>9, <2>1
  <2>2. CASE ep # All
    <3>1. PICK n \in 1 .. p : ep = Property(n)
      BY <1>0, <1>1, <2>2 DEF Readable
    <3>2. 1 + n \in DOMAIN s /\ s[1 + n] = ep
      BY <1>1, <1>3, <3>1
    <3> QED
      BY <1>5, <1>9, <3>2
  <2> QED
    BY <2>1, <2>2
<1>10. DOMAIN table \subseteq Nat
  BY <1>7
<1>11. ASSUME NEW k \in DOMAIN table  PROVE table[k] \in S /\ Forms(thing, table[k]) = 2
  BY <1>7, <1>8
<1>12. ASSUME NEW ep \in S, Forms(thing, ep) = 2
       PROVE  \E k \in DOMAIN table : table[k] = ep
  BY <1>7, <1>9, <1>12
<1> QED
  BY <1>0, <1>10, <1>11, <1>12

(* An action with a WebSocket form is found at its rank, whatever comes    *)
(* before it, since no other action has its name.                          *)
LEMMA ActionFound ==
  ASSUME NEW thing, Thing(thing), IsWS(thing),
         \A a, b \in 1 .. A(thing) : thing.actions[a].name = thing.actions[b].name => a = b,
         NEW T, T = SocketActions(thing), NEW b \in T
  PROVE  WsAnswer(thing, Action(b)) = Action(Rank(T, b) + 1) /\ Rank(T, b) \in Nat
<1>1. PICK table : table = WsActions(thing)
  OBVIOUS
<1>2. PICK k : k = Rank(T, b) + 1
  OBVIOUS
<1>3. /\ Places(T) /\ T \subseteq 1 .. A(thing) /\ DOMAIN table = 1 .. Cardinality(T)
      /\ Cardinality(T) \in Nat /\ Cardinality(T) <= A(thing)
      /\ \A i \in 1 .. Cardinality(T) :
           /\ Place(T, i) \in T /\ Rank(T, Place(T, i)) = i - 1
           /\ table[i] = Action(Place(T, i))
      /\ k \in 1 .. Cardinality(T) /\ table[k] = Action(b)
  BY <1>1, <1>2, WsActionsHold
<1>4. A(thing) \in Nat /\ P(thing) \in Nat
  BY DEF Thing, A, P
<1>5. ASSUME NEW i \in 1 .. Cardinality(T),
             NameOf(thing, table[i]) = NameOf(thing, Action(b))
      PROVE  i = k
  <2>1. PICK a \in T : a = Place(T, i)
    BY <1>3
  <2>2. NameOf(thing, Action(a)) = NameOf(thing, Action(b)) /\ Rank(T, a) = i - 1
    BY <1>3, <1>5, <2>1
  <2>3. thing.actions[a].name = thing.actions[b].name
    BY <2>2, OfEndpoint
  <2>4. a \in 1 .. A(thing) /\ b \in 1 .. A(thing)
    BY <1>3
  <2>5. a = b
    BY <2>3, <2>4
  <2> QED
    BY <1>2, <1>3, <2>2, <2>5
<1>6. Named(thing, table, Action(b)) = {k}
  BY <1>3, <1>5 DEF Named
<1>7. First({k}) = k
  BY <1>3 DEF First
<1>8. WsAnswer(thing, Action(b)) = Request(thing, 3 + P(thing) + k)
  BY <1>1, <1>6, <1>7 DEF WsAnswer
<1>9. Request(thing, 3 + P(thing) + k) = Action(k)
  <2>1. PICK n : n = 3 + P(thing) + k
    OBVIOUS
  <2>2. /\ n # 3 /\ n - 3 \notin 1 .. P(thing)
        /\ n - (3 + P(thing)) = k /\ k \in 1 .. A(thing)
    BY <1>3, <1>4, <2>1
  <2> QED
    BY <2>1, <2>2 DEF Request
<1>10. Rank(T, b) \in Nat
  <2>1. b \in Nat
    BY <1>3, <1>4
  <2> QED
    BY <1>3, <2>1, RankBelow
<1> QED
  BY <1>2, <1>8, <1>9, <1>10

(* What is not an action is found at its name, if no action with a         *)
(* WebSocket form has it.                                                  *)
LEMMA ReadableFound ==
  ASSUME NEW thing, Thing(thing), IsWS(thing),
         \A ep, other \in Described(thing) :
           ep # other => NameOf(thing, ep) # NameOf(thing, other),
         NEW ep \in Readable(thing), Forms(thing, ep) = 2
  PROVE  WsAnswer(thing, ep) = ep
<1>1. PICK table : table = WsActions(thing)
  OBVIOUS
<1>2. PICK T : T = SocketActions(thing)
  OBVIOUS
<1>3. /\ DOMAIN table = 1 .. Cardinality(T)
      /\ \A i \in DOMAIN table : Place(T, i) \in T /\ table[i] = Action(Place(T, i))
  BY <1>1, <1>2, WsActionsHold
<1>4. \A a \in T : Action(a) \in Described(thing)
  BY <1>2, OfEndpoint DEF SocketActions, Described
<1>5. ep \in Described(thing)
  BY DEF Readable, Described
<1>6. \A a : ep # Action(a)
  BY DEF Readable, All, Property, Action, Endpoint
<1>7. Named(thing, table, ep) = {}
  <2>1. ASSUME NEW i \in DOMAIN table  PROVE NameOf(thing, table[i]) # NameOf(thing, ep)
    BY <1>3, <1>4, <1>5, <1>6
  <2> QED
    BY <2>1 DEF Named
<1>8. PICK values : values = WsProperties(thing)
  OBVIOUS
<1>9. /\ DOMAIN values \subseteq Nat
      /\ \A k \in DOMAIN values : values[k] \in Readable(thing) /\ Forms(thing, values[k]) = 2
      /\ \E k \in DOMAIN values : values[k] = ep
  BY <1>8, WsPropertiesHold
<1>10. \A k \in DOMAIN values : values[k] \in Described(thing)
  BY <1>9 DEF Readable, Described
<1>11. PICK S : S = Named(thing, values, ep)
  OBVIOUS
<1>12. S \subseteq DOMAIN values /\ S # {} /\ \A k \in S : values[k] = ep
  BY <1>5, <1>9, <1>10, <1>11 DEF Named
<1>13. First(S) \in S
  BY <1>9, <1>12, FirstIn
<1>14. WsAnswer(thing, ep) = values[First(S)]
  BY <1>1, <1>7, <1>8, <1>11 DEF WsAnswer
<1> QED
  BY <1>12, <1>13, <1>14

(* Whatever properties, actions and forms a Thing has, its WebSocket       *)
(* requests are answered by the functions of their endpoints exactly if it *)
(* is orderly (lines 309-327, 761-816, 1955-2024, 2255-2287).              *)
THEOREM WsTableRightIffOrderly ==
  ASSUME NEW thing, Thing(thing),
         \A a, b \in 1 .. A(thing) : thing.actions[a].name = thing.actions[b].name => a = b
  PROVE  WsTableRight(thing) <=> Orderly(thing)
<1>1. PICK T : T = SocketActions(thing)
  OBVIOUS
<1>2. Places(T) /\ T \subseteq 1 .. A(thing)
  BY <1>1, WsActionsHold
<1>3. \A a \in T : Action(a) \in Described(thing)
  BY <1>1, OfEndpoint DEF SocketActions, Described
<1>4. A(thing) \in Nat
  BY DEF Thing, A
<1>5. ASSUME Described(thing) = {}  PROVE WsTableRight(thing) /\ Orderly(thing)
  <2>1. \A b \in 1 .. A(thing) : thing.actions[b].forms # 2
    BY <1>1, <1>3, <1>5 DEF SocketActions
  <2> QED
    BY <1>5, <2>1 DEF WsTableRight, Orderly
<1>6. ASSUME Described(thing) # {}, ~IsWS(thing)
      PROVE  ~WsTableRight(thing) /\ ~Orderly(thing)
  <2>1. PICK ep : ep \in Described(thing)
    BY <1>6
  <2>2. ep # Nothing
    BY <2>1 DEF Described, Nothing, All, Property, Action, Endpoint
  <2>3. WsAnswer(thing, ep) = Nothing
    BY <1>6 DEF WsAnswer
  <2> QED
    BY <1>6, <2>1, <2>2, <2>3 DEF WsTableRight, Orderly
<1>7. ASSUME IsWS(thing), Orderly(thing)  PROVE WsTableRight(thing)
  <2> SUFFICES ASSUME NEW ep \in Described(thing)  PROVE WsAnswer(thing, ep) = ep
    BY DEF WsTableRight
  <2>1. CASE ep \in Readable(thing)
    <3>1. Forms(thing, ep) = 2
      BY DEF Described
    <3>2. \A e, other \in Described(thing) :
            e # other => NameOf(thing, e) # NameOf(thing, other)
      BY <1>7 DEF Orderly
    <3> QED
      BY <1>7, <2>1, <3>1, <3>2, ReadableFound
  <2>2. CASE ep \notin Readable(thing)
    <3>1. PICK b \in 1 .. A(thing) : ep = Action(b) /\ Forms(thing, ep) = 2
      BY <2>2 DEF Described, Readable
    <3>2. b \in T
      BY <1>1, <3>1, OfEndpoint DEF SocketActions
    <3>3. \A a \in 1 .. b - 1 : a \in T
      <4>1. ASSUME NEW a \in 1 .. b - 1  PROVE a \in 1 .. A(thing) /\ a < b
        BY <1>4
      <4>2. thing.actions[b].forms = 2
        BY <1>1, <3>2 DEF SocketActions
      <4>3. \A a, c \in 1 .. A(thing) :
              a < c /\ thing.actions[c].forms = 2 => thing.actions[a].forms = 2
        BY <1>7 DEF Orderly
      <4> QED
        BY <1>1, <4>1, <4>2, <4>3 DEF SocketActions
    <3>4. Rank(T, b) = b - 1
      BY <1>2, <3>2, <3>3, RankFull
    <3>5. WsAnswer(thing, Action(b)) = Action(Rank(T, b) + 1)
      BY <1>1, <1>7, <3>2, ActionFound
    <3>6. Rank(T, b) + 1 = b
      BY <3>4
    <3> QED
      BY <3>1, <3>5, <3>6
  <2> QED
    BY <2>1, <2>2
<1>8. ASSUME IsWS(thing), WsTableRight(thing)  PROVE Orderly(thing)
  <2>1. ASSUME NEW a \in 1 .. A(thing), NEW b \in 1 .. A(thing),
               a < b, thing.actions[b].forms = 2
        PROVE  thing.actions[a].forms = 2
    <3>1. b \in T
      BY <1>1, <2>1 DEF SocketActions
    <3>2. WsAnswer(thing, Action(b)) = Action(Rank(T, b) + 1) /\ Rank(T, b) \in Nat
      BY <1>1, <1>8, <3>1, ActionFound
    <3>3. WsAnswer(thing, Action(b)) = Action(b)
      BY <1>3, <1>8, <3>1 DEF WsTableRight
    <3>4. Rank(T, b) + 1 = b
      BY <3>2, <3>3, OfEndpoint
    <3>5. Rank(T, b) = b - 1
      BY <3>2, <3>4
    <3>6. \A m \in 1 .. b - 1 : m \in T
      BY <1>2, <3>1, <3>5, RankFull
    <3>7. a \in 1 .. b - 1
      BY <2>1
    <3> QED
      BY <1>1, <3>6, <3>7 DEF SocketActions
  <2>2. ASSUME NEW ep \in Described(thing), NEW other \in Described(thing),
               NameOf(thing, ep) = NameOf(thing, other)
        PROVE  ep = other
    <3>1. \A table : Named(thing, table, ep) = Named(thing, table, other)
      BY <2>2 DEF Named
    <3>2. WsAnswer(thing, ep) = WsAnswer(thing, other)
      BY <3>1 DEF WsAnswer
    <3> QED
      BY <1>8, <3>2 DEF WsTableRight
  <2>3. \A a, b \in 1 .. A(thing) :
          a < b /\ thing.actions[b].forms = 2 => thing.actions[a].forms = 2
    BY <2>1
  <2> QED
    BY <1>8, <2>2, <2>3 DEF Orderly
<1> QED
  BY <1>5, <1>6, <1>7, <1>8

-------------------------------------------------------------------------------
(* Inputs and outputs of an action, as they are recorded.                  *)

LEMMA OverTyped ==
  /\ \A old, new \in Inputs : /\ Over(old, new) \in Inputs
                              /\ Over(old, new).name = old.name
  /\ \A old, new \in Outputs : Over(old, new) \in Outputs
  /\ \A new \in Inputs : Over(Input(new.name, "none", "plain"), new) = new
  /\ \A n \in Names : Input(n, "none", "plain") \in Inputs
<1>1. ASSUME NEW old \in Inputs, NEW new \in Inputs
      PROVE  Over(old, new) \in Inputs /\ Over(old, new).name = old.name
  BY DEF Over, Inputs
<1>2. ASSUME NEW old \in Outputs, NEW new \in Outputs  PROVE Over(old, new) \in Outputs
  BY DEF Over, Outputs
<1>3. ASSUME NEW new \in Inputs
      PROVE  Over(Input(new.name, "none", "plain"), new) = new
  <2> DEFINE old == [name |-> new.name, type |-> "none", refined |-> FALSE]
  <2>1. Input(new.name, "none", "plain") = old
    BY Zenon DEF Input
  <2>2. CASE new.refined
    <3>1. Over(old, new) = [name |-> new.name, type |-> new.type, refined |-> TRUE]
      BY <2>2 DEF Over
    <3>2. new = [name |-> new.name, type |-> new.type, refined |-> TRUE]
      BY <2>2 DEF Inputs
    <3> QED
      BY <2>1, <3>1, <3>2
  <2>3. CASE ~new.refined
    <3>1. Over(old, new) = [name |-> new.name, type |-> new.type, refined |-> FALSE]
      BY <2>3 DEF Over
    <3>2. new = [name |-> new.name, type |-> new.type, refined |-> FALSE]
      BY <2>3 DEF Inputs
    <3> QED
      BY <2>1, <3>1, <3>2
  <2> QED
    BY <2>2, <2>3
<1>4. \A n \in Names : Input(n, "none", "plain") \in Inputs
  BY DEF Input, Inputs
<1> QED
  BY <1>1, <1>2, <1>3, <1>4

(* The list that is rendered, from an old list and new inputs.             *)
LEMMA ListedTyped ==
  ASSUME NEW list \in Seq(Inputs), NEW inputs \in Seq(Inputs)
  PROVE  /\ Listed(list, inputs) \in Seq(Inputs)
         /\ list = << >> => Listed(list, inputs) = inputs
<1>1. PICK bare : bare = [m \in DOMAIN inputs |-> Input(inputs[m].name, "none", "plain")]
  OBVIOUS
<1>2. /\ DOMAIN inputs = 1 .. Len(inputs) /\ Len(inputs) \in Nat /\ Len(list) \in Nat
      /\ \A m \in DOMAIN inputs : inputs[m] \in Inputs /\ inputs[m].name \in Names
  <2>1. /\ DOMAIN inputs = 1 .. Len(inputs) /\ Len(inputs) \in Nat /\ Len(list) \in Nat
        /\ \A m \in DOMAIN inputs : inputs[m] \in Inputs
    OBVIOUS
  <2>2. \A e \in Inputs : e.name \in Names
    BY DEF Inputs
  <2> QED
    BY <2>1, <2>2
<1>3. bare \in Seq(Inputs) /\ Len(bare) = Len(inputs)
  <2>1. bare \in [1 .. Len(inputs) -> Inputs]
    BY <1>1, <1>2, OverTyped
  <2> QED
    BY <1>2, <2>1, SeqDef
<1>4. PICK both : both = list \o bare
  OBVIOUS
<1>5. both \in Seq(Inputs) /\ Len(both) = Len(list) + Len(inputs)
  <2>1. list \in Seq(Inputs) /\ bare \in Seq(Inputs)
    BY <1>3
  <2>2. list \o bare \in Seq(Inputs) /\ Len(list \o bare) = Len(list) + Len(bare)
    BY ONLY <2>1, Joined
  <2> QED
    BY <1>3, <1>4, <2>2
<1>6. Listed(list, inputs) = [n \in 1 .. Len(list) + Len(inputs) |->
                                IF n \in DOMAIN inputs THEN Over(both[n], inputs[n]) ELSE both[n]]
  BY <1>1, <1>4 DEF Listed
<1>7. \A n \in 1 .. Len(list) + Len(inputs) : both[n] \in Inputs
  BY <1>5
<1>8. Listed(list, inputs) \in [1 .. Len(list) + Len(inputs) -> Inputs]
  BY <1>2, <1>6, <1>7, OverTyped
<1>9. Listed(list, inputs) \in Seq(Inputs)
  BY <1>2, <1>8, SeqDef
<1>10. ASSUME list = << >>  PROVE Listed(list, inputs) = inputs
  <2>1. both = bare
    BY <1>3, <1>4, <1>10, ConcatEmptySeq
  <2>2. Len(list) + Len(inputs) = Len(inputs)
    BY <1>2, <1>10
  <2>3. ASSUME NEW n \in DOMAIN inputs  PROVE Over(both[n], inputs[n]) = inputs[n]
    BY <1>1, <1>2, <2>1, OverTyped
  <2>4. Listed(list, inputs) = [n \in DOMAIN inputs |-> Over(both[n], inputs[n])]
    BY <1>2, <1>6, <2>2
  <2>5. inputs = [n \in DOMAIN inputs |-> inputs[n]]
    OBVIOUS
  <2> QED
    BY <2>3, <2>4, <2>5
<1> QED
  BY <1>9, <1>10

(* The dictionary of the description, from an old one and new inputs.      *)
LEMMA KeyedTyped ==
  ASSUME NEW dict \in Seq(Inputs), NEW inputs \in Seq(Inputs), Apart(dict), Apart(inputs)
  PROVE  Keyed(dict, inputs) \in Seq(Inputs) /\ Apart(Keyed(dict, inputs))
<1>1. PICK T : T = {m \in DOMAIN inputs : \A n \in DOMAIN dict : dict[n].name # inputs[m].name}
  OBVIOUS
<1>2. PICK old : old = [n \in DOMAIN dict |->
                          IF \E m \in DOMAIN inputs : inputs[m].name = dict[n].name
                          THEN Over(dict[n], inputs[CHOOSE m \in DOMAIN inputs :
                                                      inputs[m].name = dict[n].name])
                          ELSE dict[n]]
  OBVIOUS
<1>3. PICK new : new = Selected(inputs, T)
  OBVIOUS
<1>4. Keyed(dict, inputs) = old \o new
  BY <1>1, <1>2, <1>3 DEF Keyed
<1>5. DOMAIN dict = 1 .. Len(dict) /\ Len(dict) \in Nat
  OBVIOUS
<1>6. ASSUME NEW n \in DOMAIN dict  PROVE old[n] \in Inputs /\ old[n].name = dict[n].name
  <2>1. dict[n] \in Inputs
    OBVIOUS
  <2>2. CASE \E m \in DOMAIN inputs : inputs[m].name = dict[n].name
    <3>1. PICK m \in DOMAIN inputs : old[n] = Over(dict[n], inputs[m])
      BY <1>2, <2>2
    <3>2. inputs[m] \in Inputs
      OBVIOUS
    <3> QED
      BY <2>1, <3>1, <3>2, OverTyped
  <2>3. CASE ~\E m \in DOMAIN inputs : inputs[m].name = dict[n].name
    BY <1>2, <2>1, <2>3
  <2> QED
    BY <2>2, <2>3
<1>7. old \in Seq(Inputs) /\ Len(old) = Len(dict)
  <2>1. old \in [1 .. Len(dict) -> Inputs]
    BY <1>2, <1>5, <1>6
  <2> QED
    BY <1>5, <2>1, SeqDef
<1>8. T \subseteq DOMAIN inputs
  BY <1>1
<1>9. /\ new \in Seq(Inputs) /\ Len(new) = Cardinality(T) /\ Places(T)
      /\ Cardinality(T) \in Nat
      /\ \A k \in 1 .. Cardinality(T) : /\ Place(T, k) \in T
                                        /\ Rank(T, Place(T, k)) = k - 1
                                        /\ new[k] = inputs[Place(T, k)]
  BY <1>3, <1>8, SelectedSeq
<1>10. PICK whole : whole = old \o new
  OBVIOUS
<1>11. /\ whole \in Seq(Inputs) /\ Len(whole) = Len(dict) + Len(new)
       /\ \A k \in 1 .. Len(dict) : whole[k] = old[k]
       /\ \A k \in 1 .. Len(new) : whole[Len(dict) + k] = new[k]
  <2>1. /\ old \o new \in Seq(Inputs) /\ Len(old \o new) = Len(old) + Len(new)
        /\ \A k \in 1 .. Len(old) : (old \o new)[k] = old[k]
        /\ \A k \in 1 .. Len(new) : (old \o new)[Len(old) + k] = new[k]
    <3>1. old \in Seq(Inputs) /\ new \in Seq(Inputs)
      BY <1>7, <1>9
    <3> QED
      BY ONLY <3>1, Joined
  <2> QED
    BY <1>7, <1>10, <2>1
<1>12. ASSUME NEW k \in DOMAIN whole, NEW l \in DOMAIN whole, k < l,
              whole[k].name = whole[l].name
       PROVE  FALSE
  <2>1. k \in Nat /\ l \in Nat /\ k > 0 /\ l > 0 /\ l <= Len(dict) + Len(new)
    BY <1>11
  <2>2. CASE l <= Len(dict)
    <3>1. k \in DOMAIN dict /\ l \in DOMAIN dict
      BY <1>5, <1>12, <2>1, <2>2
    <3>2. dict[k].name = dict[l].name
      BY <1>5, <1>6, <1>11, <1>12, <3>1
    <3> QED
      BY <1>12, <2>1, <3>1, <3>2 DEF Apart
  <2>3. CASE l > Len(dict)
    <3>1. PICK j : j = l - Len(dict)
      OBVIOUS
    <3>2. j \in 1 .. Len(new) /\ l = Len(dict) + j
      BY <1>5, <1>9, <2>1, <2>3, <3>1
    <3>3. whole[l] = inputs[Place(T, j)] /\ Place(T, j) \in T /\ Rank(T, Place(T, j)) = j - 1
      BY <1>9, <1>11, <3>2
    <3>4. CASE k <= Len(dict)
      <4>1. k \in DOMAIN dict /\ whole[k].name = dict[k].name
        BY <1>5, <1>6, <1>11, <2>1, <3>4
      <4> QED
        BY <1>1, <1>12, <3>3, <4>1
    <3>5. CASE k > Len(dict)
      <4>1. PICK i : i = k - Len(dict)
        OBVIOUS
      <4>2. i \in 1 .. Len(new) /\ k = Len(dict) + i /\ i # j
        <5>1. i # j
          BY <1>5, <1>12, <2>1, <3>1, <4>1
        <5>2. i \in 1 .. Len(new) /\ k = Len(dict) + i
          BY <1>5, <1>9, <1>12, <2>1, <3>5, <4>1
        <5> QED
          BY <5>1, <5>2
      <4>3. whole[k] = inputs[Place(T, i)] /\ Place(T, i) \in T /\ Rank(T, Place(T, i)) = i - 1
        BY <1>9, <1>11, <4>2
      <4>4. Place(T, i) = Place(T, j)
        BY <1>8, <1>12, <3>3, <4>3 DEF Apart
      <4>5. i - 1 = j - 1
        BY <3>3, <4>3, <4>4
      <4> QED
        BY <1>9, <3>2, <4>2, <4>5
    <3> QED
      BY <1>5, <2>1, <3>4, <3>5
  <2> QED
    BY <1>5, <2>1, <2>2, <2>3
<1>13. Apart(whole)
  <2>1. \A k \in DOMAIN whole : k \in Nat
    BY <1>11
  <2> SUFFICES ASSUME NEW k \in DOMAIN whole, NEW l \in DOMAIN whole,
                      whole[k].name = whole[l].name
               PROVE  k = l
    BY DEF Apart
  <2>2. ~(k < l) /\ ~(l < k)
    BY <1>12
  <2> QED
    BY <2>1, <2>2
<1> QED
  BY <1>4, <1>10, <1>11, <1>13

(* What comes first into a dictionary, and what is new in it, stays in the *)
(* order in which it came.                                                 *)
LEMMA KeyedFresh ==
  ASSUME NEW inputs \in Seq(Inputs)
  PROVE  Keyed(<< >>, inputs) = inputs
<1>1. PICK none : none = << >>
  OBVIOUS
<1>2. DOMAIN none = {}
  BY <1>1
<1>3. DOMAIN inputs = {m \in DOMAIN inputs : \A n \in DOMAIN none : none[n].name # inputs[m].name}
  BY <1>2
<1>4. PICK old : old = [n \in DOMAIN none |->
                          IF \E m \in DOMAIN inputs : inputs[m].name = none[n].name
                          THEN Over(none[n], inputs[CHOOSE m \in DOMAIN inputs :
                                                      inputs[m].name = none[n].name])
                          ELSE none[n]]
  OBVIOUS
<1>5. old = << >>
  BY <1>2, <1>4
<1>6. Keyed(none, inputs) = old \o Selected(inputs, DOMAIN inputs)
  BY <1>3, <1>4 DEF Keyed
<1>7. Selected(inputs, DOMAIN inputs) = inputs
  BY SelectedAll
<1> QED
  BY <1>1, <1>5, <1>6, <1>7, ConcatEmptySeq

LEMMA KeyedNew ==
  ASSUME NEW dict \in Seq(Inputs), NEW input \in Inputs,
         \A n \in DOMAIN dict : dict[n].name # input.name
  PROVE  Keyed(dict, <<input>>) = Append(dict, input)
<1>1. PICK one : one = <<input>>
  OBVIOUS
<1>2. one \in Seq(Inputs) /\ DOMAIN one = {1} /\ one[1] = input
  BY <1>1
<1>3. DOMAIN one = {m \in DOMAIN one : \A n \in DOMAIN dict : dict[n].name # one[m].name}
  BY <1>2
<1>4. PICK old : old = [n \in DOMAIN dict |->
                          IF \E m \in DOMAIN one : one[m].name = dict[n].name
                          THEN Over(dict[n], one[CHOOSE m \in DOMAIN one :
                                                   one[m].name = dict[n].name])
                          ELSE dict[n]]
  OBVIOUS
<1>5. ~\E n \in DOMAIN dict : \E m \in DOMAIN one : one[m].name = dict[n].name
  BY <1>2
<1>6. old = [n \in DOMAIN dict |-> dict[n]]
  BY <1>4, <1>5
<1>7. old = dict
  BY <1>6
<1>8. Keyed(dict, one) = old \o Selected(one, DOMAIN one)
  BY <1>3, <1>4 DEF Keyed
<1>9. Selected(one, DOMAIN one) = one
  BY <1>2, SelectedAll
<1> QED
  BY <1>1, <1>7, <1>8, <1>9, AppendIsConcat

-------------------------------------------------------------------------------
(* The sessions of the command line.                                       *)

Listings == [name : Names, forms : 1 .. 2]
Recipes  == [name : Names, forms : 1 .. 2, fun : Functions]
Descriptions == [title : Names, forms : 1 .. 2, props : Seq(Listings),
                 actions : Seq(Recipes), events : Seq([terms : Seq(Outputs)])]

(* The inductive invariant.  As long as none of its files was refused, an  *)
(* action has in both structures what was entered; a file is read into an  *)
(* action that is still empty, or one that had a file refused.             *)
Histories ==
  /\ td \in Descriptions
  /\ phase \in {"file", "prompts"} => Current \in DOMAIN td.actions
  /\ phase = "file" /\ Current \notin refused => entered[Current] = NoFunction
  /\ \A a \in DOMAIN td.actions \ refused :
       functions[a] = entered[a] /\ td.actions[a].fun = entered[a]

IInv == TypeOK /\ Histories

LEMMA EmptyTyped == NoFunction \in Functions /\ NoFunction.input = << >> /\ Apart(<< >>)
  BY DEF NoFunction, Functions, Outputs, Datum, Apart

(* A new element with a name that no element has.                          *)
LEMMA AppendApart ==
  ASSUME NEW S, NEW s \in Seq(S), NEW e \in S, Apart(s),
         \A n \in DOMAIN s : s[n].name # e.name
  PROVE  /\ Append(s, e) \in Seq(S) /\ Apart(Append(s, e))
         /\ Len(Append(s, e)) = Len(s) + 1
         /\ DOMAIN Append(s, e) = DOMAIN s \cup {Len(s) + 1}
         /\ \A n \in DOMAIN s : Append(s, e)[n] = s[n]
         /\ Append(s, e)[Len(s) + 1] = e
<1>1. PICK t : t = Append(s, e)
  OBVIOUS
<1>2. /\ t \in Seq(S) /\ Len(t) = Len(s) + 1
      /\ \A n \in 1 .. Len(s) : t[n] = s[n]
      /\ t[Len(s) + 1] = e
  BY <1>1, AppendProperties
<1>3. Len(s) \in Nat /\ DOMAIN s = 1 .. Len(s) /\ DOMAIN t = 1 .. Len(s) + 1
  BY <1>2
<1>4. DOMAIN t = DOMAIN s \cup {Len(s) + 1}
  BY <1>3
<1>5. Apart(t)
  BY <1>2, <1>3, <1>4 DEF Apart
<1> QED
  BY <1>1, <1>2, <1>3, <1>4, <1>5

(* A step that keeps the actions, and what is noted of them.               *)
LEMMA Kept ==
  ASSUME IInv, td' \in Descriptions, td'.actions = td.actions, Apart(td'.props),
         UNCHANGED <<functions, entered, refused>>,
         phase' \in {"properties", "actions", "events", "terms", "written", "build",
                     "stuck", "crashed", "done"},
         websocket' \in BOOLEAN, port' \in BOOLEAN
  PROVE  IInv'
<1>1. TypeOK'
  BY DEF IInv, TypeOK, Histories, Descriptions, Listings, Recipes
<1>2. Histories'
  BY DEF IInv, Histories
<1> QED
  BY <1>1, <1>2 DEF IInv

(* A step that records a function of the current action.                   *)
LEMMA Stored ==
  ASSUME IInv, Current \in DOMAIN td.actions,
         NEW list \in Functions, NEW dict \in Functions, NEW given \in Functions,
         Record(list, dict), Apart(dict.input),
         entered' = [entered EXCEPT ![Current] = given],
         phase' \in {"actions", "file", "prompts"},
         refused \subseteq refused', refused' \subseteq refused \cup {Current},
         Current \notin refused' => list = given /\ dict = given,
         phase' = "file" => Current \in refused',
         UNCHANGED <<websocket, port>>
  PROVE  IInv'
<1>1. PICK n : n = Current
  OBVIOUS
<1>2. PICK e : e = [td.actions[n] EXCEPT !.fun = dict]
  OBVIOUS
<1>3. PICK acts : acts = [td.actions EXCEPT ![n] = e]
  OBVIOUS
<1>4. /\ td \in Descriptions /\ td.actions \in Seq(Recipes) /\ td.props \in Seq(Listings)
      /\ functions \in Seq(Functions) /\ entered \in Seq(Functions)
      /\ Len(functions) = Len(td.actions) /\ Len(entered) = Len(td.actions)
      /\ n = Len(td.actions) /\ Len(td.actions) \in Nat /\ n \in 1 .. Len(td.actions)
  BY <1>1 DEF IInv, TypeOK, Histories, Descriptions, Current
<1>5. td.actions[n] \in Recipes
  BY <1>4
<1>6. e \in Recipes /\ e.fun = dict /\ e.name = td.actions[n].name
  BY <1>2, <1>5 DEF Recipes
<1>7. /\ acts \in Seq(Recipes) /\ Len(acts) = Len(td.actions)
      /\ \A j \in 1 .. Len(td.actions) : acts[j] = IF j = n THEN e ELSE td.actions[j]
  BY <1>3, <1>4, <1>6, ExceptSeq
<1>8. td' = [td EXCEPT !.actions = acts]
  BY <1>1, <1>2, <1>3 DEF Record
<1>9. /\ td' \in Descriptions /\ td'.actions = acts
      /\ td'.props = td.props /\ td'.events = td.events
      /\ td'.title = td.title /\ td'.forms = td.forms
  BY <1>4, <1>7, <1>8 DEF Descriptions
<1>10. /\ functions' \in Seq(Functions) /\ Len(functions') = Len(acts)
       /\ \A j \in 1 .. Len(acts) : functions'[j] = IF j = n THEN list ELSE functions[j]
  <2>1. functions' = [functions EXCEPT ![n] = list] /\ n \in 1 .. Len(functions)
    BY <1>1, <1>4 DEF Record
  <2> QED
    BY <1>4, <1>7, <2>1, ExceptSeq
<1>11. /\ entered' \in Seq(Functions) /\ Len(entered') = Len(acts)
       /\ \A j \in 1 .. Len(acts) : entered'[j] = IF j = n THEN given ELSE entered[j]
  <2>1. entered' = [entered EXCEPT ![n] = given] /\ n \in 1 .. Len(entered)
    BY <1>1, <1>4
  <2> QED
    BY <1>4, <1>7, <2>1, ExceptSeq
<1>12. DOMAIN acts = DOMAIN td.actions /\ DOMAIN acts = 1 .. Len(acts)
  BY <1>4, <1>7
<1>13. Apart(acts) /\ \A a \in DOMAIN acts : Apart(acts[a].fun.input)
  <2>1. Apart(td.actions) /\ \A a \in DOMAIN td.actions : Apart(td.actions[a].fun.input)
    BY DEF IInv, TypeOK
  <2>2. \A a \in DOMAIN acts : acts[a].name = td.actions[a].name
    BY <1>4, <1>6, <1>7, <1>12
  <2>3. Apart(acts)
    BY <1>12, <2>1, <2>2 DEF Apart
  <2>4. ASSUME NEW a \in DOMAIN acts  PROVE Apart(acts[a].fun.input)
    <3>1. acts[a].fun = dict \/ acts[a] = td.actions[a]
      BY <1>4, <1>6, <1>7, <1>12
    <3> QED
      BY <1>12, <2>1, <3>1
  <2> QED
    BY <2>3, <2>4
<1>14. refused' \subseteq DOMAIN acts
  BY <1>1, <1>4, <1>12 DEF IInv, TypeOK
<1>15. TypeOK'
  <2>1. /\ td'.title \in Names /\ td'.forms \in 1 .. 2
        /\ td'.props \in Seq([name : Names, forms : 1 .. 2]) /\ Apart(td'.props)
        /\ td'.actions \in Seq([name : Names, forms : 1 .. 2, fun : Functions])
        /\ td'.events \in Seq([terms : Seq(Outputs)])
    BY <1>7, <1>9 DEF IInv, TypeOK, Recipes
  <2>2. websocket' \in BOOLEAN /\ port' \in BOOLEAN
    BY DEF IInv, TypeOK
  <2> QED
    BY <1>9, <1>10, <1>11, <1>13, <1>14, <2>1, <2>2 DEF TypeOK
<1>16. Histories'
  <2>1. Current' = n /\ n \in DOMAIN acts
    BY <1>4, <1>7, <1>9, <1>12 DEF Current
  <2>2. phase' = "file" => n \in refused'
    BY <1>1
  <2>3. ASSUME NEW a \in DOMAIN acts \ refused'
        PROVE  functions'[a] = entered'[a] /\ acts[a].fun = entered'[a]
    <3>1. CASE a = n
      BY <1>1, <1>4, <1>6, <1>7, <1>10, <1>11, <3>1
    <3>2. CASE a # n
      <4>1. a \in DOMAIN td.actions \ refused
        BY <1>12
      <4>2. functions[a] = entered[a] /\ td.actions[a].fun = entered[a]
        BY <4>1 DEF IInv, Histories
      <4> QED
        BY <1>7, <1>10, <1>11, <1>12, <3>2, <4>2
    <3> QED
      BY <3>1, <3>2
  <2> QED
    BY <1>9, <2>1, <2>2, <2>3 DEF Histories
<1> QED
  BY <1>15, <1>16 DEF IInv

(* The parameters before the first strange one are inputs, in a list, with *)
(* names of their own.                                                     *)
LEMMA TypesKnown == \A t \in CTypes : TypesDict[t] \in Types /\ TypesDict[t] \in Types \cup {"none"}
<1>1. CTypes = {"bool", "int", "string"}
  BY DEF CTypes, TypesDict
<1>2. /\ TypesDict["bool"] = "boolean" /\ TypesDict["int"] = "integer"
      /\ TypesDict["string"] = "string"
  BY DEF TypesDict
<1> QED
  BY <1>1, <1>2 DEF Types

LEMMA KnownInputs ==
  ASSUME NEW f \in Signature, NEW known, NEW r, NEW inputs,
         known = {n \in DOMAIN f.inputs : \A m \in 1 .. n : f.inputs[m].type # "strange"},
         inputs = [n \in known |-> Input(f.inputs[n].name, TypesDict[f.inputs[n].type], r[n])]
  PROVE  inputs \in Seq(Inputs) /\ Apart(inputs)
<1>0. PICK Params : Params = [name : Names, type : CTypes \cup {"strange"}]
  OBVIOUS
<1>1. PICK s \in Seq(Params) : s = f.inputs /\ Apart(s)
  BY <1>0 DEF Signature, Apart
<1>2. PICK N \in Nat : N = Len(s) /\ DOMAIN s = 1 .. N
  OBVIOUS
<1>3. \A n \in 1 .. N : s[n] \in Params
  BY <1>2
<1>4. PICK Bad : Bad = {n \in 1 .. N : s[n].type = "strange"}
  OBVIOUS
<1>5. PICK K \in Nat : known = 1 .. K /\ K <= N
  <2>1. CASE Bad = {}
    <3>1. known = 1 .. N
      BY <1>1, <1>2, <1>4, <2>1
    <3> QED
      BY <3>1
  <2>2. CASE Bad # {}
    <3>1. Bad \subseteq Nat
      BY <1>4
    <3>2. PICK b \in Bad : \A y \in Bad : b <= y
      BY <2>2, <3>1, Least
    <3>3. b \in 1 .. N /\ b - 1 \in Nat /\ b - 1 <= N
      BY <1>4
    <3>4. ASSUME NEW n \in known  PROVE n \in 1 .. b - 1
      <4>1. n \in 1 .. N /\ \A m \in 1 .. n : s[m].type # "strange"
        BY <1>1, <1>2
      <4>2. b \notin 1 .. n
        BY <1>4, <4>1
      <4> QED
        BY <3>3, <4>1, <4>2
    <3>5. ASSUME NEW n \in 1 .. b - 1  PROVE n \in known
      <4>1. n \in 1 .. N
        BY <3>3
      <4>2. ASSUME NEW m \in 1 .. n  PROVE s[m].type # "strange"
        <5>1. m \in 1 .. N /\ ~(b <= m)
          BY <3>3
        <5> QED
          BY <1>4, <3>2, <5>1
      <4> QED
        BY <1>1, <1>2, <4>1, <4>2
    <3>6. known = 1 .. b - 1
      BY <3>4, <3>5
    <3> QED
      BY <3>3, <3>6
  <2> QED
    BY <2>1, <2>2
<1>6. ASSUME NEW n \in known
      PROVE  inputs[n] \in Inputs /\ inputs[n].name = s[n].name
  <2>1. n \in 1 .. N /\ s[n].type # "strange"
    BY <1>1, <1>2, <1>5
  <2>2. s[n].name \in Names /\ s[n].type \in CTypes
    BY <1>0, <1>3, <2>1
  <2>3. inputs[n] = Input(s[n].name, TypesDict[s[n].type], r[n])
    BY <1>1
  <2> QED
    BY <2>2, <2>3, TypesKnown DEF Input, Inputs
<1>7. DOMAIN inputs = 1 .. K
  BY <1>5
<1>8. inputs \in Seq(Inputs)
  <2>1. inputs \in [1 .. K -> Inputs]
    BY <1>5, <1>6
  <2> QED
    BY ONLY <2>1, SeqDef
<1>9. Apart(inputs)
  <2>1. \A n \in DOMAIN inputs : n \in known /\ n \in DOMAIN s
    BY <1>2, <1>5, <1>7
  <2>2. ASSUME NEW m \in DOMAIN inputs, NEW n \in DOMAIN inputs,
               inputs[m].name = inputs[n].name
        PROVE  m = n
    <3>1. s[m].name = s[n].name
      BY <1>6, <2>1, <2>2
    <3> QED
      BY <1>1, <2>1, <3>1 DEF Apart
  <2> QED
    BY <2>2 DEF Apart
<1> QED
  BY <1>8, <1>9

LEMMA FileRead == ASSUME IInv, NEW f \in Files, ReadFile(f)  PROVE IInv'
<1> DEFINE fun   == functions[Current]
           dict  == td.actions[Current].fun
           known == {n \in DOMAIN f.inputs : \A m \in 1 .. n : f.inputs[m].type # "strange"}
<1>1. CASE Crash
  BY <1>1, Kept DEF IInv, TypeOK, Histories, Crash
<1>2. CASE ~Crash
  <2>1. /\ phase = "file" /\ f.output # "strange" /\ f \in Signature
        /\ UNCHANGED <<websocket, port>>
        /\ IF known = DOMAIN f.inputs
           THEN phase' = "actions" /\ UNCHANGED refused
           ELSE phase' = "file" /\ refused' = refused \cup {Current}
    <3>1. f \in Signature
      BY UsersAssumption
    <3>2. phase = "file" /\ f.output # "strange" /\ UNCHANGED <<websocket, port>>
      BY <1>2, Zenon DEF ReadFile
    <3>3. IF known = DOMAIN f.inputs
          THEN phase' = "actions" /\ UNCHANGED refused
          ELSE phase' = "file" /\ refused' = refused \cup {Current}
      BY <1>2, Zenon DEF ReadFile
    <3> QED
      BY <3>1, <3>2, <3>3
  <2>2. PICK r :
          LET inputs == [n \in known |->
                           Input(f.inputs[n].name, TypesDict[f.inputs[n].type], r[n])]
              output == Datum(TypesDict[f.output], r[0])
              Out(old) == IF f.output # "void" THEN Over(old, output) ELSE old
          IN  /\ Record([input |-> Listed(fun.input, inputs), output |-> Out(fun.output)],
                        [input |-> Keyed(dict.input, inputs), output |-> Out(dict.output)])
              /\ entered' = [entered EXCEPT ![Current] =
                               [input |-> inputs, output |-> Out(NoFunction.output)]]
    BY <1>2 DEF ReadFile
  <2> DEFINE inputs == [n \in known |->
                          Input(f.inputs[n].name, TypesDict[f.inputs[n].type], r[n])]
             Out(old) == IF f.output # "void"
                         THEN Over(old, Datum(TypesDict[f.output], r[0])) ELSE old
             list  == [input |-> Listed(fun.input, inputs), output |-> Out(fun.output)]
             keyed == [input |-> Keyed(dict.input, inputs), output |-> Out(dict.output)]
             given == [input |-> inputs, output |-> Out(NoFunction.output)]
  <2>3. Record(list, keyed) /\ entered' = [entered EXCEPT ![Current] = given]
    BY <2>2
  <2>4. inputs \in Seq(Inputs) /\ Apart(inputs)
    BY <2>1, KnownInputs
  <2>5. \A old \in Outputs : Out(old) \in Outputs
    <3>1. f.output \in CTypes \cup {"void"}
      BY <2>1 DEF Signature
    <3>2. f.output # "void" => Datum(TypesDict[f.output], r[0]) \in Outputs
      BY <3>1, TypesKnown DEF Datum, Outputs
    <3> QED
      BY <3>2, OverTyped
  <2>6. /\ Current \in DOMAIN td.actions
        /\ Current \notin refused => entered[Current] = NoFunction
        /\ Current \notin refused => fun = entered[Current] /\ dict = entered[Current]
    BY <2>1 DEF IInv, Histories
  <2>7. fun \in Functions /\ dict \in Functions /\ Apart(dict.input)
    <3>1. functions \in Seq(Functions) /\ DOMAIN functions = DOMAIN td.actions
      BY DEF IInv, TypeOK
    <3>2. td.actions[Current] \in Recipes /\ Apart(dict.input)
      <4>1. td.actions \in Seq(Recipes)
        BY DEF IInv, TypeOK, Recipes
      <4>2. td.actions[Current] \in Recipes
        BY <2>6, <4>1
      <4> QED
        BY <2>6, <4>2 DEF IInv, TypeOK
    <3>3. fun \in Functions
      BY <2>6, <3>1
    <3> QED
      BY <3>2, <3>3 DEF Recipes
  <2> HIDE DEF inputs, Out, fun, dict, known
  <2>8. list \in Functions
    BY <2>4, <2>5, <2>7, ListedTyped DEF Functions
  <2>9. keyed \in Functions /\ Apart(keyed.input)
    BY <2>4, <2>5, <2>7, KeyedTyped DEF Functions
  <2>10. given \in Functions
    BY <2>4, <2>5, EmptyTyped DEF Functions
  <2>11. Current \notin refused' => list = given /\ keyed = given
    <3> SUFFICES ASSUME Current \notin refused  PROVE list = given /\ keyed = given
      BY <2>1
    <3>1. fun = NoFunction /\ dict = NoFunction
      BY <2>6
    <3>2. Listed(<< >>, inputs) = inputs /\ Keyed(<< >>, inputs) = inputs
      <4>1. << >> \in Seq(Inputs)
        OBVIOUS
      <4> QED
        BY <2>4, <4>1, ListedTyped, KeyedFresh
    <3> QED
      BY <3>1, <3>2, EmptyTyped
  <2> HIDE DEF list, keyed, given
  <2>12. /\ refused \subseteq refused' /\ refused' \subseteq refused \cup {Current}
         /\ phase' \in {"actions", "file", "prompts"}
         /\ phase' = "file" => Current \in refused'
    BY <2>1
  <2> QED
    BY <2>1, <2>3, <2>6, <2>8, <2>9, <2>10, <2>11, <2>12, Stored
<1> QED
  BY <1>1, <1>2

(* The function, the dictionary and what was entered, of the current       *)
(* action.                                                                 *)
LEMMA OfCurrent ==
  ASSUME IInv, phase \in {"file", "prompts"}
  PROVE  /\ Current \in DOMAIN td.actions
         /\ functions[Current] \in Functions /\ entered[Current] \in Functions
         /\ td.actions[Current].fun \in Functions
         /\ Apart(td.actions[Current].fun.input)
         /\ Current \notin refused => /\ functions[Current] = entered[Current]
                                      /\ td.actions[Current].fun = entered[Current]
<1>1. Current \in DOMAIN td.actions
  BY DEF IInv, Histories
<1>2. /\ functions \in Seq(Functions) /\ DOMAIN functions = DOMAIN td.actions
      /\ entered \in Seq(Functions) /\ DOMAIN entered = DOMAIN td.actions
  BY DEF IInv, TypeOK
<1>3. td.actions \in Seq(Recipes)
  BY DEF IInv, TypeOK, Recipes
<1>4. td.actions[Current] \in Recipes
  BY <1>1, <1>3
<1>5. functions[Current] \in Functions /\ entered[Current] \in Functions
  BY <1>1, <1>2
<1> QED
  BY <1>1, <1>4, <1>5 DEF IInv, TypeOK, Histories, Recipes

LEMMA InputTyped ==
  ASSUME NEW name \in Names, NEW type \in Chosen, NEW outcome
  PROVE  Input(name, type, outcome) \in Inputs /\ Datum(type, outcome) \in Outputs
  BY UsersAssumption DEF Input, Inputs, Datum, Outputs

LEMMA InputEntered == ASSUME IInv, EnterInput  PROVE IInv'
<1>1. CASE Crash
  BY <1>1, Kept DEF IInv, TypeOK, Histories, Crash
<1>2. CASE ~Crash
  <2> DEFINE fun  == functions[Current]
             dict == td.actions[Current].fun
             had  == entered[Current]
  <2>1. PICK name, type, outcome :
          LET input == Input(name, type, outcome)
          IN  /\ name \in NewNames(fun.input) /\ type \in Chosen
              /\ Record([fun EXCEPT !.input = Append(@, input)],
                        [dict EXCEPT !.input = Keyed(@, <<input>>)])
              /\ entered' = [entered EXCEPT ![Current].input = Append(@, input)]
              /\ UNCHANGED <<phase, websocket, port, refused>>
    BY <1>2 DEF EnterInput
  <2>2. PICK input : input = Input(name, type, outcome)
    OBVIOUS
  <2>3. phase = "prompts"
    BY DEF EnterInput
  <2>4. /\ Current \in DOMAIN td.actions
        /\ fun \in Functions /\ had \in Functions /\ dict \in Functions
        /\ Apart(dict.input)
        /\ Current \notin refused => fun = had /\ dict = had
    BY <2>3, OfCurrent
  <2>5. name \in Names /\ \A m \in DOMAIN fun.input : fun.input[m].name # name
    BY <2>1 DEF NewNames
  <2>6. input \in Inputs /\ input.name = name
    BY <2>1, <2>2, <2>5, InputTyped DEF Input
  <2> DEFINE list  == [fun EXCEPT !.input = Append(fun.input, input)]
             keyed == [dict EXCEPT !.input = Keyed(dict.input, <<input>>)]
             given == [had EXCEPT !.input = Append(had.input, input)]
  <2>7. Record(list, keyed)
    BY <2>1, <2>2
  <2>8. entered' = [entered EXCEPT ![Current] = given]
    BY <2>1, <2>2
  <2> HIDE DEF fun, dict, had
  <2>9. list \in Functions
    <3>1. fun.input \in Seq(Inputs)
      BY <2>4 DEF Functions
    <3>2. Append(fun.input, input) \in Seq(Inputs)
      BY <2>6, <3>1, AppendProperties
    <3> QED
      BY <2>4, <3>2 DEF Functions
  <2>10. given \in Functions
    <3>1. had.input \in Seq(Inputs)
      BY <2>4 DEF Functions
    <3>2. Append(had.input, input) \in Seq(Inputs)
      BY <2>6, <3>1, AppendProperties
    <3> QED
      BY <2>4, <3>2 DEF Functions
  <2>11. keyed \in Functions /\ Apart(keyed.input)
    <3>1. <<input>> \in Seq(Inputs) /\ Apart(<<input>>)
      BY <2>6 DEF Apart
    <3>2. dict.input \in Seq(Inputs)
      BY <2>4 DEF Functions
    <3>3. Keyed(dict.input, <<input>>) \in Seq(Inputs) /\ Apart(Keyed(dict.input, <<input>>))
      BY <2>4, <3>1, <3>2, KeyedTyped
    <3>4. keyed.input = Keyed(dict.input, <<input>>)
      BY <2>4 DEF Functions
    <3> QED
      BY <2>4, <3>3, <3>4 DEF Functions
  <2>12. Current \notin refused' => list = given /\ keyed = given
    <3> SUFFICES ASSUME Current \notin refused  PROVE list = given /\ keyed = given
      BY <2>1
    <3>1. fun = had /\ dict = had
      BY <2>4
    <3>2. fun.input \in Seq(Inputs)
      BY <2>4 DEF Functions
    <3>3. Keyed(fun.input, <<input>>) = Append(fun.input, input)
      BY <2>5, <2>6, <3>2, KeyedNew
    <3> QED
      BY <3>1, <3>3
  <2> HIDE DEF list, keyed, given
  <2>13. phase' = "prompts" /\ refused' = refused
    BY <2>1, <2>3
  <2> QED
    BY <2>1, <2>4, <2>7, <2>8, <2>9, <2>10, <2>11, <2>12, <2>13, Stored
<1> QED
  BY <1>1, <1>2

LEMMA OutputEntered == ASSUME IInv, EnterOutput  PROVE IInv'
<1>1. phase = "prompts"
  BY DEF EnterOutput
<1>2. CASE Crash
  BY <1>2, Kept DEF IInv, TypeOK, Histories, Crash
<1>3. CASE phase' = "actions" /\ UNCHANGED <<td, functions, websocket, port, entered, refused>>
  BY <1>3, Kept DEF IInv, TypeOK, Histories
<1>4. CASE \E type, outcome :
             /\ type \in Chosen
             /\ Record([functions[Current] EXCEPT !.output = Datum(type, outcome)],
                       [td.actions[Current].fun EXCEPT !.output = Datum(type, outcome)])
             /\ entered' = [entered EXCEPT ![Current].output = Datum(type, outcome)]
             /\ phase' = "actions" /\ UNCHANGED <<websocket, port, refused>>
  <2>1. PICK type, outcome :
             /\ type \in Chosen
             /\ Record([functions[Current] EXCEPT !.output = Datum(type, outcome)],
                       [td.actions[Current].fun EXCEPT !.output = Datum(type, outcome)])
             /\ entered' = [entered EXCEPT ![Current].output = Datum(type, outcome)]
             /\ phase' = "actions" /\ UNCHANGED <<websocket, port, refused>>
    BY <1>4
  <2>2. PICK output : output = Datum(type, outcome)
    OBVIOUS
  <2>3. output \in Outputs
    BY <2>1, <2>2, UsersAssumption DEF Datum, Outputs
  <2> DEFINE list  == [functions[Current] EXCEPT !.output = output]
             keyed == [td.actions[Current].fun EXCEPT !.output = output]
             given == [entered[Current] EXCEPT !.output = output]
  <2>4. /\ Current \in DOMAIN td.actions
        /\ functions[Current] \in Functions /\ entered[Current] \in Functions
        /\ td.actions[Current].fun \in Functions
        /\ Apart(td.actions[Current].fun.input)
        /\ Current \notin refused => /\ functions[Current] = entered[Current]
                                     /\ td.actions[Current].fun = entered[Current]
    BY <1>1, OfCurrent
  <2>5. Record(list, keyed) /\ entered' = [entered EXCEPT ![Current] = given]
    BY <2>1, <2>2
  <2>6. list \in Functions /\ keyed \in Functions /\ given \in Functions /\ Apart(keyed.input)
    BY <2>3, <2>4 DEF Functions
  <2>7. Current \notin refused => list = given /\ keyed = given
    BY <2>4
  <2> HIDE DEF list, keyed, given
  <2> QED
    BY <2>1, <2>4, <2>5, <2>6, <2>7, Stored
<1> QED
  BY <1>2, <1>3, <1>4 DEF EnterOutput

LEMMA ActionEntered == ASSUME IInv, EnterAction  PROVE IInv'
<1>1. PICK name \in NewNames(td.actions), forms \in AddForm :
        td' = [td EXCEPT !.actions =
                 Append(@, [name |-> name, forms |-> forms, fun |-> NoFunction])]
  BY DEF EnterAction
<1>2. /\ functions' = Append(functions, NoFunction) /\ entered' = Append(entered, NoFunction)
      /\ UNCHANGED <<websocket, port, refused>>
      /\ phase' \in {"file", "prompts", "actions"}
  BY DEF EnterAction
<1>3. PICK e : e = [name |-> name, forms |-> forms, fun |-> NoFunction]
  OBVIOUS
<1>4. PICK acts : acts = Append(td.actions, e)
  OBVIOUS
<1>5. PICK n : n = Len(td.actions) + 1
  OBVIOUS
<1>6. /\ td \in Descriptions /\ td.actions \in Seq(Recipes) /\ Len(td.actions) \in Nat
      /\ functions \in Seq(Functions) /\ Len(functions) = Len(td.actions)
      /\ entered \in Seq(Functions) /\ Len(entered) = Len(td.actions)
      /\ Apart(td.actions) /\ Apart(td.props) /\ refused \subseteq DOMAIN td.actions
      /\ \A a \in DOMAIN td.actions : Apart(td.actions[a].fun.input)
      /\ DOMAIN td.actions = 1 .. Len(td.actions)
  BY DEF IInv, TypeOK, Histories, Descriptions
<1>7. e \in Recipes /\ e.name = name /\ e.fun = NoFunction
  BY <1>3, EmptyTyped DEF Recipes, NewNames, AddForm
<1>8. /\ acts \in Seq(Recipes) /\ Apart(acts) /\ Len(acts) = n
      /\ DOMAIN acts = DOMAIN td.actions \cup {n}
      /\ \A a \in DOMAIN td.actions : acts[a] = td.actions[a]
      /\ acts[n] = e
  <2>1. \A a \in DOMAIN td.actions : td.actions[a].name # e.name
    BY <1>7 DEF NewNames
  <2>2. td.actions \in Seq(Recipes) /\ e \in Recipes /\ Apart(td.actions)
    BY <1>6, <1>7
  <2>3. /\ Append(td.actions, e) \in Seq(Recipes) /\ Apart(Append(td.actions, e))
        /\ Len(Append(td.actions, e)) = Len(td.actions) + 1
        /\ DOMAIN Append(td.actions, e) = DOMAIN td.actions \cup {Len(td.actions) + 1}
        /\ \A a \in DOMAIN td.actions : Append(td.actions, e)[a] = td.actions[a]
        /\ Append(td.actions, e)[Len(td.actions) + 1] = e
    BY ONLY <2>1, <2>2, AppendApart
  <2> QED
    BY <1>4, <1>5, <2>3
<1>9. td' = [td EXCEPT !.actions = acts]
  BY <1>1, <1>3, <1>4
<1>10. /\ td' \in Descriptions /\ td'.actions = acts
       /\ td'.props = td.props /\ td'.events = td.events
       /\ td'.title = td.title /\ td'.forms = td.forms
  BY <1>6, <1>8, <1>9 DEF Descriptions
<1>11. /\ functions' \in Seq(Functions) /\ Len(functions') = n /\ functions'[n] = NoFunction
       /\ \A a \in DOMAIN td.actions : functions'[a] = functions[a]
  BY <1>2, <1>5, <1>6, EmptyTyped, AppendProperties
<1>12. /\ entered' \in Seq(Functions) /\ Len(entered') = n /\ entered'[n] = NoFunction
       /\ \A a \in DOMAIN td.actions : entered'[a] = entered[a]
  BY <1>2, <1>5, <1>6, EmptyTyped, AppendProperties
<1>13. TypeOK'
  <2>1. /\ td'.title \in Names /\ td'.forms \in 1 .. 2
        /\ td'.props \in Seq([name : Names, forms : 1 .. 2]) /\ Apart(td'.props)
        /\ td'.actions \in Seq([name : Names, forms : 1 .. 2, fun : Functions])
        /\ td'.events \in Seq([terms : Seq(Outputs)])
    BY <1>8, <1>10 DEF IInv, TypeOK, Recipes
  <2>2. websocket' \in BOOLEAN /\ port' \in BOOLEAN
    BY <1>2 DEF IInv, TypeOK
  <2>3. \A a \in DOMAIN acts : Apart(acts[a].fun.input)
    BY <1>6, <1>7, <1>8, EmptyTyped
  <2>4. refused' \subseteq DOMAIN acts
    BY <1>2, <1>6, <1>8
  <2>5. phase' \in {"thing", "properties", "actions", "file", "prompts", "events",
                    "terms", "written", "build", "stuck", "crashed", "done"}
    BY <1>2
  <2> QED
    BY <1>8, <1>10, <1>11, <1>12, <2>1, <2>2, <2>3, <2>4, <2>5 DEF TypeOK
<1>14. Histories'
  <2>1. Current' = n
    BY <1>8, <1>10 DEF Current
  <2>2. ASSUME NEW a \in DOMAIN acts \ refused'
        PROVE  functions'[a] = entered'[a] /\ acts[a].fun = entered'[a]
    <3>1. CASE a = n
      BY <1>7, <1>8, <1>11, <1>12, <3>1
    <3>2. CASE a # n
      <4>1. a \in DOMAIN td.actions \ refused
        BY <1>2, <1>8, <3>2
      <4>2. functions[a] = entered[a] /\ td.actions[a].fun = entered[a]
        BY <4>1 DEF IInv, Histories
      <4> QED
        BY <1>8, <1>11, <1>12, <4>1, <4>2
    <3> QED
      BY <3>1, <3>2
  <2> QED
    BY <1>8, <1>10, <1>12, <2>1, <2>2 DEF Histories
<1> QED
  BY <1>13, <1>14 DEF IInv

LEMMA ThingEntered == ASSUME IInv, EnterThing \/ EnterProperty  PROVE IInv'
<1>1. CASE EnterThing
  <2>1. PICK title \in Names, forms \in AddForm :
          td' = [td EXCEPT !.title = title, !.forms = forms]
    BY <1>1 DEF EnterThing
  <2>2. td' \in Descriptions /\ td'.actions = td.actions /\ td'.props = td.props
    BY <2>1 DEF IInv, Histories, Descriptions, AddForm
  <2> QED
    BY <1>1, <2>2, Kept DEF EnterThing, IInv, TypeOK
<1>2. CASE EnterProperty
  <2>1. PICK name \in NewNames(td.props), forms \in AddForm :
          td' = [td EXCEPT !.props = Append(@, [name |-> name, forms |-> forms])]
    BY <1>2 DEF EnterProperty
  <2>2. PICK e \in Listings : e = [name |-> name, forms |-> forms]
    BY DEF Listings, NewNames, AddForm
  <2>3. td \in Descriptions /\ td.props \in Seq(Listings) /\ Apart(td.props)
    BY DEF IInv, TypeOK, Histories, Descriptions
  <2>4. \A m \in DOMAIN td.props : td.props[m].name # e.name
    BY <2>2 DEF NewNames
  <2>5. Append(td.props, e) \in Seq(Listings) /\ Apart(Append(td.props, e))
    BY <2>3, <2>4, AppendApart
  <2>6. td' = [td EXCEPT !.props = Append(td.props, e)]
    BY <2>1, <2>2
  <2>7. td' \in Descriptions /\ td'.actions = td.actions /\ td'.props = Append(td.props, e)
    BY <2>3, <2>5, <2>6 DEF Descriptions
  <2> QED
    BY <1>2, <2>5, <2>7, Kept DEF EnterProperty, IInv, TypeOK
<1> QED
  BY <1>1, <1>2

LEMMA EventEntered == ASSUME IInv, EnterEvent \/ EnterTerm  PROVE IInv'
<1>1. /\ td \in Descriptions /\ td.events \in Seq([terms : Seq(Outputs)])
      /\ Apart(td.props) /\ websocket \in BOOLEAN /\ port \in BOOLEAN
  BY DEF IInv, TypeOK, Histories, Descriptions
<1>2. ASSUME NEW events \in Seq([terms : Seq(Outputs)]),
             td' = [td EXCEPT !.events = events]
      PROVE  td' \in Descriptions /\ td'.actions = td.actions /\ td'.props = td.props
  BY <1>1, <1>2 DEF Descriptions
<1>3. CASE EnterEvent
  <2>1. td' = td \/ td' = [td EXCEPT !.events = Append(td.events, [terms |-> << >>])]
    BY <1>3 DEF EnterEvent
  <2>2. Append(td.events, [terms |-> << >>]) \in Seq([terms : Seq(Outputs)])
    <3>1. [terms |-> << >>] \in [terms : Seq(Outputs)]
      OBVIOUS
    <3> QED
      BY <1>1, <3>1, AppendProperties
  <2>3. td' \in Descriptions /\ td'.actions = td.actions /\ td'.props = td.props
    BY <1>1, <1>2, <2>1, <2>2
  <2> QED
    BY <1>1, <1>3, <2>3, Kept DEF EnterEvent
<1>4. CASE EnterTerm
  <2>1. CASE Crash
    BY <1>1, <2>1, Kept DEF Crash
  <2>2. CASE ~Crash
    <3>1. PICK type, outcome :
            /\ type \in Types
            /\ td' = [td EXCEPT !.events[Len(td.events)].terms =
                         Append(@, Datum(type, outcome))]
            /\ UNCHANGED <<phase, functions, websocket, port, entered, refused>>
      BY <1>4, <2>2 DEF EnterTerm
    <3>2. PICK n : n = Len(td.events)
      OBVIOUS
    <3>3. PICK event : event = [td.events[n] EXCEPT !.terms =
                                  Append(td.events[n].terms, Datum(type, outcome))]
      OBVIOUS
    <3>4. td' = [td EXCEPT !.events = [td.events EXCEPT ![n] = event]]
      BY <3>1, <3>2, <3>3
    <3>5. [td.events EXCEPT ![n] = event] \in Seq([terms : Seq(Outputs)])
      <4>1. PICK E : E = [terms : Seq(Outputs)]
        OBVIOUS
      <4>2. PICK events \in Seq(E) : events = td.events
        BY <1>1, <4>1
      <4>3. Len(events) \in Nat /\ events \in [1 .. Len(events) -> E]
        OBVIOUS
      <4>4. n \in 1 .. Len(events) => event \in E
        <5> SUFFICES ASSUME n \in 1 .. Len(events)  PROVE event \in E
          OBVIOUS
        <5>1. events[n] \in E
          BY <4>3
        <5>2. Datum(type, outcome) \in Outputs
          BY <3>1 DEF Datum, Outputs
        <5>3. events[n].terms \in Seq(Outputs)
          BY <4>1, <5>1
        <5>4. Append(events[n].terms, Datum(type, outcome)) \in Seq(Outputs)
          BY <5>2, <5>3, AppendProperties
        <5> QED
          BY <3>3, <4>1, <4>2, <5>1, <5>4
      <4>5. [events EXCEPT ![n] = event] \in [1 .. Len(events) -> E]
        BY <4>3, <4>4
      <4>6. [events EXCEPT ![n] = event] \in Seq(E)
        BY <4>3, <4>5, SeqDef
      <4> QED
        BY <4>1, <4>2, <4>6
    <3>6. td' \in Descriptions /\ td'.actions = td.actions /\ td'.props = td.props
      BY <1>2, <3>4, <3>5
    <3>7. phase' = "terms"
      BY <1>4, <3>1 DEF EnterTerm
    <3> QED
      BY <1>1, <3>1, <3>6, <3>7, Kept
  <2> QED
    BY <2>1, <2>2
<1> QED
  BY <1>3, <1>4

LEMMA ReadBack == ASSUME IInv, BuildLater  PROVE IInv'
<1>1. /\ td' = td /\ entered' = entered /\ refused' = refused /\ port' = port
      /\ phase' = "build" /\ websocket' \in BOOLEAN
      /\ functions' = [a \in DOMAIN td.actions |-> td.actions[a].fun]
  BY DEF BuildLater, FromDescription
<1>2. td.actions \in Seq(Recipes) /\ DOMAIN td.actions = 1 .. Len(td.actions)
      /\ Len(td.actions) \in Nat
  BY DEF IInv, TypeOK, Recipes
<1>3. \A a \in DOMAIN td.actions : td.actions[a].fun \in Functions
  <2>1. \A a \in DOMAIN td.actions : td.actions[a] \in Recipes
    BY <1>2
  <2> QED
    BY <2>1 DEF Recipes
<1>4. functions' \in Seq(Functions) /\ Len(functions') = Len(td.actions)
  <2>1. functions' \in [1 .. Len(td.actions) -> Functions]
    BY <1>1, <1>2, <1>3
  <2> QED
    BY <1>2, <2>1, SeqDef
<1>5. TypeOK'
  BY <1>1, <1>4 DEF IInv, TypeOK
<1>6. Histories'
  BY <1>1 DEF IInv, Histories, Current
<1> QED
  BY <1>5, <1>6 DEF IInv

LEMMA IInvInit == Init => IInv
<1> SUFFICES ASSUME Init  PROVE IInv
  OBVIOUS
<1>1. td \in [title : Names, forms : {1}, props : {<< >>}, actions : {<< >>}, events : {<< >>}]
  BY DEF Init
<1>2. PICK title \in Names :
        td = [title |-> title, forms |-> 1, props |-> << >>, actions |-> << >>, events |-> << >>]
  BY <1>1
<1>3. /\ << >> \in Seq(Listings) /\ << >> \in Seq(Recipes)
      /\ << >> \in Seq([terms : Seq(Outputs)]) /\ << >> \in Seq(Functions)
  OBVIOUS
<1>4. td \in Descriptions
  <2>1. 1 \in 1 .. 2
    OBVIOUS
  <2> QED
    BY <1>2, <1>3, <2>1 DEF Descriptions
<1>5. /\ td.props = << >> /\ td.actions = << >> /\ td.events = << >>
      /\ td.title \in Names /\ td.forms \in 1 .. 2
      /\ DOMAIN td.actions = {} /\ Len(td.actions) = 0
  BY <1>2
<1>6. TypeOK
  <2>1. /\ td.props \in Seq([name : Names, forms : 1 .. 2])
        /\ td.actions \in Seq([name : Names, forms : 1 .. 2, fun : Functions])
        /\ td.events \in Seq([terms : Seq(Outputs)])
    BY <1>3, <1>5 DEF Listings, Recipes
  <2>2. Apart(td.props) /\ Apart(td.actions)
    BY <1>5, EmptyTyped
  <2>3. /\ functions \in Seq(Functions) /\ Len(functions) = Len(td.actions)
        /\ entered \in Seq(Functions) /\ Len(entered) = Len(td.actions)
        /\ refused \subseteq DOMAIN td.actions
    BY <1>3, <1>5 DEF Init
  <2>4. phase = "thing" /\ websocket \in BOOLEAN /\ port \in BOOLEAN
    BY DEF Init
  <2> QED
    BY <1>5, <2>1, <2>2, <2>3, <2>4 DEF TypeOK
<1>7. Histories
  BY <1>4, <1>5 DEF Init, Histories
<1> QED
  BY <1>6, <1>7 DEF IInv

LEMMA IInvNext == IInv /\ [Next]_vars => IInv'
<1> SUFFICES ASSUME IInv, [Next]_vars  PROVE IInv'
  OBVIOUS
<1>1. CASE UNCHANGED vars
  BY <1>1 DEF vars, IInv, TypeOK, Histories, Current
<1>2. CASE GoOn \/ BuildNow \/ Render
  <2>1. /\ UNCHANGED <<td, functions, entered, refused, websocket>> /\ port' \in BOOLEAN
        /\ phase' \in {"actions", "events", "written", "build", "done", "crashed"}
    <3>1. CASE GoOn
      BY <3>1 DEF GoOn, Following, IInv, TypeOK
    <3>2. CASE BuildNow
      BY <3>2 DEF BuildNow, IInv, TypeOK
    <3>3. CASE Render
      BY <3>3 DEF Render, IInv, TypeOK
    <3> QED
      BY <1>2, <3>1, <3>2, <3>3
  <2> QED
    BY <2>1, Kept DEF IInv, TypeOK, Histories
<1> QED
  BY <1>1, <1>2, FileRead, InputEntered, OutputEntered, ActionEntered, ThingEntered,
     EventEntered, ReadBack DEF Next

(* Whatever is entered, the description and the list that is rendered are  *)
(* made of what they should be, and names are apart where the prompts ask  *)
(* again for a name that was taken (lines 132-154, 666-913, 1230-1400).    *)
THEOREM SessionTyped == Spec => []TypeOK
<1>1. IInv => TypeOK
  BY DEF IInv
<1> QED
  BY <1>1, IInvInit, IInvNext, PTL DEF Spec

(* Of an action none of whose files was refused, the inputs and the output *)
(* that are rendered are those that were entered, in both sessions (lines  *)
(* 666-753, 756-913, 1230-1265, 1380-1400).                                *)
THEOREM SessionRendersEntered == Spec => []RenderedAsEntered
<1>1. IInv => RenderedAsEntered
  <2>1. ASSUME IInv  PROVE DOMAIN functions = DOMAIN td.actions
    BY <2>1 DEF IInv, TypeOK
  <2> QED
    BY <2>1 DEF IInv, Histories, RenderedAsEntered
<1> QED
  BY <1>1, IInvInit, IInvNext, PTL DEF Spec

LEMMA SessionThing ==
  ASSUME IInv
  PROVE  /\ Thing(td)
         /\ \A a, b \in 1 .. A(td) : td.actions[a].name = td.actions[b].name => a = b
<1>1. /\ td.props \in Seq(Listings) /\ td.actions \in Seq(Recipes) /\ Apart(td.actions)
  BY DEF IInv, TypeOK, Listings, Recipes
<1>2. Len(td.props) \in Nat /\ Len(td.actions) \in Nat /\ DOMAIN td.actions = 1 .. A(td)
  BY <1>1 DEF A
<1> QED
  BY <1>1, <1>2 DEF Thing, Apart

(* Whatever a user enters, every HTTP request of the sketch is answered by *)
(* the function of its endpoint (template, lines 745-760, 958-960,         *)
(* 1008-1061).                                                             *)
THEOREM HttpTableStaysRight == Spec => []HttpTableIsRight
<1>1. IInv => HttpTableIsRight
  BY SessionThing, HttpTableAlwaysRight DEF HttpTableIsRight
<1> QED
  BY <1>1, IInvInit, IInvNext, PTL DEF Spec

(* Whatever a user enters, the WebSocket requests of the sketch are        *)
(* answered by the functions of their endpoints exactly if the Thing is    *)
(* orderly (template, lines 309-327, 761-816, 1955-2024, 2255-2287).       *)
THEOREM WsTableStaysRightIfOrderly == Spec => []WsTableIsRightIfOrderly
<1>1. IInv => WsTableIsRightIfOrderly
  BY SessionThing, WsTableRightIffOrderly DEF WsTableIsRightIfOrderly
<1> QED
  BY <1>1, IInvInit, IInvNext, PTL DEF Spec

-------------------------------------------------------------------------------
(* The dialogue about terms of forms.                                      *)

States == [two : BOOLEAN, http : BOOLEAN, ws : BOOLEAN,
           known : [Protocols -> SUBSET TermNames],
           forms : [Protocols -> [TermNames -> Nat]], asked : Nat]

LEMMA DialogueIs ==
  ASSUME NEW d \in Dialogues
  PROVE  /\ Len(d) \in Nat /\ DOMAIN d = 1 .. Len(d)
         /\ \A n \in 1 .. Len(d) : d[n] \in Answers
<1>1. PICK N \in 0 .. MaxAnswers : d \in [1 .. N -> Answers]
  BY DEF Dialogues, BoundedSeq, SeqOf
<1>2. N \in Nat
  BY AnswersAssumption
<1>3. d \in Seq(Answers)
  BY <1>1, <1>2, SeqDef
<1> QED
  BY <1>3

(* What the dialogue came to after each answer exists, by induction on the *)
(* number of answers.                                                      *)
LEMMA AfterEach ==
  ASSUME NEW two, NEW d \in Dialogues, NEW s, s = AddTerms(two, d)
  PROVE  /\ s[0] = Start(two)
         /\ \A n \in 1 .. Len(d) : s[n] = AddTerm(s[n - 1], d[n])
<1> DEFINE Good(t, m) == t = [n \in 0 .. m |-> IF n = 0 THEN Start(two)
                                              ELSE AddTerm(t[n - 1], d[n])]
           T == {m \in Nat : \E t : Good(t, m)}
<1>1. \E t : Good(t, 0)
  <2>1. PICK t : t = [n \in 0 .. 0 |-> Start(two)]
    OBVIOUS
  <2>2. Good(t, 0)
    BY <2>1
  <2> QED
    BY <2>2
<1>2. ASSUME NEW m \in Nat, NEW t, Good(t, m)  PROVE \E u : Good(u, m + 1)
  <2>1. PICK u : u = [n \in 0 .. m + 1 |->
                        IF n = m + 1 THEN AddTerm(t[m], d[m + 1]) ELSE t[n]]
    OBVIOUS
  <2>2. \A n \in 0 .. m : u[n] = t[n]
    BY <2>1
  <2>3. ASSUME NEW n \in 0 .. m + 1
        PROVE  u[n] = IF n = 0 THEN Start(two) ELSE AddTerm(u[n - 1], d[n])
    <3>1. CASE n = m + 1
      <4>1. u[n] = AddTerm(t[m], d[m + 1]) /\ n # 0 /\ n - 1 = m /\ m \in 0 .. m
        BY <2>1, <3>1
      <4> QED
        BY <2>2, <3>1, <4>1
    <3>2. CASE n = 0
      <4>1. u[n] = t[n] /\ n \in 0 .. m
        BY <2>2, <3>2
      <4> QED
        BY <1>2, <3>2, <4>1
    <3>3. CASE n # m + 1 /\ n # 0
      <4>1. n \in 0 .. m /\ n - 1 \in 0 .. m
        BY <3>3
      <4>2. u[n] = t[n] /\ u[n - 1] = t[n - 1]
        BY <2>2, <4>1
      <4> QED
        BY <1>2, <3>3, <4>1, <4>2
    <3> QED
      BY <3>1, <3>2, <3>3
  <2>4. Good(u, m + 1)
    BY <2>1, <2>3
  <2> QED
    BY <2>4
<1> HIDE DEF Good
<1>3. 0 \in T /\ \A m \in Nat : m \in T => m + 1 \in T
  BY <1>1, <1>2
<1>4. Len(d) \in T
  <2> HIDE DEF T
  <2> QED
    BY <1>3, AllNaturals, DialogueIs
<1>5. \E t : Good(t, Len(d))
  BY <1>4
<1>6. s = CHOOSE t : Good(t, Len(d))
  BY DEF AddTerms, Good
<1>7. Good(s, Len(d))
  BY <1>5, <1>6
<1>8. Len(d) \in Nat
  BY DialogueIs
<1>9. s[0] = Start(two)
  BY <1>7, <1>8 DEF Good
<1>10. ASSUME NEW n \in 1 .. Len(d)  PROVE s[n] = AddTerm(s[n - 1], d[n])
  BY <1>7, <1>8 DEF Good
<1> QED
  BY <1>9, <1>10

(* What an answer changes.                                                 *)
LEMMA ChoiceKept ==
  ASSUME NEW S \in States, NEW protocol \in Protocols, NEW C,
         C = Choose([S EXCEPT !.asked = @ + 1], protocol)
  PROVE  /\ C \in States /\ C.two = S.two /\ C.asked = S.asked + 1
         /\ C.known = S.known /\ C.forms = S.forms
         /\ C.ws <=> S.ws \/ (S.two /\ protocol = "WS")
         /\ C.http <=> S.http \/ (S.two /\ protocol = "HTTP")
<1>1. PICK R : R = [S EXCEPT !.asked = S.asked + 1]
  OBVIOUS
<1>2. /\ R \in States /\ R.two = S.two /\ R.asked = S.asked + 1
      /\ R.known = S.known /\ R.forms = S.forms /\ R.ws = S.ws /\ R.http = S.http
  BY <1>1 DEF States
<1>3. C = Choose(R, protocol)
  BY <1>1
<1>4. CASE ~S.two
  BY <1>2, <1>3, <1>4 DEF Choose
<1>5. CASE S.two /\ protocol = "HTTP"
  <2>1. C = [R EXCEPT !.http = TRUE]
    BY <1>2, <1>3, <1>5 DEF Choose
  <2> QED
    BY <1>2, <1>5, <2>1 DEF States
<1>6. CASE S.two /\ protocol = "WS"
  <2>1. C = [R EXCEPT !.ws = TRUE]
    BY <1>2, <1>3, <1>6 DEF Choose
  <2> QED
    BY <1>2, <1>6, <2>1 DEF States
<1> QED
  BY <1>4, <1>5, <1>6 DEF Protocols

AnswerIs(R, C, answer) ==
  /\ R \in States /\ R.two = C.two /\ R.asked = C.asked
  /\ R.ws = C.ws /\ R.http = C.http
  /\ IF \E p \in Checked(C) : answer.name \in C.known[p]
     THEN R = C
     ELSE /\ \A p \in Protocols :
               R.known[p] = IF p \in ListedIn(C) THEN C.known[p] \cup {answer.name}
                            ELSE C.known[p]
          /\ \A p \in Protocols, n \in TermNames :
               R.forms[p][n] = IF p = Written(C) /\ n = answer.name
                               THEN C.asked ELSE C.forms[p][n]
  /\ \A p \in Protocols : p # Written(C) => R.forms[p] = C.forms[p]

LEMMA Answered ==
  ASSUME NEW S \in States, NEW answer \in Answers, NEW C,
         C = Choose([S EXCEPT !.asked = @ + 1], answer.protocol),
         NEW R, R = AddTerm(S, answer)
  PROVE  AnswerIs(R, C, answer)
<1>1. answer.protocol \in Protocols /\ answer.name \in TermNames
  BY DEF Answers
<1>2. C \in States
  BY <1>1, ChoiceKept
<1>3. CASE \E p \in Checked(C) : answer.name \in C.known[p]
  <2>1. R = C
    BY <1>3 DEF AddTerm
  <2> QED
    BY <1>2, <1>3, <2>1 DEF AnswerIs
<1>4. CASE ~\E p \in Checked(C) : answer.name \in C.known[p]
  <2>1. PICK w \in Protocols : w = Written(C)
    BY DEF Written, Protocols
  <2>2. PICK known : known = [p \in Protocols |-> IF p \in ListedIn(C)
                                                  THEN C.known[p] \cup {answer.name}
                                                  ELSE C.known[p]]
    OBVIOUS
  <2>3. PICK one : one = [C.forms[w] EXCEPT ![answer.name] = C.asked]
    OBVIOUS
  <2>4. PICK forms : forms = [C.forms EXCEPT ![w] = one]
    OBVIOUS
  <2>5. R = [C EXCEPT !.known = known, !.forms = forms]
    <3>1. R = [C EXCEPT !.known = [p \in Protocols |->
                                     IF p \in ListedIn(C) THEN C.known[p] \cup {answer.name}
                                     ELSE C.known[p]],
                        !.forms[Written(C)][answer.name] = C.asked]
      BY <1>4 DEF AddTerm
    <3> QED
      BY <2>1, <2>2, <2>3, <2>4, <3>1
  <2>6. known \in [Protocols -> SUBSET TermNames]
    <3>1. \A p \in Protocols : C.known[p] \in SUBSET TermNames
      BY <1>2 DEF States
    <3> QED
      BY <1>1, <2>2, <3>1
  <2>7. /\ C.forms \in [Protocols -> [TermNames -> Nat]] /\ C.asked \in Nat
        /\ C.forms[w] \in [TermNames -> Nat]
    BY <1>2 DEF States
  <2>8. /\ one \in [TermNames -> Nat]
        /\ \A n \in TermNames : one[n] = IF n = answer.name THEN C.asked ELSE C.forms[w][n]
    BY <2>3, <2>7
  <2>9. /\ forms \in [Protocols -> [TermNames -> Nat]]
        /\ \A p \in Protocols : forms[p] = IF p = w THEN one ELSE C.forms[p]
    BY <2>4, <2>7, <2>8
  <2>10. /\ R \in States /\ R.two = C.two /\ R.asked = C.asked /\ R.ws = C.ws
         /\ R.http = C.http /\ R.known = known /\ R.forms = forms
    BY <1>2, <2>5, <2>6, <2>9 DEF States
  <2>11. \A p \in Protocols, n \in TermNames :
           R.forms[p][n] = IF p = Written(C) /\ n = answer.name
                           THEN C.asked ELSE C.forms[p][n]
    BY <2>1, <2>8, <2>9, <2>10
  <2>12. \A p \in Protocols :
           R.known[p] = IF p \in ListedIn(C) THEN C.known[p] \cup {answer.name}
                        ELSE C.known[p]
    BY <2>2, <2>10
  <2>13. \A p \in Protocols : p # Written(C) => R.forms[p] = C.forms[p]
    BY <2>1, <2>9, <2>10
  <2> QED
    BY <1>4, <2>10, <2>11, <2>12, <2>13 DEF AnswerIs
<1> QED
  BY <1>3, <1>4

LEMMA StartTyped == \A two \in BOOLEAN : Start(two) \in States
  BY DEF Start, States

(* After each answer: ws is set exactly if there are two forms and a term  *)
(* was asked for the WebSocket form.                                       *)
LEMMA FlagAfterEach ==
  ASSUME NEW two \in BOOLEAN, NEW d \in Dialogues, NEW s, s = AddTerms(two, d)
  PROVE  \A n \in 0 .. Len(d) :
           /\ s[n] \in States /\ s[n].two = two
           /\ s[n].ws <=> two /\ \E m \in 1 .. n : d[m].protocol = "WS"
<1> DEFINE Right(n) == n <= Len(d) =>
             /\ s[n] \in States /\ s[n].two = two
             /\ s[n].ws <=> two /\ \E m \in 1 .. n : d[m].protocol = "WS"
           T == {n \in Nat : Right(n)}
<1>1. /\ s[0] = Start(two) /\ Len(d) \in Nat
      /\ \A n \in 1 .. Len(d) : s[n] = AddTerm(s[n - 1], d[n]) /\ d[n] \in Answers
  BY AfterEach, DialogueIs
<1>2. Right(0)
  <2>1. s[0] \in States
    BY <1>1, StartTyped
  <2>2. s[0].two = two /\ s[0].ws = FALSE
    BY <1>1 DEF Start
  <2>3. ~\E m \in 1 .. 0 : d[m].protocol = "WS"
    OBVIOUS
  <2> QED
    BY <2>1, <2>2, <2>3
<1>3. ASSUME NEW n \in Nat, Right(n)  PROVE Right(n + 1)
  <2> SUFFICES ASSUME n + 1 <= Len(d)
               PROVE  /\ s[n + 1] \in States /\ s[n + 1].two = two
                      /\ s[n + 1].ws <=> two /\ \E m \in 1 .. n + 1 : d[m].protocol = "WS"
    OBVIOUS
  <2>1. n + 1 \in 1 .. Len(d) /\ n <= Len(d) /\ (n + 1) - 1 = n
    BY <1>1
  <2>2. PICK S : S = s[n] /\ S \in States /\ S.two = two
                 /\ (S.ws <=> two /\ \E m \in 1 .. n : d[m].protocol = "WS")
    BY <1>3, <2>1
  <2>3. PICK a : a = d[n + 1] /\ a \in Answers
    BY <1>1, <2>1
  <2>4. PICK R : R = s[n + 1] /\ R = AddTerm(S, a)
    BY <1>1, <2>1, <2>2, <2>3
  <2>5. PICK C : C = Choose([S EXCEPT !.asked = @ + 1], a.protocol)
    OBVIOUS
  <2>6. a.protocol \in Protocols
    BY <2>3 DEF Answers
  <2>7. C.two = S.two /\ (C.ws <=> S.ws \/ (S.two /\ a.protocol = "WS"))
    BY <2>2, <2>5, <2>6, ChoiceKept
  <2>8. R \in States /\ R.two = C.two /\ R.ws = C.ws
    BY <2>2, <2>3, <2>4, <2>5, Answered DEF AnswerIs
  <2>9. (\E m \in 1 .. n + 1 : d[m].protocol = "WS")
          <=> (\E m \in 1 .. n : d[m].protocol = "WS") \/ a.protocol = "WS"
    <3>1. 1 .. n + 1 = (1 .. n) \cup {n + 1}
      OBVIOUS
    <3> QED
      BY <2>3, <3>1
  <2> QED
    BY <2>2, <2>4, <2>7, <2>8, <2>9
<1> HIDE DEF Right
<1>4. 0 \in T /\ \A n \in Nat : n \in T => n + 1 \in T
  BY <1>2, <1>3
<1>5. \A n \in Nat : n \in T
  <2> HIDE DEF T
  <2> QED
    BY <1>4, AllNaturals
<1>6. ASSUME NEW n \in 0 .. Len(d)
      PROVE  /\ s[n] \in States /\ s[n].two = two
             /\ s[n].ws <=> two /\ \E m \in 1 .. n : d[m].protocol = "WS"
  <2>1. n \in Nat /\ n <= Len(d)
    BY <1>1
  <2>2. Right(n)
    BY <1>5, <2>1
  <2> QED
    BY <2>1, <2>2 DEF Right
<1> QED
  BY <1>6

(* Whatever is answered, a term lands in the HTTP form until one was asked *)
(* for the WebSocket form, and in that from then on (lines 199-273).       *)
THEOREM TermsLandAsAsked == ASSUME NEW two \in BOOLEAN  PROVE LandsAsAsked(two)
<1> SUFFICES ASSUME NEW d \in Dialogues, NEW n \in DOMAIN d, NEW p \in Protocols,
                    p # IF two /\ \E m \in 1 .. n : d[m].protocol = "WS" THEN "WS" ELSE "HTTP"
             PROVE  AddTerms(two, d)[n].forms[p] = AddTerms(two, d)[n - 1].forms[p]
  BY DEF LandsAsAsked
<1>1. PICK s : s = AddTerms(two, d)
  OBVIOUS
<1>2. /\ n \in 1 .. Len(d) /\ n - 1 \in 0 .. Len(d) /\ n \in 0 .. Len(d)
      /\ d[n] \in Answers /\ s[n] = AddTerm(s[n - 1], d[n])
  <2>1. Len(d) \in Nat /\ n \in 1 .. Len(d)
    BY DialogueIs
  <2> QED
    BY <1>1, <2>1, AfterEach, DialogueIs
<1>3. /\ s[n - 1] \in States
      /\ s[n].ws <=> two /\ \E m \in 1 .. n : d[m].protocol = "WS"
  BY <1>1, <1>2, FlagAfterEach
<1>4. PICK C : C = Choose([s[n - 1] EXCEPT !.asked = @ + 1], d[n].protocol)
  OBVIOUS
<1>5. C.forms = s[n - 1].forms
  <2>1. d[n].protocol \in Protocols
    BY <1>2 DEF Answers
  <2> QED
    BY <1>3, <1>4, <2>1, ChoiceKept
<1>6. s[n].ws = C.ws /\ (p # Written(C) => s[n].forms[p] = C.forms[p])
  BY <1>2, <1>3, <1>4, Answered DEF AnswerIs
<1>7. p # Written(C)
  BY <1>3, <1>6 DEF Written
<1> QED
  BY <1>1, <1>5, <1>6, <1>7

(* In a dialogue that stays with one of two forms, after n answers: only   *)
(* the flag of that form is set, its list has the names of the answers, and*)
(* each name holds the value of an answer no later than the first.         *)
OneForm(S, d, p, n) ==
  /\ S \in States /\ S.two = TRUE /\ S.asked = n
  /\ S.http => p = "HTTP"
  /\ S.ws => p = "WS"
  /\ \A name \in TermNames : name \in S.known[p] <=> \E m \in 1 .. n : d[m].name = name
  /\ \A k \in 1 .. n : \E m \in 1 .. k : d[m].name = d[k].name /\ S.forms[p][d[k].name] = m

LEMMA OneFormStart == ASSUME NEW p \in Protocols, NEW d  PROVE OneForm(Start(TRUE), d, p, 0)
<1>1. Start(TRUE) \in States
  BY StartTyped
<1>2. PICK S : S = Start(TRUE)
  OBVIOUS
<1>3. S.two = TRUE /\ S.http = FALSE /\ S.ws = FALSE /\ S.asked = 0
  BY <1>2 DEF Start
<1>4. S.known[p] = {}
  BY <1>2 DEF Start
<1>5. 1 .. 0 = {}
  OBVIOUS
<1> QED
  BY <1>1, <1>2, <1>3, <1>4, <1>5 DEF OneForm

LEMMA OneFormStep ==
  ASSUME NEW p \in Protocols, NEW n \in Nat, NEW d, NEW S, OneForm(S, d, p, n),
         \A k \in 1 .. n + 1 : d[k] \in Answers /\ d[k].protocol = p,
         NEW R, R = AddTerm(S, d[n + 1])
  PROVE  OneForm(R, d, p, n + 1)
<1>1. PICK a \in Answers : a = d[n + 1] /\ a.protocol = p
  OBVIOUS
<1>2. a.name \in TermNames /\ a.protocol \in Protocols
  BY DEF Answers
<1>3. PICK C : C = Choose([S EXCEPT !.asked = @ + 1], a.protocol)
  OBVIOUS
<1>4. S \in States
  BY DEF OneForm
<1>5. /\ C \in States /\ C.two = S.two /\ C.asked = S.asked + 1
      /\ C.known = S.known /\ C.forms = S.forms
      /\ C.ws <=> S.ws \/ (S.two /\ a.protocol = "WS")
      /\ C.http <=> S.http \/ (S.two /\ a.protocol = "HTTP")
  BY ONLY <1>2, <1>3, <1>4, ChoiceKept
<1>6. S.two = TRUE /\ S.asked = n /\ (S.http => p = "HTTP") /\ (S.ws => p = "WS")
  BY DEF OneForm
<1>7. C.two = TRUE /\ C.asked = n + 1 /\ (C.ws <=> p = "WS") /\ (C.http <=> p = "HTTP")
  BY <1>1, <1>5, <1>6
<1>8. Checked(C) = {p} /\ ListedIn(C) = {p} /\ Written(C) = p
  BY <1>7 DEF Checked, ListedIn, Written, Protocols
<1>9. AnswerIs(R, C, a)
  <2>1. R = AddTerm(S, a)
    BY <1>1
  <2> QED
    BY ONLY <1>3, <1>4, <2>1, Answered
<1>10. R \in States /\ R.two = C.two /\ R.asked = C.asked /\ R.ws = C.ws /\ R.http = C.http
  BY <1>9 DEF AnswerIs
<1>11. ASSUME a.name \in C.known[p]  PROVE R = C
  BY <1>8, <1>9, <1>11 DEF AnswerIs
<1>12. ASSUME a.name \notin C.known[p]
       PROVE  /\ R.known[p] = C.known[p] \cup {a.name}
              /\ \A k \in TermNames : R.forms[p][k] = IF k = a.name THEN C.asked ELSE C.forms[p][k]
  BY <1>8, <1>9, <1>12 DEF AnswerIs
<1>13. /\ \A name \in TermNames : name \in S.known[p] <=> \E m \in 1 .. n : d[m].name = name
       /\ \A k \in 1 .. n :
            \E m \in 1 .. k : d[m].name = d[k].name /\ S.forms[p][d[k].name] = m
  BY DEF OneForm
<1>14. 1 .. n + 1 = (1 .. n) \cup {n + 1}
  OBVIOUS
<1>15. ASSUME NEW name \in TermNames
       PROVE  name \in R.known[p] <=> \E m \in 1 .. n + 1 : d[m].name = name
  <2>1. (\E m \in 1 .. n + 1 : d[m].name = name)
          <=> (\E m \in 1 .. n : d[m].name = name) \/ a.name = name
    BY <1>1, <1>14
  <2>2. name \in R.known[p] <=> name \in S.known[p] \/ a.name = name
    <3>1. CASE a.name \in C.known[p]
      BY <1>5, <1>11, <3>1
    <3>2. CASE a.name \notin C.known[p]
      BY <1>5, <1>12, <3>2
    <3> QED
      BY <3>1, <3>2
  <2> QED
    BY <1>13, <2>1, <2>2
<1>16. CASE a.name \in C.known[p]
  <2>1. R = C
    BY <1>16, <1>11
  <2>2. R.forms = S.forms
    BY <1>5, <2>1
  <2>3. \E m \in 1 .. n + 1 : d[m].name = d[n + 1].name /\ R.forms[p][d[n + 1].name] = m
    <3>1. PICK j \in 1 .. n : d[j].name = a.name
      BY <1>2, <1>5, <1>13, <1>16
    <3>2. PICK m \in 1 .. j : d[m].name = d[j].name /\ S.forms[p][d[j].name] = m
      BY <1>13
    <3>3. m \in 1 .. n + 1
      OBVIOUS
    <3> QED
      BY <1>1, <2>2, <3>1, <3>2, <3>3
  <2>4. ASSUME NEW k \in 1 .. n + 1
        PROVE  \E m \in 1 .. k : d[m].name = d[k].name /\ R.forms[p][d[k].name] = m
    <3>1. k \in 1 .. n \/ k = n + 1
      BY <1>14
    <3> QED
      BY <1>13, <2>2, <2>3, <3>1
  <2> QED
    BY <1>7, <1>10, <1>15, <2>4 DEF OneForm
<1>17. CASE a.name \notin C.known[p]
  <2>1. \A k \in TermNames :
          R.forms[p][k] = IF k = a.name THEN n + 1 ELSE S.forms[p][k]
    BY <1>5, <1>7, <1>17, <1>12
  <2>2. ASSUME NEW k \in 1 .. n
        PROVE  \E m \in 1 .. k : d[m].name = d[k].name /\ R.forms[p][d[k].name] = m
    <3>1. d[k].name \in TermNames
      <4>1. d[k] \in Answers
        BY <1>14
      <4> QED
        BY <4>1 DEF Answers
    <3>2. d[k].name # a.name
      BY <1>2, <1>5, <1>13, <1>17
    <3>3. R.forms[p][d[k].name] = S.forms[p][d[k].name]
      BY <2>1, <3>1, <3>2
    <3> QED
      BY <1>13, <3>3
  <2>3. n + 1 \in 1 .. n + 1 /\ R.forms[p][d[n + 1].name] = n + 1
    BY <1>1, <1>2, <2>1
  <2>4. ASSUME NEW k \in 1 .. n + 1
        PROVE  \E m \in 1 .. k : d[m].name = d[k].name /\ R.forms[p][d[k].name] = m
    <3>1. k \in 1 .. n \/ k = n + 1
      BY <1>14
    <3> QED
      BY <2>2, <2>3, <3>1
  <2> QED
    BY <1>7, <1>10, <1>15, <2>4 DEF OneForm
<1> QED
  BY <1>16, <1>17

LEMMA OneFormAfterEach ==
  ASSUME NEW d \in Dialogues, NEW p \in Protocols,
         \A n \in DOMAIN d : d[n].protocol = p,
         NEW s, s = AddTerms(TRUE, d)
  PROVE  OneForm(s[Len(d)], d, p, Len(d))
<1> DEFINE Right(n) == n <= Len(d) => OneForm(s[n], d, p, n)
           T == {n \in Nat : Right(n)}
<1>1. /\ s[0] = Start(TRUE) /\ Len(d) \in Nat
      /\ \A n \in 1 .. Len(d) : /\ s[n] = AddTerm(s[n - 1], d[n]) /\ d[n] \in Answers
                                /\ d[n].protocol = p
  BY AfterEach, DialogueIs
<1>2. Right(0)
  BY <1>1, OneFormStart
<1>3. ASSUME NEW n \in Nat, Right(n)  PROVE Right(n + 1)
  <2>1. ASSUME n + 1 <= Len(d)  PROVE OneForm(s[n + 1], d, p, n + 1)
    <3>1. n + 1 \in 1 .. Len(d) /\ n <= Len(d) /\ (n + 1) - 1 = n
      BY <1>1, <2>1
    <3>2. OneForm(s[n], d, p, n)
      BY <1>3, <3>1
    <3>3. \A k \in 1 .. n + 1 : d[k] \in Answers /\ d[k].protocol = p
      <4>1. \A k \in 1 .. n + 1 : k \in 1 .. Len(d)
        BY <1>1, <2>1
      <4> QED
        BY <1>1, <4>1
    <3>4. s[n + 1] = AddTerm(s[n], d[n + 1])
      BY <1>1, <3>1
    <3> QED
      BY <3>2, <3>3, <3>4, OneFormStep
  <2> QED
    BY <2>1
<1> HIDE DEF Right
<1>4. 0 \in T /\ \A n \in Nat : n \in T => n + 1 \in T
  BY <1>2, <1>3
<1>5. Len(d) \in T
  <2> HIDE DEF T
  <2> QED
    BY <1>1, <1>4, AllNaturals
<1>6. Right(Len(d)) /\ Len(d) <= Len(d)
  BY <1>1, <1>5
<1> QED
  BY <1>6 DEF Right

(* With two forms, a dialogue that stays with one of them replaces no term *)
(* (lines 199-273).                                                        *)
THEOREM FirstTermStays == FirstStays
<1> SUFFICES ASSUME NEW d \in Dialogues, NEW p \in Protocols,
                    \A n \in DOMAIN d : d[n].protocol = p,
                    NEW k \in DOMAIN d
             PROVE  \E m \in 1 .. k : d[m].name = d[k].name
                                      /\ AddTerms(TRUE, d)[Len(d)].forms[p][d[k].name] = m
  BY DEF FirstStays
<1>1. k \in 1 .. Len(d)
  BY DialogueIs
<1>2. PICK s : s = AddTerms(TRUE, d)
  OBVIOUS
<1>3. OneForm(s[Len(d)], d, p, Len(d))
  BY <1>2, OneFormAfterEach
<1> QED
  BY <1>1, <1>2, <1>3 DEF OneForm

(* In every state of a session a term of the Thing lands in the form it was*)
(* asked for, until one is asked for the WebSocket form (lines 199-273).   *)
THEOREM SessionTermsLandAsAsked == Spec => []HttpTermsFirst
<1>1. IInv => HttpTermsFirst
  <2>1. (td.forms = 2) \in BOOLEAN
    OBVIOUS
  <2> QED
    BY <2>1, TermsLandAsAsked DEF HttpTermsFirst
<1> QED
  BY <1>1, IInvInit, IInvNext, PTL DEF Spec

(* In every state of a session a dialogue about two forms replaces a term  *)
(* only after the form was changed (lines 199-273).                        *)
THEOREM SessionTermsStay == Spec => []ReplacedOnlyAfterChange
<1>1. IInv => ReplacedOnlyAfterChange
  BY FirstTermStays DEF ReplacedOnlyAfterChange
<1> QED
  BY <1>1, IInvInit, IInvNext, PTL DEF Spec
===============================================================================
