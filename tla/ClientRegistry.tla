---------------------------- MODULE ClientRegistry ----------------------------
(***************************************************************************)
(* The JSON registries the generated servient keeps about its WebSocket    *)
(* consumers.  There are two, of the same shape: one for event channels    *)
(* (ipe_arr, ipe_doc, e_doc) and one for property and action channels      *)
(* (ipia_arr, ipia_doc, ia_doc).  A registry is a record with              *)
(*                                                                         *)
(*   arr   ipe_arr, the array of {"ip", "num"} objects, in its order;      *)
(*   num   ipe_doc[ip], the socket number kept for an address (NoNum when  *)
(*         the key is absent);                                             *)
(*   doc   e_doc[ip], the array of one-key objects {name: flag} of an      *)
(*         address.  The code never leaves such an array empty, so <<>>    *)
(*         stands for an absent key (isNull()).                            *)
(*                                                                         *)
(* A name is its index (from 1) in events_list or ws_requests; Junk is the *)
(* name of an object whose key was read outside the list.                  *)
(***************************************************************************)
EXTENDS Integers, Sequences, SequencesExt

CONSTANTS Addr,       \* the addresses a socket can be recorded under
          ClientMax   \* WEBSOCKETS_SERVER_CLIENT_MAX, the number of slots

ASSUME ClientMaxAssumption == ClientMax \in Nat \ {0}

Nums  == 0 .. ClientMax - 1
NoNum == -1
Junk  == 0

Owner == [ip : Addr, num : Nums]
Entry(keys) == [key : keys \cup {Junk}, flag : BOOLEAN]

Registry(keys) == [arr : Seq(Owner),
                   num : [Addr -> Nums \cup {NoNum}],
                   doc : [Addr -> Seq(Entry(keys))]]

EmptyRegistry == [arr |-> << >>,
                  num |-> [a \in Addr |-> NoNum],
                  doc |-> [a \in Addr |-> << >>]]

-------------------------------------------------------------------------------
(* Where the scan  for(i=0; i<arr.size(); i++) if(arr[i]["num"] == num)    *)
(* stops, counted from 1: at the first object of socket n, or one past the *)
(* end.                                                                    *)
StopsAt(r, n) ==
  LET hits == {i \in DOMAIN r.arr : r.arr[i].num = n}
  IN  IF hits = {} THEN Len(r.arr) + 1 ELSE Min(hits)

IsOwner(r, n) == \E i \in DOMAIN r.arr : r.arr[i].num = n

(* Mutant of HasKey: only the first object of the address is looked at.    *)
HasKeyFirstOnly(r, a, key) == r.doc[a] # << >> /\ r.doc[a][1].key = key

HasKey(r, a, key) == \E i \in DOMAIN r.doc[a] : r.doc[a][i].key = key

(* Mutant of Flagged: the flag is not looked at.                           *)
FlaggedAlways(r, a, key) == {i \in DOMAIN r.doc[a] : r.doc[a][i].key = key}

Flagged(r, a, key) ==
  {i \in DOMAIN r.doc[a] : r.doc[a][i].key = key /\ r.doc[a][i].flag}

(* Mutants of Forget: the address keeps its objects; the last object of    *)
(* arr leaves instead of the one found.                                    *)
ForgetKeepsDoc(r, n) ==
  LET i == StopsAt(r, n)
  IN  IF IsOwner(r, n)
      THEN [arr |-> RemoveAt(r.arr, i),
            num |-> [r.num EXCEPT ![r.arr[i].ip] = NoNum],
            doc |-> r.doc]
      ELSE r

ForgetLast(r, n) ==
  LET a == Last(r.arr).ip
  IN  IF IsOwner(r, n)
      THEN [arr |-> Front(r.arr),
            num |-> [r.num EXCEPT ![a] = NoNum],
            doc |-> [r.doc EXCEPT ![a] = << >>]]
      ELSE r

(* The disconnection branch: the first object of socket n leaves arr, and  *)
(* everything kept under its address leaves the two documents.             *)
Forget(r, n) ==
  LET i == StopsAt(r, n)
      a == r.arr[i].ip
  IN  IF IsOwner(r, n)
      THEN [arr |-> RemoveAt(r.arr, i),
            num |-> [r.num EXCEPT ![a] = NoNum],
            doc |-> [r.doc EXCEPT ![a] = << >>]]
      ELSE r

(* Mutant of Record: ipe_doc is not written.                               *)
RecordWithoutNum(r, a, n, entry) ==
  [r EXCEPT !.arr = IF r.doc[a] = << >> THEN Append(@, [ip |-> a, num |-> n]) ELSE @,
            !.doc[a] = Append(@, entry)]

(* The connection branch: an address nothing is kept under gets socket n   *)
(* as its owner, and in both cases a new object is appended to its array.  *)
Record(r, a, n, entry) ==
  LET new == r.doc[a] = << >>
  IN  [arr |-> IF new THEN Append(r.arr, [ip |-> a, num |-> n]) ELSE r.arr,
       num |-> IF new THEN [r.num EXCEPT ![a] = n] ELSE r.num,
       doc |-> [r.doc EXCEPT ![a] = Append(@, entry)]]

(* Mutant of SetFlag: a confirmed subscription leaves the flag as it was.  *)
SetFlagNever(r, a, i, flag) == [r EXCEPT !.doc[a][i].flag = FALSE]

SetFlag(r, a, i, flag) == [r EXCEPT !.doc[a][i].flag = flag]

(* What the code writes through a JsonObject it still holds after the      *)
(* disconnection branch ran: the last object of the address, or memory no  *)
(* document reaches any more.                                              *)
Overwrite(r, a, entry) ==
  IF r.doc[a] = << >> THEN r
                      ELSE [r EXCEPT !.doc[a][Len(r.doc[a])] = entry]

-------------------------------------------------------------------------------
(* The three documents name the same addresses, each address once, and the *)
(* socket kept for an address is that of its object in arr.                *)
KeysAgree(r) ==
  /\ \A i, j \in DOMAIN r.arr : r.arr[i].ip = r.arr[j].ip => i = j
  /\ \A i \in DOMAIN r.arr : r.num[r.arr[i].ip] = r.arr[i].num
  /\ \A a \in Addr : r.doc[a] # << >> <=> \E i \in DOMAIN r.arr : r.arr[i].ip = a
  /\ \A a \in Addr : r.num[a] # NoNum <=> r.doc[a] # << >>

(* No address has two objects for the same name.                           *)
OneEntryPerKey(r) ==
  \A a \in Addr : \A i, j \in DOMAIN r.doc[a] :
    r.doc[a][i].key = r.doc[a][j].key => i = j

(* No socket number is recorded twice.                                     *)
OwnersDistinct(r) ==
  \A i, j \in DOMAIN r.arr : r.arr[i].num = r.arr[j].num => i = j
===============================================================================
