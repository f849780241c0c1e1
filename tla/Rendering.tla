------------------------------- MODULE Rendering -------------------------------
(***************************************************************************)
(* What the template makes of a Thing: the table of HTTP requests, the     *)
(* tables of WebSocket requests, and the function that each ends up in.    *)
(*                                                                         *)
(* The tables are filled by different loops, each with its own way of      *)
(* counting: by the place of a property or action in the Thing, by its     *)
(* place among those with a WebSocket form, or by its name.                *)
(*                                                                         *)
(* A Thing td is a record of its title, the number of its forms, the       *)
(* sequences of its properties and actions (each with a name and 1 or 2    *)
(* forms, the second being WebSocket) and the sequence of its events.      *)
(***************************************************************************)
EXTENDS Naturals, Sequences, FiniteSets

P(td) == Len(td.props)
A(td) == Len(td.actions)

(* Endpoints, by the place of what they name.                              *)
Endpoint(kind, n) == [kind |-> kind, n |-> n]
Root        == Endpoint("root", 0)
Description == Endpoint("description", 0)
All         == Endpoint("properties", 0)
Property(p) == Endpoint("property", p)
Action(a)   == Endpoint("action", a)
NotAllowed  == Endpoint("405", 0)
Nothing     == Endpoint("nothing", 0)

-------------------------------------------------------------------------------
(* HTTP.                                                                   *)

Route(method, ep) == [method |-> method, ep |-> ep]

(* The list req: the k-th entry is registered with handleReq<k>.           *)
Req(td) ==
  <<Route("GET", Root), Route("GET", Description), Route("GET", All)>>
    \o [p \in 1 .. P(td) |-> Route("GET", Property(p))]
    \o [a \in 1 .. A(td) |-> Route("POST", Action(a))]
    \o [a \in 1 .. A(td) |-> Route("GET", Action(a))]

(* What the function request<n> answers for.                               *)
Request(td, n) ==
  CASE n = 3                         -> All
    [] n - 3 \in 1 .. P(td)          -> Property(n - 3)
    [] n - (3 + P(td)) \in 1 .. A(td) -> Action(n - (3 + P(td)))

(* Mutant of HandleReq: the handlers that refuse a GET come before those    *)
(* that run the actions.                                                   *)
HandleReqSwapped(td, k) ==
  CASE k = 1               -> Root
    [] k = 2               -> Description
    [] k \in 3 .. 3 + P(td) -> Request(td, k)
    [] k - (3 + P(td)) \in 1 .. A(td)         -> NotAllowed
    [] k - (3 + P(td) + A(td)) \in 1 .. A(td) -> Action(k - (3 + P(td) + A(td)))

(* What handleReq<k> answers for.                                          *)
HandleReq(td, k) ==
  CASE k = 1                         -> Root
    [] k = 2                         -> Description
    [] k \in 3 .. 3 + P(td) + A(td)  -> Request(td, k)
    [] k - (3 + P(td) + A(td)) \in 1 .. A(td) -> NotAllowed

(* Each registered pair of endpoint and method is answered by the function *)
(* of that endpoint, a GET of an action by 405 (lines 745-760, 958-960,    *)
(* 1008-1061).                                                             *)
HttpTableRight(td) ==
  \A k \in DOMAIN Req(td) :
    LET r == Req(td)[k]
    IN  HandleReq(td, k) =
          IF r.method = "GET" /\ r.ep.kind = "action" THEN NotAllowed ELSE r.ep
-------------------------------------------------------------------------------
(* WebSocket.                                                              *)

(* global['isWS'].  The loop over the actions names a list that does not   *)
(* exist (line 323): actions do not count.                                 *)
IsWS(td) == td.forms = 2 \/ \E p \in 1 .. P(td) : td.props[p].forms = 2

(* Without it capacity['actions'] is undefined, and comparing it raises    *)
(* an error if there are events (lines 579-584, 2255).                     *)
Renders(td) == IsWS(td) \/ td.events = << >>

(* Without actions ws_actions is not declared, but used if there are no    *)
(* events (lines 805, 2287).                                               *)
Compiles(td) == IsWS(td) => td.events # << >> \/ td.actions # << >>

(* The sketch has a WebSocket server.                                      *)
UsesSocket(td) == td.events # << >> \/ IsWS(td)

Forms(td, ep) ==
  CASE ep = All              -> td.forms
    [] ep.kind = "property" -> td.props[ep.n].forms
    [] ep.kind = "action"   -> td.actions[ep.n].forms

NameOf(td, ep) ==
  CASE ep = All              -> td.title
    [] ep.kind = "property" -> td.props[ep.n].name
    [] ep.kind = "action"   -> td.actions[ep.n].name

(* The elements of s at the places in T, in their order.                   *)
Rank(T, n)  == Cardinality({m \in T : m < n})
Place(T, k) == CHOOSE n \in T : Rank(T, n) = k - 1
Selected(s, T) == [k \in 1 .. Cardinality(T) |-> s[Place(T, k)]]

WithSocket(td, eps) == Selected(eps, {n \in DOMAIN eps : Forms(td, eps[n]) = 2})

(* Mutant of WsActions: every action is listed.                            *)
WsActionsAll(td) == [a \in 1 .. A(td) |-> Action(a)]

(* The endpoints listed in ws_actions and in reqPropertyWS.                *)
WsActions(td) == WithSocket(td, [a \in 1 .. A(td) |-> Action(a)])

WsProperties(td) == WithSocket(td, <<All>> \o [p \in 1 .. P(td) |-> Property(p)])

(* The places of a table at which its name is that of ep; the first one is *)
(* where the search stops.                                                 *)
Named(td, table, ep) == {j \in DOMAIN table : NameOf(td, table[j]) = NameOf(td, ep)}
First(S) == CHOOSE x \in S : \A y \in S : x <= y

(* What the channel opened for ep gets its answers from: the j-th name of  *)
(* ws_actions stands for the j-th action of the Thing, whichever it is.    *)
WsAnswer(td, ep) ==
  LET asAction   == Named(td, WsActions(td), ep)
      asProperty == Named(td, WsProperties(td), ep)
  IN  CASE ~IsWS(td)      -> Nothing
        [] IsWS(td) /\ asAction # {} -> Request(td, 3 + P(td) + First(asAction))
        [] IsWS(td) /\ asAction = {} -> WsProperties(td)[First(asProperty)]

(* The endpoints that the description gives a WebSocket form.              *)
Described(td) ==
  {ep \in {All} \cup {Property(p) : p \in 1 .. P(td)} \cup {Action(a) : a \in 1 .. A(td)} :
     Forms(td, ep) = 2}

WsTableRight(td) == \A ep \in Described(td) : WsAnswer(td, ep) = ep

(* Some property or the Thing itself has a WebSocket form, if an action    *)
(* has; the actions that have one come first; and the names looked up in   *)
(* one table are apart.                                                    *)
Orderly(td) ==
  /\ Described(td) # {} => IsWS(td)
  /\ \A a, b \in 1 .. A(td) :
       a < b /\ td.actions[b].forms = 2 => td.actions[a].forms = 2
  /\ \A ep, other \in Described(td) :
       ep # other => NameOf(td, ep) # NameOf(td, other)
===============================================================================
