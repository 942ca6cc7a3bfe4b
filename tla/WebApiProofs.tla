---------------------------- MODULE WebApiProofs ----------------------------
(***************************************************************************)
(* That responses of the web API are whole, for any number of workers, any *)
(* resource and any requests, and that posts apply their items in order:   *)
(* TypeOK, ResponseIsWhole and PostInOrder of WebApi.                      *)
(*                                                                         *)
(* The inductive invariant follows a description through its two passes:   *)
(* while the list stays, the text has a known length after each walk, the  *)
(* same in both.  It also says who may clear the list: a worker that found *)
(* the API not ready, next to another one that has already set it.         *)
(***************************************************************************)
EXTENDS WebApi, TLAPS

Places == {"idle", "one", "check", "mark", "clear", "set", "route", "measure", "render", "find",
           "size", "fill", "content", "data", "action", "crashed"}
RequestType == [what : Whats, property : Names, body : Seq([key : Names, form : ItemForms])]

(* The workers that initialise the API, and those that have not begun. *)
Starting == {"mark", "clear", "set"}
Before == Starting \cup {"check", "route", "content"}

ApiTypes ==
  /\ ready \in BOOLEAN /\ list \in BOOLEAN
  /\ inits \in SUBSET Workers /\ moved \in SUBSET Workers

Types ==
  /\ value \in [Properties -> 0..ValueMax]
  /\ at \in [Workers -> Places] /\ request \in [Workers -> RequestType]
  /\ idx \in [Workers -> Nat] /\ text \in [Workers -> Nat] /\ room \in [Workers -> Nat]
  /\ tries \in [Workers -> 0..RetriesMax]
  /\ posted \in [Workers -> {"no", "OK", "error"}]
  /\ status \in [Workers -> {"none", "200", "400", "500"}]

(* Two workers found the API not ready. *)
Twice == \E u, v \in inits : u # v

(* Once the list is set, a worker has initialised the API and is done. *)
ApiOK ==
  /\ \A w \in Workers : at[w] \in Starting => w \in inits
  /\ \A w \in Workers : at[w] \in {"clear", "set"} => ready
  /\ list => ready /\ \E v \in inits : at[v] \notin Starting

(* The text of a description after the first n walks of a list that stays. *)
Written(what, n) ==
  IF ~list \/ n < 2 THEN 0 ELSE IF what = "wot" /\ n >= 4 THEN 2 ELSE 1
End(what) == IF what = "openapi" THEN 4 ELSE 8

(* Where the loops of a worker are. *)
LoopOK(w) ==
  /\ at[w] \in Before => idx[w] = 0 /\ text[w] = 0
  /\ at[w] \in Passes => What(w) \in Descriptions /\ idx[w] \in 0..End(What(w))
  /\ at[w] \in {"size", "fill"} =>
       /\ idx[w] <= Len(Shown(w))
       /\ request[w].property # NoName => request[w].property \in Properties
  /\ at[w] \in {"data", "action"} => idx[w] <= Len(Body(w))

(* A resource that was counted is there unless the API was initialised     *)
(* twice; and how long the text and its allocation are.                    *)
TextOK(w) ==
  /\ at[w] \in Passes /\ idx[w] \in {1, 3, 5, 7} /\ ~list => Twice
  /\ at[w] = "crashed" => Twice \/ NoItems(w)
  /\ at[w] \in Passes /\ w \notin moved =>
       /\ text[w] = Written(What(w), idx[w])
       /\ at[w] = "render" => room[w] = Written(What(w), End(What(w))) + 1
  /\ status[w] = "200" =>
       /\ at[w] = "idle"
       /\ text[w] < room[w] \/ (What(w) \in Descriptions /\ w \in moved)

(* Only an answer has used up the renderings that may not fit. *)
TriesOK == \A w \in Workers : at[w] # "idle" => tries[w] < RetriesMax

IInv == ApiTypes /\ Types /\ ApiOK /\ \A w \in Workers : LoopOK(w) /\ TextOK(w)

-----------------------------------------------------------------------------
(* A step of worker w leaves the others where they are. *)
Others(w) ==
  \A v \in Workers \ {w} :
    /\ at'[v] = at[v] /\ request'[v] = request[v] /\ idx'[v] = idx[v] /\ text'[v] = text[v]
    /\ room'[v] = room[v] /\ status'[v] = status[v]

LEMMA WalksOf ==
  ASSUME NEW w \in Workers, What(w) \in Descriptions
  PROVE  /\ 2 * Len(Walks(w)) = End(What(w))
         /\ What(w) = "openapi" => Walks(w) = <<1, 0>> /\ End(What(w)) = 4
         /\ What(w) = "wot" => Walks(w) = <<1, 1, 0, 0>> /\ End(What(w)) = 8
BY DEF Walks, End, Descriptions

LEMMA ShownType ==
  ASSUME Types, NEW w \in Workers, request[w].property # NoName => request[w].property \in Properties
  PROVE  Shown(w) \in Seq(Properties) /\ Len(Shown(w)) \in Nat
<1>1. CASE request[w].property # NoName
  <2> DEFINE p == request[w].property
  <2>1. p \in Properties /\ Shown(w) = <<p>>
    BY <1>1 DEF Shown
  <2> HIDE DEF p
  <2>2. <<p>> \in Seq(Properties) /\ Len(<<p>>) = 1
    BY <2>1
  <2> QED
    BY <2>1, <2>2
<1>2. CASE request[w].property = NoName
  <2>1. Order \in Seq(Properties)
    BY RequestsAssumption
  <2>2. Shown(w) = Order
    BY <1>2 DEF Shown
  <2>3. Len(Order) \in Nat
    BY <2>1
  <2> QED
    BY <2>1, <2>2, <2>3
<1> QED
  BY <1>1, <1>2

LEMMA BodyType ==
  ASSUME Types, NEW w \in Workers
  PROVE  Body(w) \in Seq([key : Names, form : ItemForms]) /\ Len(Body(w)) \in Nat
<1>1. request[w] \in RequestType
  BY DEF Types
<1> QED
  BY <1>1 DEF RequestType, Body

(* A worker that was not touched keeps what holds of it, as long as the    *)
(* list, and whether it moved during its request, stay as they are.        *)
LEMMA UntouchedOK ==
  ASSUME NEW v \in Workers, LoopOK(v), TextOK(v), Twice => Twice',
         list' = list, v \in moved' <=> v \in moved,
         at'[v] = at[v], request'[v] = request[v], idx'[v] = idx[v], text'[v] = text[v],
         room'[v] = room[v], status'[v] = status[v]
  PROVE  LoopOK(v)' /\ TextOK(v)'
<1>1. What(v)' = What(v) /\ Body(v)' = Body(v) /\ Shown(v)' = Shown(v)
  BY DEF What, Body, Shown
<1>2. LoopOK(v)'
  BY <1>1 DEF LoopOK
<1>3. \A what, n : Written(what, n)' = Written(what, n)
  BY DEF Written
<1>4. TextOK(v)'
  BY <1>1, <1>3 DEF TextOK, NoItems
<1> QED
  BY <1>2, <1>4

(* Most steps leave the list alone and are no part of the initialisation. *)
LEMMA Settled ==
  ASSUME IInv, NEW w \in Workers, UNCHANGED apiVars, Others(w), Types',
         at[w] \notin Starting, at'[w] \notin Starting, LoopOK(w)', TextOK(w)'
  PROVE  IInv'
<1>1. ApiOK' /\ ApiTypes'
  BY DEF IInv, ApiOK, apiVars, Others, Starting, Types, ApiTypes
<1>2. Twice => Twice'
  BY DEF Twice, apiVars
<1>3. ASSUME NEW v \in Workers, v # w
      PROVE  LoopOK(v)' /\ TextOK(v)'
  BY <1>2, <1>3, UntouchedOK DEF IInv, Others, apiVars
<1> QED
  BY <1>1, <1>3 DEF IInv

-----------------------------------------------------------------------------
LEMMA InitOK == Init => IInv
<1> SUFFICES ASSUME Init PROVE IInv
  OBVIOUS
<1>1. [what |-> "read", property |-> NoName, body |-> <<>>] \in RequestType
  <2> DEFINE bodies == Seq([key : Names, form : ItemForms])
  <2>1. "read" \in Whats
    BY DEF Whats
  <2>2. <<>> \in bodies
    OBVIOUS
  <2>3. RequestType = [what : Whats, property : Names, body : bodies]
    BY DEF RequestType
  <2>4. NoName \in Names
    BY DEF Names
  <2> HIDE DEF bodies
  <2> QED
    BY <2>1, <2>2, <2>3, <2>4
<1>2. Types
  <2>1. ValueMax \in Nat /\ RetriesMax \in Nat
    BY RequestsAssumption
  <2>2. value \in [Properties -> 0..ValueMax]
    <3>1. value = [p \in Properties |-> 0]
      BY DEF Init
    <3> QED
      BY <2>1, <3>1
  <2>3. request \in [Workers -> RequestType]
    <3> DEFINE none == [what |-> "read", property |-> NoName, body |-> <<>>]
    <3>1. none \in RequestType /\ request = [w \in Workers |-> none]
      BY <1>1 DEF Init
    <3> HIDE DEF none
    <3> QED
      BY <3>1
  <2>4. /\ at = [w \in Workers |-> "idle"] /\ idx = [w \in Workers |-> 0]
        /\ text = [w \in Workers |-> 0] /\ room = [w \in Workers |-> 0]
        /\ tries = [w \in Workers |-> 0] /\ posted = [w \in Workers |-> "no"]
        /\ status = [w \in Workers |-> "none"]
    BY DEF Init
  <2> QED
    BY <2>1, <2>2, <2>3, <2>4 DEF Types, Places
<1>3. ApiOK
  BY DEF Init, ApiOK, Starting
<1>4. ASSUME NEW w \in Workers PROVE LoopOK(w) /\ TextOK(w)
  BY DEF Init, LoopOK, TextOK, Passes, Before, Starting
<1>5. ApiTypes
  BY DEF Init, ApiTypes
<1> QED
  BY <1>2, <1>3, <1>4, <1>5 DEF IInv

LEMMA RequestOK ==
  ASSUME IInv, NEW w \in Workers, NEW r \in Requests, Request(w, r)
  PROVE  IInv'
<1>1. r \in RequestType
  BY RequestsAssumption DEF RequestType
<1>2. at'[w] \in {"one", "measure", "check"} /\ (at'[w] = "measure" => r.what = "wot")
  BY DEF Request, Goto, IInv, Types
<1>3. Types'
  <2>1. /\ value' = value /\ request' = [request EXCEPT ![w] = r]
        /\ at' = [at EXCEPT ![w] = at'[w]] /\ at'[w] \in Places
    BY <1>2 DEF Request, Goto, IInv, Types, Places
  <2>2. /\ idx' = [idx EXCEPT ![w] = 0] /\ text' = [text EXCEPT ![w] = 0]
        /\ room' = [room EXCEPT ![w] = 0] /\ tries' = [tries EXCEPT ![w] = 0]
        /\ posted' = [posted EXCEPT ![w] = "no"] /\ status' = [status EXCEPT ![w] = "none"]
    BY DEF Request
  <2>3. 0 \in 0..RetriesMax
    BY RequestsAssumption
  <2> QED
    BY <1>1, <2>1, <2>2, <2>3 DEF IInv, Types
<1>11. ApiTypes'
  BY DEF Request, IInv, ApiTypes
<1>4. Others(w)
  BY DEF Request, Goto, IInv, Types, Others
<1>5. ApiOK'
  BY <1>2, <1>4 DEF Request, IInv, ApiTypes, ApiOK, Starting, Others
<1>6. request'[w] = r /\ idx'[w] = 0 /\ text'[w] = 0 /\ status'[w] = "none" /\ w \notin moved'
  BY DEF Request, IInv, Types
<1>7. LoopOK(w)'
  <2>1. at'[w] \notin {"size", "fill", "data", "action"}
    BY <1>2
  <2>2. at'[w] \in Passes => What(w)' \in Descriptions /\ idx'[w] \in 0..End(What(w)')
    BY <1>2, <1>6 DEF Passes, What, Descriptions, End
  <2> QED
    BY <1>6, <2>1, <2>2 DEF LoopOK
<1>8. TextOK(w)'
  <2>1. at'[w] # "render" /\ at'[w] # "crashed" /\ idx'[w] \notin {1, 3, 5, 7} /\ status'[w] # "200"
    BY <1>2, <1>6
  <2>2. Written(What(w), idx[w])' = 0
    BY <1>6 DEF Written
  <2> QED
    BY <1>6, <2>1, <2>2 DEF TextOK
<1>9. Twice => Twice'
  BY DEF Request, Twice
<1>10. ASSUME NEW v \in Workers, v # w
       PROVE  LoopOK(v)' /\ TextOK(v)'
  <2>1. list' = list /\ (v \in moved' <=> v \in moved)
    BY <1>10 DEF Request
  <2> QED
    BY <2>1, <1>4, <1>9, <1>10, UntouchedOK DEF IInv, Others
<1> QED
  BY <1>3, <1>5, <1>7, <1>8, <1>10, <1>11 DEF IInv

LEMMA CheckInitOK ==
  ASSUME IInv, NEW w \in Workers, CheckInit(w)
  PROVE  IInv'
<1>1. at[w] = "check" /\ at'[w] \in {"route", "mark"} /\ (at'[w] = "mark" => w \in inits')
  BY DEF CheckInit, Goto, IInv, Types
<1>2. Types'
  <2>1. at' = [at EXCEPT ![w] = at'[w]] /\ at'[w] \in Places
    BY <1>1 DEF CheckInit, Goto, IInv, Types, Places
  <2> QED
    BY <2>1 DEF CheckInit, IInv, Types, textVars, postVars
<1>3. ApiTypes'
  BY DEF CheckInit, IInv, ApiTypes
<1>4. Others(w)
  BY DEF CheckInit, Goto, IInv, Types, Others, textVars
<1>5. /\ inits \subseteq inits' /\ ready' = ready /\ list' = list /\ moved' = moved
      /\ ~ready => at'[w] = "mark"
      /\ ready => at'[w] = "route"
  BY DEF CheckInit, Goto, IInv, Types
<1>6. ApiOK'
  BY <1>1, <1>4, <1>5 DEF IInv, ApiTypes, ApiOK, Starting, Others
<1>7. /\ idx'[w] = 0 /\ text'[w] = 0 /\ status'[w] = status[w] /\ status[w] # "200"
      /\ at'[w] \notin Passes
  BY <1>1 DEF CheckInit, textVars, IInv, LoopOK, TextOK, Before, Passes
<1>8. LoopOK(w)' /\ TextOK(w)'
  BY <1>1, <1>7 DEF LoopOK, TextOK
<1>9. Twice => Twice'
  BY <1>5 DEF Twice
<1>10. ASSUME NEW v \in Workers, v # w
       PROVE  LoopOK(v)' /\ TextOK(v)'
  BY <1>4, <1>5, <1>9, <1>10, UntouchedOK DEF IInv, Others
<1> QED
  BY <1>2, <1>3, <1>6, <1>8, <1>10 DEF IInv

LEMMA MarkInitOK ==
  ASSUME IInv, NEW w \in Workers, MarkInit(w)
  PROVE  IInv'
<1>1. at[w] = "mark" /\ at'[w] = "clear" /\ ready' = TRUE /\ list' = list /\ inits' = inits /\ moved' = moved
  BY DEF MarkInit, Goto, IInv, Types
<1>2. Types'
  <2>1. at' = [at EXCEPT ![w] = "clear"] /\ "clear" \in Places
    BY DEF MarkInit, Goto, Places
  <2> QED
    BY <2>1 DEF MarkInit, IInv, Types, textVars, postVars
<1>3. ApiTypes'
  BY <1>1 DEF IInv, ApiTypes
<1>4. Others(w)
  BY DEF MarkInit, Goto, IInv, Types, Others, textVars
<1>5. ApiOK'
  BY <1>1, <1>4 DEF IInv, ApiTypes, ApiOK, Starting, Others
<1>6. /\ idx'[w] = 0 /\ text'[w] = 0 /\ status'[w] = status[w] /\ status[w] # "200"
      /\ at'[w] \notin Passes
  BY <1>1 DEF MarkInit, textVars, IInv, LoopOK, TextOK, Before, Starting, Passes
<1>7. LoopOK(w)' /\ TextOK(w)'
  BY <1>1, <1>6 DEF LoopOK, TextOK
<1>8. ASSUME NEW v \in Workers, v # w
      PROVE  LoopOK(v)' /\ TextOK(v)'
  <2>1. Twice => Twice'
    BY <1>1 DEF Twice
  <2> QED
    BY <1>1, <1>4, <1>8, <2>1, UntouchedOK DEF IInv, Others
<1> QED
  BY <1>2, <1>3, <1>5, <1>7, <1>8 DEF IInv

(* The two steps that change the list.  The first finds one to clear only  *)
(* when another worker has set it; a pass that goes on is marked.          *)
LEMMA SetListOK ==
  ASSUME IInv, NEW w \in Workers, NEW set \in BOOLEAN, NEW place \in {"set", "route"},
         at[w] = (IF set THEN "set" ELSE "clear"), place = (IF set THEN "route" ELSE "set"),
         at' = [at EXCEPT ![w] = place], SetList(set),
         UNCHANGED <<ready, inits, value, request, textVars, postVars, status>>
  PROVE  IInv'
<1>1. at[w] \in {"clear", "set"} /\ w \in inits /\ ready /\ at'[w] = place /\ list' = set
  BY DEF IInv, Types, ApiOK, Starting, SetList
<1>2. Types'
  BY DEF IInv, Types, textVars, postVars, Places
<1>3. ApiTypes'
  BY DEF IInv, ApiTypes, SetList
<1>4. Others(w)
  BY DEF IInv, Types, Others, textVars
<1>5. ApiOK'
  BY <1>1, <1>4 DEF IInv, ApiOK, Starting, Others
<1>6. list /\ ~list' => Twice'
  <2>1. SUFFICES ASSUME list, ~list' PROVE Twice'
    OBVIOUS
  <2>2. PICK v \in inits : at[v] \notin Starting
    BY <2>1 DEF IInv, ApiOK
  <2>3. v # w
    BY <1>1, <2>2 DEF Starting
  <2> QED
    BY <1>1, <2>2, <2>3 DEF Twice
<1>7. Twice => Twice'
  BY DEF Twice
<1>8. ASSUME NEW v \in Workers PROVE LoopOK(v)'
  <2>1. LoopOK(v) /\ idx'[v] = idx[v] /\ text'[v] = text[v] /\ request' = request
    BY DEF IInv, textVars
  <2>2. What(v)' = What(v) /\ Body(v)' = Body(v) /\ Shown(v)' = Shown(v)
    BY DEF What, Body, Shown
  <2>3. CASE v = w
    BY <1>1, <2>1, <2>3 DEF LoopOK, Before, Starting, Passes
  <2>4. CASE v # w
    BY <1>4, <2>1, <2>2, <2>4 DEF LoopOK, Others
  <2> QED
    BY <2>3, <2>4
<1>9. TextOK(w)'
  BY <1>1 DEF IInv, TextOK, Passes
<1>10. ASSUME NEW v \in Workers, v # w, v \in moved' \/ list' = list
       PROVE  TextOK(v)'
  <2>1. TextOK(v) /\ at'[v] = at[v] /\ idx'[v] = idx[v] /\ text'[v] = text[v]
        /\ room'[v] = room[v] /\ status'[v] = status[v] /\ What(v)' = What(v) /\ NoItems(v)' = NoItems(v)
    BY <1>4, <1>10 DEF IInv, Others, textVars, What, NoItems, Body
  <2>2. at'[v] \in Passes /\ idx'[v] \in {1, 3, 5, 7} /\ ~list' => Twice'
    BY <1>6, <1>7, <2>1 DEF TextOK
  <2>3. list' = list => moved' = moved
    BY <1>1 DEF SetList
  <2>4. v \in moved => v \in moved'
    BY DEF SetList
  <2>5. \A what, n : list' = list => Written(what, n)' = Written(what, n)
    BY DEF Written
  <2> QED
    BY <1>7, <1>10, <2>1, <2>2, <2>3, <2>4, <2>5 DEF TextOK
<1>11. ASSUME NEW v \in Workers, v # w, v \notin moved', list' # list
       PROVE  TextOK(v)'
  <2>1. TextOK(v) /\ at'[v] = at[v] /\ idx'[v] = idx[v] /\ text'[v] = text[v]
        /\ room'[v] = room[v] /\ status'[v] = status[v] /\ What(v)' = What(v) /\ NoItems(v)' = NoItems(v)
    BY <1>4, <1>11 DEF IInv, Others, textVars, What, NoItems, Body
  <2>2. at[v] \notin Passes /\ v \notin moved
    BY <1>1, <1>11 DEF SetList
  <2> QED
    BY <1>7, <2>1, <2>2 DEF TextOK
<1>12. ASSUME NEW v \in Workers PROVE TextOK(v)'
  BY <1>9, <1>10, <1>11
<1> QED
  BY <1>2, <1>3, <1>5, <1>8, <1>12 DEF IInv

-----------------------------------------------------------------------------
(* The steps that leave the list alone.                                    *)

(* A worker that is in no loop, and has answered nothing. *)
LEMMA ElsewhereOK ==
  ASSUME NEW w \in Workers,
         at[w] \in {"idle", "one", "find"}, status[w] # "200"
  PROVE  LoopOK(w) /\ TextOK(w)
BY DEF LoopOK, TextOK, Before, Starting, Passes

LEMMA RouteOK ==
  ASSUME IInv, NEW w \in Workers, Route(w)
  PROVE  IInv'
<1>1. at[w] = "route" /\ at'[w] \in {"measure", "content", "find", "idle"} /\ status[w] # "200"
  BY DEF Route, Goto, Answer, IInv, Types, TextOK
<1>2. Types' /\ status'[w] # "200"
  <2>1. /\ at' = [at EXCEPT ![w] = at'[w]] /\ at'[w] \in Places
        /\ \/ status' = status \/ status' = [status EXCEPT ![w] = "400"]
    BY <1>1 DEF Route, Goto, Answer, IInv, Types, Places
  <2> QED
    BY <1>1, <2>1 DEF Route, IInv, Types, textVars, postVars
<1>3. Others(w)
  BY DEF Route, Goto, Answer, IInv, Types, Others, textVars
<1>4. LoopOK(w)' /\ TextOK(w)'
  <2>1. CASE at'[w] = "measure"
    <3>1. What(w)' = "openapi" /\ idx'[w] = 0 /\ text'[w] = 0
      BY <1>1, <2>1 DEF Route, Goto, Answer, IInv, Types, What, textVars, LoopOK, Before
    <3>2. Written(What(w), idx[w])' = 0
      BY <3>1 DEF Written
    <3> QED
      BY <1>2, <2>1, <3>1, <3>2 DEF LoopOK, TextOK, Before, Starting, Passes, Descriptions, End
  <2>2. CASE at'[w] = "content"
    <3>1. idx'[w] = 0 /\ text'[w] = 0
      BY <1>1 DEF Route, IInv, textVars, LoopOK, Before
    <3> QED
      BY <1>2, <2>2, <3>1 DEF LoopOK, TextOK, Before, Starting, Passes
  <2>3. CASE at'[w] \in {"find", "idle"}
    BY <1>1, <1>2, <2>3, ElsewhereOK DEF LoopOK, TextOK, Before, Starting, Passes
  <2> QED
    BY <1>1, <2>1, <2>2, <2>3
<1>5. at[w] \notin Starting /\ at'[w] \notin Starting /\ UNCHANGED apiVars
  BY <1>1 DEF Starting, Route
<1> QED
  BY <1>2, <1>3, <1>4, <1>5, Settled

LEMMA ResourceCountOK ==
  ASSUME IInv, NEW w \in Workers, ResourceCount(w)
  PROVE  IInv'
<1>1. /\ at[w] \in Passes /\ at' = at /\ What(w) \in Descriptions /\ idx[w] \in 0..End(What(w))
      /\ text' = text /\ room' = room /\ status' = status /\ request' = request
      /\ UNCHANGED apiVars /\ status[w] # "200"
  BY DEF ResourceCount, IInv, LoopOK, TextOK, Passes
<1>2. idx[w] \in {0, 2, 4, 6} /\ idx[w] < End(What(w)) /\ End(What(w)) \in {4, 8}
  <2>1. idx[w] # End(What(w)) /\ idx[w] % 2 = 0
    BY <1>1, WalksOf DEF ResourceCount, PassEnds
  <2> QED
    BY <1>1, <2>1 DEF End
<1>3. /\ idx'[w] = idx[w] + (IF list THEN 1 ELSE 2)
      /\ idx'[w] \in 0..End(What(w)) /\ idx'[w] \in Nat
  <2>1. idx'[w] = idx[w] + (IF list THEN 1 ELSE 2)
    BY DEF ResourceCount, Skip, IInv, Types
  <2>2. CASE list
    BY <1>2, <2>1, <2>2
  <2>3. CASE ~list
    BY <1>2, <2>1, <2>3
  <2> QED
    BY <2>1, <2>2, <2>3
<1>4. Types'
  <2>1. idx' = [idx EXCEPT ![w] = idx'[w]]
    BY <1>3 DEF ResourceCount, Skip, IInv, Types
  <2> QED
    BY <1>3, <2>1 DEF ResourceCount, IInv, Types, postVars
<1>5. Others(w)
  BY DEF ResourceCount, Skip, IInv, Types, Others
<1>6. What(w)' = What(w) /\ \A n : Written(What(w), n)' = Written(What(w), n)
  BY <1>1 DEF What, Written, apiVars
<1>7. LoopOK(w)'
  <2>1. at[w] \in {"measure", "render"}
    BY <1>1 DEF Passes
  <2> QED
    BY <1>1, <1>3, <1>6, <2>1 DEF LoopOK, Before, Starting
<1>8. TextOK(w)'
  <2>1. Written(What(w), idx'[w]) = Written(What(w), idx[w])
    BY <1>2, <1>3 DEF Written
  <2>2. ~list => idx'[w] \notin {1, 3, 5, 7}
    BY <1>2, <1>3
  <2>3. at[w] # "crashed"
    BY <1>1 DEF Passes
  <2> QED
    BY <1>1, <1>6, <2>1, <2>2, <2>3 DEF TextOK, IInv, apiVars
<1>9. at[w] \notin Starting
  BY <1>1 DEF Passes, Starting
<1> QED
  BY <1>1, <1>4, <1>5, <1>7, <1>8, <1>9, Settled

LEMMA ResourceAtOK ==
  ASSUME IInv, NEW w \in Workers, ResourceAt(w)
  PROVE  IInv'
<1>1. /\ at[w] \in Passes /\ What(w) \in Descriptions /\ idx[w] \in 0..End(What(w))
      /\ room' = room /\ status' = status /\ request' = request
      /\ UNCHANGED apiVars /\ status[w] # "200"
  BY DEF ResourceAt, IInv, LoopOK, TextOK, Passes
<1>2. idx[w] \in {1, 3, 5, 7} /\ idx[w] < End(What(w)) /\ End(What(w)) \in {4, 8}
  <2>1. idx[w] % 2 = 1
    BY DEF ResourceAt
  <2> QED
    BY <1>1, <2>1 DEF End
<1>3. What(w)' = What(w) /\ \A n : Written(What(w), n)' = Written(What(w), n)
  BY <1>1 DEF What, Written, apiVars
<1>4. at[w] \in {"measure", "render"}
  BY <1>1 DEF Passes
<1>5. CASE list
  <2> DEFINE more == Walks(w)[(idx[w] + 1) \div 2]
  <2>1. more \in {0, 1} /\ Written(What(w), idx[w] + 1) = Written(What(w), idx[w]) + more
    <3>1. CASE What(w) = "openapi"
      <4>1. Walks(w) = <<1, 0>> /\ idx[w] \in {1, 3}
        BY <1>2, <3>1 DEF Walks, End
      <4>2. CASE idx[w] = 1
        <5>1. (idx[w] + 1) \div 2 = 1
          BY <4>2
        <5> QED
          BY <1>5, <3>1, <4>1, <4>2, <5>1 DEF Written
      <4>3. CASE idx[w] = 3
        <5>1. (idx[w] + 1) \div 2 = 2
          BY <4>3
        <5> QED
          BY <1>5, <3>1, <4>1, <4>3, <5>1 DEF Written
      <4> QED
        BY <4>1, <4>2, <4>3
    <3>2. CASE What(w) = "wot"
      <4>1. Walks(w) = <<1, 1, 0, 0>>
        BY <3>2 DEF Walks
      <4>2. \A k \in 1..4 : idx[w] = 2 * k - 1 => (idx[w] + 1) \div 2 = k
        BY <1>2
      <4>3. \E k \in 1..4 : idx[w] = 2 * k - 1
        BY <1>2
      <4> QED
        BY <1>5, <3>2, <4>1, <4>2, <4>3 DEF Written
    <3> QED
      BY <1>1, <3>1, <3>2 DEF Descriptions
  <2> HIDE DEF more
  <2>2. /\ at' = at /\ idx' = [idx EXCEPT ![w] = idx[w] + 1] /\ text' = [text EXCEPT ![w] = text[w] + more]
    BY <1>5 DEF ResourceAt, Skip, Take, more
  <2>3. Types'
    BY <2>1, <2>2 DEF ResourceAt, IInv, Types, postVars
  <2>4. Others(w)
    BY <1>1, <2>2 DEF IInv, Types, Others
  <2>5. idx'[w] = idx[w] + 1 /\ text'[w] = text[w] + more /\ at'[w] = at[w]
    BY <2>2 DEF IInv, Types
  <2>6. LoopOK(w)'
    BY <1>1, <1>2, <1>3, <1>4, <2>5 DEF LoopOK, Before, Starting
  <2>7. TextOK(w)'
    BY <1>1, <1>2, <1>3, <1>4, <1>5, <2>1, <2>5 DEF TextOK, IInv, apiVars
  <2>8. at[w] \notin Starting /\ at'[w] \notin Starting
    BY <1>4, <2>5 DEF Starting
  <2> QED
    BY <1>1, <2>3, <2>4, <2>6, <2>7, <2>8, Settled
<1>6. CASE ~list
  <2>1. at' = [at EXCEPT ![w] = "crashed"] /\ idx' = idx /\ text' = text
    BY <1>6 DEF ResourceAt, Goto
  <2>2. Types'
    BY <2>1 DEF ResourceAt, IInv, Types, Places, postVars
  <2>3. Others(w)
    BY <1>1, <2>1 DEF IInv, Types, Others
  <2>4. at'[w] = "crashed"
    BY <2>1 DEF IInv, Types
  <2>5. Twice'
    BY <1>1, <1>2, <1>6 DEF IInv, TextOK, Twice, apiVars
  <2>6. LoopOK(w)' /\ TextOK(w)'
    BY <1>1, <2>4, <2>5 DEF LoopOK, TextOK, Before, Starting, Passes
  <2>7. at[w] \notin Starting /\ at'[w] \notin Starting
    BY <1>4, <2>4 DEF Starting
  <2> QED
    BY <1>1, <2>2, <2>3, <2>6, <2>7, Settled
<1> QED
  BY <1>5, <1>6

LEMMA MeasuredOK ==
  ASSUME IInv, NEW w \in Workers, Measured(w)
  PROVE  IInv'
<1>1. /\ at[w] = "measure" /\ What(w) \in Descriptions /\ idx[w] = End(What(w))
      /\ request' = request /\ UNCHANGED apiVars /\ status[w] # "200"
      /\ w \notin moved => text[w] = Written(What(w), End(What(w)))
  <2>1. at[w] = "measure" /\ PassEnds(w)
    BY DEF Measured
  <2>2. What(w) \in Descriptions /\ status[w] # "200" /\ (w \notin moved => text[w] = Written(What(w), idx[w]))
    BY <2>1 DEF IInv, LoopOK, TextOK, Passes
  <2>3. idx[w] = End(What(w))
    BY <2>1, <2>2, WalksOf DEF PassEnds
  <2> QED
    BY <2>1, <2>2, <2>3 DEF Measured
<1>2. at[w] \notin Starting
  BY <1>1 DEF Starting
<1>3. CASE Allocated(w, text[w] + 1) /\ Goto(w, "render") /\ UNCHANGED status
  <2>1. /\ at' = [at EXCEPT ![w] = "render"] /\ room' = [room EXCEPT ![w] = text[w] + 1]
        /\ idx' = [idx EXCEPT ![w] = 0] /\ text' = [text EXCEPT ![w] = 0] /\ "render" \in Places
    BY <1>3 DEF Allocated, Goto, Places
  <2>2. Types'
    BY <1>3, <2>1 DEF Measured, IInv, Types, postVars
  <2>3. Others(w)
    BY <1>1, <1>3, <2>1 DEF IInv, Types, Others
  <2>4. at'[w] = "render" /\ room'[w] = text[w] + 1 /\ idx'[w] = 0 /\ text'[w] = 0
    BY <2>1 DEF IInv, Types
  <2>5. What(w)' = What(w) /\ (\A n : Written(What(w), n)' = Written(What(w), n)) /\ Written(What(w), 0) = 0
    BY <1>1 DEF What, Written, apiVars
  <2>6. LoopOK(w)'
    BY <1>1, <2>4, <2>5 DEF LoopOK, Before, Starting, Passes, End
  <2>7. TextOK(w)'
    BY <1>1, <1>3, <2>4, <2>5 DEF TextOK, apiVars
  <2>8. at'[w] \notin Starting
    BY <2>4 DEF Starting
  <2> QED
    BY <1>1, <1>2, <2>2, <2>3, <2>6, <2>7, <2>8, Settled
<1>4. CASE Answer(w, "500") /\ UNCHANGED <<room, idx, text>>
  <2>1. at' = [at EXCEPT ![w] = "idle"] /\ status' = [status EXCEPT ![w] = "500"] /\ "idle" \in Places
    BY <1>4 DEF Answer, Goto, Places
  <2>2. Types'
    BY <1>4, <2>1 DEF Measured, IInv, Types, postVars
  <2>3. Others(w)
    BY <1>1, <1>4, <2>1 DEF IInv, Types, Others
  <2>4. at'[w] = "idle" /\ status'[w] = "500"
    BY <2>1 DEF IInv, Types
  <2>5. LoopOK(w)' /\ TextOK(w)' /\ at'[w] \notin Starting
    BY <2>4 DEF LoopOK, TextOK, Before, Starting, Passes
  <2> QED
    BY <1>1, <1>2, <2>2, <2>3, <2>5, Settled
<1> QED
  BY <1>3, <1>4 DEF Measured

(* The second pass has written what the first one measured, unless the     *)
(* list changed.                                                           *)
LEMMA DescribedOK ==
  ASSUME IInv, NEW w \in Workers, Described(w)
  PROVE  IInv'
<1>1. /\ at[w] = "render" /\ What(w) \in Descriptions
      /\ request' = request /\ idx' = idx /\ text' = text /\ room' = room /\ UNCHANGED apiVars
      /\ w \notin moved => text[w] < room[w]
  <2>1. at[w] = "render" /\ PassEnds(w)
    BY DEF Described
  <2>2. What(w) \in Descriptions
    BY <2>1 DEF IInv, LoopOK, Passes
  <2>3. w \notin moved => text[w] = Written(What(w), idx[w]) /\ room[w] = Written(What(w), End(What(w))) + 1
    BY <2>1 DEF IInv, TextOK, Passes
  <2>4. idx[w] = End(What(w))
    BY <2>1, <2>2, WalksOf DEF PassEnds
  <2>5. text[w] \in Nat
    BY DEF IInv, Types
  <2>6. w \notin moved => text[w] < room[w]
    BY <2>3, <2>4, <2>5
  <2> QED
    BY <2>1, <2>2, <2>6 DEF Described, textVars
<1>2. at' = [at EXCEPT ![w] = "idle"] /\ status' = [status EXCEPT ![w] = "200"] /\ "idle" \in Places
  BY DEF Described, Answer, Goto, Places
<1>3. Types'
  BY <1>2 DEF Described, IInv, Types, textVars, postVars
<1>4. Others(w)
  BY <1>1, <1>2 DEF IInv, Types, Others
<1>5. at'[w] = "idle"
  BY <1>2 DEF IInv, Types
<1>6. LoopOK(w)' /\ at[w] \notin Starting /\ at'[w] \notin Starting
  BY <1>1, <1>5 DEF LoopOK, Before, Starting, Passes
<1>7. TextOK(w)'
  BY <1>1, <1>5 DEF TextOK, Passes, What, apiVars
<1> QED
  BY <1>1, <1>3, <1>4, <1>6, <1>7, Settled

(* A step of w in a loop over the resource's properties, or over a body;   *)
(* it may answer, but not with "200".                                      *)
LEMMA LoopStepOK ==
  ASSUME IInv, NEW w \in Workers, UNCHANGED <<apiVars, request>>, Types', Others(w),
         at[w] \in {"idle", "one", "content", "find", "size", "fill", "data", "action"},
         at'[w] \in {"idle", "find", "size", "fill", "data", "action", "crashed"},
         at'[w] = "crashed" => NoItems(w),
         at'[w] \in {"size", "fill"} =>
           /\ idx'[w] <= Len(Shown(w))
           /\ request[w].property # NoName => request[w].property \in Properties,
         at'[w] \in {"data", "action"} => idx'[w] <= Len(Body(w)),
         status'[w] # "200" \/ (at'[w] = "idle" /\ text'[w] < room'[w])
  PROVE  IInv'
<1>1. What(w)' = What(w) /\ Body(w)' = Body(w) /\ Shown(w)' = Shown(w)
  BY DEF What, Body, Shown
<1>2. at[w] \notin Starting /\ at'[w] \notin Starting /\ at'[w] \notin Before /\ at'[w] \notin Passes
  BY DEF Starting, Before, Passes
<1>3. LoopOK(w)'
  BY <1>1, <1>2 DEF LoopOK
<1>4. TextOK(w)'
  BY <1>1, <1>2 DEF TextOK, NoItems
<1>5. UNCHANGED apiVars
  OBVIOUS
<1> QED
  BY <1>2, <1>3, <1>4, <1>5, Settled

(* An answer that is not "200". *)
LEMMA AnswerOK ==
  ASSUME IInv, NEW w \in Workers, NEW code \in {"none", "400", "500"}, Answer(w, code),
         at[w] \in {"one", "content", "find", "size", "fill", "data", "action"},
         UNCHANGED <<apiVars, request, idx, text>>,
         value' \in [Properties -> 0..ValueMax],
         tries' \in [Workers -> 0..RetriesMax],
         room' = room \/ room' = [room EXCEPT ![w] = 0],
         NEW word \in {"no", "OK", "error"},
         posted' = posted \/ posted' = [posted EXCEPT ![w] = word]
  PROVE  IInv'
<1>1. at' = [at EXCEPT ![w] = "idle"] /\ status' = [status EXCEPT ![w] = code] /\ "idle" \in Places
  BY DEF Answer, Goto, Places
<1>2. Types'
  BY <1>1 DEF IInv, Types
<1>3. Others(w)
  BY <1>1 DEF IInv, Types, Others
<1>4. at'[w] = "idle" /\ status'[w] # "200"
  BY <1>1 DEF IInv, Types
<1>5. UNCHANGED <<apiVars, request>>
  OBVIOUS
<1>6. at[w] \in {"idle", "one", "content", "find", "size", "fill", "data", "action"}
  OBVIOUS
<1> QED
  BY <1>2, <1>3, <1>4, <1>5, <1>6, LoopStepOK

LEMMA FindResourceOK ==
  ASSUME IInv, NEW w \in Workers, FindResource(w)
  PROVE  IInv'
<1> DEFINE p == request[w].property
<1>1. /\ at[w] = "find" /\ UNCHANGED <<apiVars, request>> /\ value' = value /\ tries' = tries /\ posted' = posted
  BY DEF FindResource, postVars
<1>2. value' \in [Properties -> 0..ValueMax] /\ tries' \in [Workers -> 0..RetriesMax]
  BY <1>1 DEF IInv, Types
<1>3. CASE Answer(w, "500") /\ UNCHANGED <<room, idx, text>>
  BY <1>1, <1>2, <1>3, AnswerOK
<1>4. CASE /\ p = NoName \/ (p \in Properties /\ ~IsAction(p))
           /\ Goto(w, "size") /\ UNCHANGED <<status, room>>
           /\ idx' = [idx EXCEPT ![w] = 0] /\ text' = [text EXCEPT ![w] = 0]
  <2>1. at' = [at EXCEPT ![w] = "size"] /\ "size" \in Places /\ status[w] # "200"
    BY <1>1, <1>4 DEF Goto, Places, IInv, TextOK
  <2>2. Types'
    BY <1>1, <1>4, <2>1 DEF IInv, Types
  <2>3. Others(w)
    BY <1>1, <1>4, <2>1 DEF IInv, Types, Others
  <2>4. at'[w] = "size" /\ idx'[w] = 0 /\ status'[w] # "200"
    BY <1>4, <2>1 DEF IInv, Types
  <2>5. Types
    BY DEF IInv
  <2>6. p # NoName => p \in Properties
    BY <1>4
  <2>7. idx'[w] <= Len(Shown(w))
    BY <2>4, <2>5, <2>6, ShownType
  <2> QED
    BY <1>1, <2>2, <2>3, <2>4, <2>6, <2>7, LoopStepOK
<1>5. CASE Answer(w, "200") /\ Allocated(w, 1)
  <2>1. /\ at' = [at EXCEPT ![w] = "idle"] /\ status' = [status EXCEPT ![w] = "200"] /\ "idle" \in Places
        /\ room' = [room EXCEPT ![w] = 1] /\ idx' = [idx EXCEPT ![w] = 0] /\ text' = [text EXCEPT ![w] = 0]
    BY <1>5 DEF Answer, Goto, Allocated, Places
  <2>2. Types'
    BY <1>1, <2>1 DEF IInv, Types
  <2>3. Others(w)
    BY <1>1, <2>1 DEF IInv, Types, Others
  <2>4. at'[w] = "idle" /\ text'[w] < room'[w]
    BY <2>1 DEF IInv, Types
  <2> QED
    BY <1>1, <2>2, <2>3, <2>4, LoopStepOK
<1> QED
  BY <1>3, <1>4, <1>5 DEF FindResource

(* What a worker shows, at each place of the loop. *)
LEMMA PrintedType ==
  ASSUME IInv, NEW w \in Workers, at[w] \in {"size", "fill"}
  PROVE  /\ idx[w] \in 0..Len(Shown(w)) /\ Len(Shown(w)) \in Nat
         /\ request[w].property # NoName => request[w].property \in Properties
         /\ idx[w] < Len(Shown(w)) => Shown(w)[idx[w] + 1] \in Properties
         /\ status[w] # "200"
<1>1. /\ request[w].property # NoName => request[w].property \in Properties
      /\ idx[w] <= Len(Shown(w)) /\ idx[w] \in Nat /\ status[w] # "200"
  BY DEF IInv, LoopOK, TextOK, Types
<1>2. Types
  BY DEF IInv
<1>3. Shown(w) \in Seq(Properties) /\ Len(Shown(w)) \in Nat
  BY <1>1, <1>2, ShownType
<1> DEFINE shown == Shown(w)
<1>4. idx[w] < Len(shown) => shown[idx[w] + 1] \in Properties
  <2> HIDE DEF shown
  <2>1. shown \in Seq(Properties)
    BY <1>3 DEF shown
  <2> QED
    BY <1>1, <2>1
<1> QED
  BY <1>1, <1>3, <1>4

LEMMA PrintValueOK ==
  ASSUME IInv, NEW w \in Workers, PrintValue(w)
  PROVE  IInv'
<1> DEFINE p == Shown(w)[idx[w] + 1]
<1>1. /\ at[w] \in {"size", "fill"} /\ idx[w] < Len(Shown(w)) /\ UNCHANGED <<apiVars, request>>
      /\ value' = value /\ at' = at /\ room' = room /\ tries' = tries /\ posted' = posted /\ status' = status
  BY DEF PrintValue, postVars
<1>2. /\ idx[w] \in 0..Len(Shown(w)) /\ Len(Shown(w)) \in Nat /\ p \in Properties
      /\ request[w].property # NoName => request[w].property \in Properties
      /\ status[w] # "200"
  BY <1>1, PrintedType
<1>3. value[p] \in Nat
  <2>1. ValueMax \in Nat /\ value[p] \in 0..ValueMax
    BY <1>2, RequestsAssumption DEF IInv, Types
  <2> QED
    BY <2>1
<1>4. PICK n \in {value[p], 0} : Take(w, n)
  BY DEF PrintValue
<1>5. n \in Nat
  BY <1>3, <1>4
<1>6. idx' = [idx EXCEPT ![w] = idx[w] + 1] /\ text' = [text EXCEPT ![w] = text[w] + n]
  BY <1>4 DEF PrintValue, Skip, Take
<1>7. Types'
  BY <1>1, <1>5, <1>6 DEF IInv, Types
<1>8. Others(w)
  BY <1>1, <1>6 DEF IInv, Types, Others
<1>9. at'[w] = at[w] /\ idx'[w] = idx[w] + 1 /\ status'[w] # "200"
  BY <1>1, <1>2, <1>6 DEF IInv, Types
<1>10. idx'[w] <= Len(Shown(w))
  BY <1>1, <1>2, <1>9
<1> QED
  BY <1>1, <1>2, <1>7, <1>8, <1>9, <1>10, LoopStepOK

LEMMA BufferSizeType ==
  ASSUME NEW n \in Nat
  PROVE  BufferSize(n) \in Nat
<1>1. SlackDiv \in Nat \ {0} /\ SlackMin \in Nat
  BY RequestsAssumption
<1>2. n \div SlackDiv \in Nat
  BY <1>1
<1> QED
  BY <1>1, <1>2 DEF BufferSize, Slack

(* Measured for the first time, or again after it did not fit. *)
LEMMA ToFillOK ==
  ASSUME IInv, NEW w \in Workers, at[w] \in {"size", "fill"}, UNCHANGED <<apiVars, request>>,
         Allocated(w, BufferSize(text[w])),
         at' = [at EXCEPT ![w] = "fill"],
         UNCHANGED <<value, posted, status>>, tries' \in [Workers -> 0..RetriesMax]
  PROVE  IInv'
<1>1. BufferSize(text[w]) \in Nat
  BY BufferSizeType DEF IInv, Types
<1>2. /\ room' = [room EXCEPT ![w] = BufferSize(text[w])]
      /\ idx' = [idx EXCEPT ![w] = 0] /\ text' = [text EXCEPT ![w] = 0] /\ "fill" \in Places
  BY DEF Allocated, Places
<1>3. Types'
  BY <1>1, <1>2 DEF IInv, Types
<1>4. Others(w)
  BY <1>2 DEF IInv, Types, Others
<1>5. at'[w] = "fill" /\ idx'[w] = 0 /\ status'[w] = status[w]
  BY <1>2 DEF IInv, Types
<1>6. /\ idx'[w] <= Len(Shown(w)) /\ status[w] # "200"
      /\ request[w].property # NoName => request[w].property \in Properties
  BY <1>5, PrintedType
<1>7. UNCHANGED <<apiVars, request>>
  OBVIOUS
<1>8. at[w] \in {"idle", "one", "content", "find", "size", "fill", "data", "action"}
  OBVIOUS
<1> QED
  BY <1>3, <1>4, <1>5, <1>6, <1>7, <1>8, LoopStepOK

LEMMA SizedOK ==
  ASSUME IInv, NEW w \in Workers, Sized(w)
  PROVE  IInv'
<1>1. /\ at[w] = "size" /\ UNCHANGED <<apiVars, request>> /\ UNCHANGED <<value, tries, posted>>
  BY DEF Sized, postVars
<1>2. value' \in [Properties -> 0..ValueMax] /\ tries' \in [Workers -> 0..RetriesMax]
  BY <1>1 DEF IInv, Types
<1>3. CASE Allocated(w, BufferSize(text[w])) /\ Goto(w, "fill") /\ UNCHANGED status
  BY <1>1, <1>2, <1>3, ToFillOK DEF Goto
<1>4. CASE Answer(w, "500") /\ UNCHANGED <<room, idx, text>>
  BY <1>1, <1>2, <1>4, AnswerOK
<1> QED
  BY <1>3, <1>4 DEF Sized

LEMMA FilledOK ==
  ASSUME IInv, NEW w \in Workers, Filled(w)
  PROVE  IInv'
<1>1. /\ at[w] = "fill" /\ text[w] < room[w] /\ UNCHANGED <<apiVars, request>>
      /\ UNCHANGED <<value, idx, text, room, tries, posted>>
  BY DEF Filled, textVars, postVars
<1>2. at' = [at EXCEPT ![w] = "idle"] /\ status' = [status EXCEPT ![w] = "200"] /\ "idle" \in Places
  BY DEF Filled, Answer, Goto, Places
<1>3. Types'
  BY <1>1, <1>2 DEF IInv, Types
<1>4. Others(w)
  BY <1>1, <1>2 DEF IInv, Types, Others
<1>5. at'[w] = "idle" /\ text'[w] < room'[w]
  BY <1>1, <1>2 DEF IInv, Types
<1> QED
  BY <1>1, <1>3, <1>4, <1>5, LoopStepOK

LEMMA RetryOK ==
  ASSUME IInv, TriesOK, NEW w \in Workers, Retry(w)
  PROVE  IInv'
<1>1. /\ at[w] = "fill" /\ UNCHANGED <<apiVars, request>> /\ UNCHANGED <<value, posted>>
      /\ tries' = [tries EXCEPT ![w] = tries[w] + 1]
  BY DEF Retry, postVars
<1>2. value' \in [Properties -> 0..ValueMax]
  BY <1>1 DEF IInv, Types
<1>3. RetriesMax \in Nat /\ tries[w] \in 0..RetriesMax
  BY RequestsAssumption DEF IInv, Types
<1>4. tries[w] < RetriesMax
  BY <1>1 DEF TriesOK
<1>5. tries[w] + 1 \in 0..RetriesMax
  BY <1>3, <1>4
<1>6. tries' \in [Workers -> 0..RetriesMax]
  BY <1>1, <1>5 DEF IInv, Types
<1>7. CASE Allocated(w, BufferSize(text[w])) /\ UNCHANGED <<at, status>>
  <2>1. at' = [at EXCEPT ![w] = "fill"]
    BY <1>1, <1>7 DEF IInv, Types
  <2> QED
    BY <1>1, <1>6, <1>7, <2>1, ToFillOK
<1>8. CASE Answer(w, "500") /\ room' = [room EXCEPT ![w] = 0] /\ UNCHANGED <<idx, text>>
  BY <1>1, <1>2, <1>6, <1>8, AnswerOK
<1> QED
  BY <1>7, <1>8 DEF Retry

-----------------------------------------------------------------------------
(* Posts.                                                                  *)

LEMMA ReadContentOK ==
  ASSUME IInv, NEW w \in Workers, ReadContent(w)
  PROVE  IInv'
<1>1. /\ at[w] = "content" /\ UNCHANGED <<apiVars, request>> /\ UNCHANGED <<value, idx, text, room, tries>>
  BY DEF ReadContent, textVars, PostFails
<1>2. value' \in [Properties -> 0..ValueMax] /\ tries' \in [Workers -> 0..RetriesMax]
  BY <1>1 DEF IInv, Types
<1>3. CASE Goto(w, "data") /\ UNCHANGED <<status, posted>>
  <2>1. at' = [at EXCEPT ![w] = "data"] /\ "data" \in Places
    BY <1>3 DEF Goto, Places
  <2>2. Types'
    BY <1>1, <1>3, <2>1 DEF IInv, Types
  <2>3. Others(w)
    BY <1>1, <1>3, <2>1 DEF IInv, Types, Others
  <2>4. at'[w] = "data" /\ idx'[w] = idx[w] /\ status'[w] # "200"
    BY <1>1, <1>3, <2>1 DEF IInv, Types, TextOK
  <2>5. idx[w] = 0 /\ Len(Body(w)) \in Nat
    BY <1>1, BodyType DEF IInv, LoopOK, Before
  <2>6. idx'[w] <= Len(Body(w))
    BY <2>4, <2>5
  <2> QED
    BY <1>1, <2>2, <2>3, <2>4, <2>6, LoopStepOK
<1>4. CASE posted' = [posted EXCEPT ![w] = "error"] /\ Answer(w, "500")
  BY <1>1, <1>2, <1>4, AnswerOK
<1>5. CASE Answer(w, "400") /\ UNCHANGED posted
  BY <1>1, <1>2, <1>5, AnswerOK
<1> QED
  BY <1>3, <1>4, <1>5 DEF ReadContent, PostFails

LEMMA PostFailsOK ==
  ASSUME IInv, NEW w \in Workers, PassFails(w) \/ ItemFails(w)
  PROVE  IInv'
<1>1. /\ at[w] \in {"data", "action"} /\ UNCHANGED <<apiVars, request>>
      /\ UNCHANGED <<value, idx, text, room, tries>>
      /\ posted' = [posted EXCEPT ![w] = "error"] /\ Answer(w, "500")
  BY DEF PassFails, ItemFails, HasItem, PostFails
<1>2. value' \in [Properties -> 0..ValueMax] /\ tries' \in [Workers -> 0..RetriesMax]
  BY <1>1 DEF IInv, Types
<1> QED
  BY <1>1, <1>2, AnswerOK

LEMMA ItemDoneOK ==
  ASSUME IInv, NEW w \in Workers, SkipItem(w) \/ SetItem(w)
  PROVE  IInv'
<1>1. /\ at[w] \in {"data", "action"} /\ idx[w] < Len(Body(w)) /\ UNCHANGED <<apiVars, request>>
      /\ UNCHANGED <<at, text, room, tries, posted, status>>
      /\ idx' = [idx EXCEPT ![w] = idx[w] + 1]
  BY DEF SkipItem, SetItem, HasItem, Skip, postVars
<1>2. value' \in [Properties -> 0..ValueMax]
  <2>1. CASE SkipItem(w)
    BY <2>1 DEF SkipItem, IInv, Types
  <2>2. CASE SetItem(w)
    <3>1. PICK n \in 0..ValueMax :
            value' = [value EXCEPT ![Key(w)] = IF IsAction(Key(w)) THEN value[Key(w)] ELSE n]
      BY <2>2 DEF SetItem, SetFromCstr
    <3> QED
      BY <3>1 DEF IInv, Types
  <2> QED
    BY <2>1, <2>2
<1>3. idx[w] \in Nat /\ Len(Body(w)) \in Nat
  BY BodyType DEF IInv, Types
<1>4. Types'
  BY <1>1, <1>2, <1>3 DEF IInv, Types
<1>5. Others(w)
  BY <1>1 DEF IInv, Types, Others
<1>6. at'[w] = at[w] /\ idx'[w] = idx[w] + 1 /\ status'[w] # "200"
  BY <1>1 DEF IInv, Types, TextOK
<1>7. idx'[w] <= Len(Body(w))
  BY <1>1, <1>3, <1>6
<1> QED
  BY <1>1, <1>4, <1>5, <1>6, <1>7, LoopStepOK

LEMMA ReadPastTokensOK ==
  ASSUME IInv, NEW w \in Workers, ReadPastTokens(w)
  PROVE  IInv'
<1>1. /\ at[w] \in {"data", "action"} /\ NoItems(w) /\ UNCHANGED <<apiVars, request>>
      /\ UNCHANGED <<idx, text, room, tries, status>>
  BY DEF ReadPastTokens, textVars
<1>2. PICK place \in {"crashed", "action", "find"} : at' = [at EXCEPT ![w] = place]
  BY DEF ReadPastTokens, Goto
<1>3. place \in Places
  BY DEF Places
<1>4. value' \in [Properties -> 0..ValueMax]
  <2>1. CASE UNCHANGED value
    BY <2>1 DEF IInv, Types
  <2>2. ASSUME NEW p \in Properties, SetFromCstr(p) PROVE value' \in [Properties -> 0..ValueMax]
    <3>1. PICK n \in 0..ValueMax : value' = [value EXCEPT ![p] = IF IsAction(p) THEN value[p] ELSE n]
      BY <2>2 DEF SetFromCstr
    <3> QED
      BY <3>1 DEF IInv, Types
  <2> QED
    BY <2>1, <2>2 DEF ReadPastTokens
<1>5. posted' \in [Workers -> {"no", "OK", "error"}]
  BY DEF ReadPastTokens, postVars, IInv, Types
<1>6. Types'
  BY <1>1, <1>2, <1>3, <1>4, <1>5 DEF IInv, Types
<1>7. Others(w)
  BY <1>1, <1>2 DEF IInv, Types, Others
<1>8. at'[w] = place /\ status'[w] # "200" /\ idx'[w] <= Len(Body(w))
  BY <1>1, <1>2 DEF IInv, Types, LoopOK, TextOK
<1> QED
  BY <1>1, <1>6, <1>7, <1>8, LoopStepOK

LEMMA FirstPassEndsOK ==
  ASSUME IInv, NEW w \in Workers, FirstPassEnds(w)
  PROVE  IInv'
<1>1. /\ at[w] = "data" /\ UNCHANGED <<apiVars, request>>
      /\ UNCHANGED <<value, text, room, tries, posted, status>>
      /\ idx' = [idx EXCEPT ![w] = 0] /\ at' = [at EXCEPT ![w] = "action"] /\ "action" \in Places
  BY DEF FirstPassEnds, Goto, postVars, Places
<1>2. Types'
  BY <1>1 DEF IInv, Types
<1>3. Others(w)
  BY <1>1 DEF IInv, Types, Others
<1>4. at'[w] = "action" /\ idx'[w] = 0 /\ status'[w] # "200"
  BY <1>1 DEF IInv, Types, TextOK
<1>5. idx'[w] <= Len(Body(w))
  BY <1>4, BodyType DEF IInv
<1> QED
  BY <1>1, <1>2, <1>3, <1>4, <1>5, LoopStepOK

LEMMA SecondPassEndsOK ==
  ASSUME IInv, NEW w \in Workers, SecondPassEnds(w)
  PROVE  IInv'
<1>1. /\ at[w] = "action" /\ UNCHANGED <<apiVars, request>>
      /\ UNCHANGED <<value, idx, text, room, tries, status>>
      /\ posted' = [posted EXCEPT ![w] = "OK"] /\ at' = [at EXCEPT ![w] = "find"] /\ "find" \in Places
  BY DEF SecondPassEnds, Goto, textVars, Places
<1>2. Types'
  BY <1>1 DEF IInv, Types
<1>3. Others(w)
  BY <1>1 DEF IInv, Types, Others
<1>4. at'[w] = "find" /\ status'[w] # "200"
  BY <1>1 DEF IInv, Types, TextOK
<1> QED
  BY <1>1, <1>2, <1>3, <1>4, LoopStepOK

LEMMA PostOneOK ==
  ASSUME IInv, NEW w \in Workers, PostOne(w)
  PROVE  IInv'
<1>1. /\ at[w] = "one" /\ UNCHANGED <<apiVars, request>> /\ UNCHANGED <<idx, text, room, tries>>
      /\ Answer(w, "none")
  BY DEF PostOne, Answer, textVars
<1>2. tries' \in [Workers -> 0..RetriesMax]
  BY <1>1 DEF IInv, Types
<1>3. CASE SetFromCstr(Body(w)[1].key) /\ posted' = [posted EXCEPT ![w] = "OK"]
  <2>1. PICK n \in 0..ValueMax :
          value' = [value EXCEPT ![Body(w)[1].key] =
                      IF IsAction(Body(w)[1].key) THEN value[Body(w)[1].key] ELSE n]
    BY <1>3 DEF SetFromCstr
  <2>2. value' \in [Properties -> 0..ValueMax]
    BY <2>1 DEF IInv, Types
  <2> QED
    BY <1>1, <1>2, <1>3, <2>2, AnswerOK
<1>4. CASE posted' = [posted EXCEPT ![w] = "error"] /\ UNCHANGED value
  <2>1. value' \in [Properties -> 0..ValueMax]
    BY <1>4 DEF IInv, Types
  <2> QED
    BY <1>1, <1>2, <1>4, <2>1, AnswerOK
<1> QED
  BY <1>3, <1>4 DEF PostOne

-----------------------------------------------------------------------------
(* The device.                                                             *)

LEMMA DeviceChangesOK ==
  ASSUME IInv, NEW p \in Properties, DeviceChanges(p)
  PROVE  IInv'
<1>1. /\ UNCHANGED <<apiVars, at, request, idx, text, room, tries, posted, status>>
      /\ value' \in [Properties -> 0..ValueMax]
  <2>1. PICK n \in 0..ValueMax : value' = [value EXCEPT ![p] = n]
    BY DEF DeviceChanges
  <2> QED
    BY <2>1 DEF DeviceChanges, textVars, postVars, IInv, Types
<1>2. Types' /\ ApiTypes' /\ ApiOK'
  BY <1>1 DEF IInv, Types, ApiTypes, ApiOK, apiVars
<1>3. ASSUME NEW v \in Workers PROVE LoopOK(v)' /\ TextOK(v)'
  <2>1. Twice => Twice'
    BY <1>1 DEF Twice, apiVars
  <2> QED
    BY <1>1, <2>1, UntouchedOK DEF IInv, apiVars
<1> QED
  BY <1>2, <1>3 DEF IInv

LEMMA RestartOK ==
  ASSUME IInv, Restart
  PROVE  IInv'
<1>1. Types'
  <2>1. ValueMax \in Nat /\ RetriesMax \in Nat
    BY RequestsAssumption
  <2>2. value' = [p \in Properties |-> 0] /\ request' = request
    BY DEF Restart
  <2>3. /\ at' = [w \in Workers |-> "idle"] /\ idx' = [w \in Workers |-> 0]
        /\ text' = [w \in Workers |-> 0] /\ room' = [w \in Workers |-> 0]
        /\ tries' = [w \in Workers |-> 0] /\ posted' = [w \in Workers |-> "no"]
        /\ status' = [w \in Workers |-> "none"]
    BY DEF Restart
  <2> QED
    BY <2>1, <2>2, <2>3 DEF IInv, Types, Places
<1>2. ApiTypes' /\ ApiOK'
  BY DEF Restart, ApiTypes, ApiOK, Starting
<1>3. ASSUME NEW w \in Workers PROVE LoopOK(w)' /\ TextOK(w)'
  <2>1. at'[w] = "idle" /\ status'[w] = "none"
    BY DEF Restart
  <2> QED
    BY <2>1 DEF LoopOK, TextOK, Before, Starting, Passes
<1> QED
  BY <1>1, <1>2, <1>3 DEF IInv

LEMMA ServesOK ==
  ASSUME IInv, TriesOK, NEW w \in Workers, Serves(w)
  PROVE  IInv'
<1>1. CASE MarkInit(w) \/ ApiInit(w) \/ ResourcesSet(w)
  <2>1. CASE ApiInit(w)
    BY <2>1, SetListOK DEF ApiInit, Goto
  <2>2. CASE ResourcesSet(w)
    BY <2>2, SetListOK DEF ResourcesSet, Goto
  <2> QED
    BY <1>1, <2>1, <2>2, MarkInitOK
<1> QED
  BY <1>1, CheckInitOK, RouteOK, ResourceCountOK, ResourceAtOK, MeasuredOK, DescribedOK,
     FindResourceOK, PrintValueOK, SizedOK, FilledOK, RetryOK, ReadContentOK, PostFailsOK,
     ItemDoneOK, ReadPastTokensOK, FirstPassEndsOK, SecondPassEndsOK, PostOneOK DEF Serves

(* Who may render once more has not used up its renderings. *)
LEMMA TriesStepOK ==
  ASSUME IInv, TriesOK, [Next]_vars
  PROVE  TriesOK'
<1>1. ASSUME NEW w \in Workers, NEW r \in Requests, Request(w, r)
      PROVE  TriesOK'
  <2>1. RetriesMax > 0
    BY RequestsAssumption
  <2>2. tries'[w] = 0 /\ \A v \in Workers \ {w} : at'[v] = at[v] /\ tries'[v] = tries[v]
    BY <1>1 DEF Request, Goto, IInv, Types
  <2> QED
    BY <2>1, <2>2 DEF TriesOK
<1>2. ASSUME NEW w \in Workers, Retry(w)
      PROVE  TriesOK'
  <2>1. at'[w] = "idle" \/ tries'[w] < RetriesMax
    BY <1>2 DEF Retry, Answer, Goto, IInv, Types
  <2>2. at[w] = "fill" /\ \A v \in Workers \ {w} : at'[v] = at[v] /\ tries'[v] = tries[v]
    BY <1>2 DEF Retry, Answer, Goto, IInv, Types
  <2> QED
    BY <2>1, <2>2 DEF TriesOK
<1>3. CASE Restart
  BY <1>3 DEF Restart, TriesOK
<1>4. ASSUME tries' = tries, \A v \in Workers : at'[v] # "idle" => at[v] # "idle"
      PROVE  TriesOK'
  BY <1>4 DEF TriesOK
<1>5. CASE UNCHANGED vars
  BY <1>4, <1>5 DEF vars, textVars
<1>6. ASSUME NEW p \in Properties, DeviceChanges(p)
      PROVE  TriesOK'
  BY <1>4, <1>6 DEF DeviceChanges, textVars
<1>7. ASSUME NEW w \in Workers, Serves(w), ~Retry(w)
      PROVE  TriesOK'
  <2>1. at[w] # "idle" /\ tries' = tries
    BY <1>7 DEF Serves, CheckInit, MarkInit, ApiInit, ResourcesSet, Route, ResourceCount, ResourceAt,
       Measured, Described, FindResource, PrintValue, Sized, Filled, ReadContent, PassFails,
       SkipItem, SetItem, ItemFails, ReadPastTokens, FirstPassEnds, SecondPassEnds, PostOne, HasItem, Passes, textVars
  <2>2. \A v \in Workers \ {w} : at'[v] = at[v]
    BY <1>7 DEF Serves, CheckInit, MarkInit, ApiInit, ResourcesSet, Route, ResourceCount, ResourceAt,
       Measured, Described, FindResource, PrintValue, Sized, Filled, ReadContent, PassFails,
       SkipItem, SetItem, ItemFails, ReadPastTokens, FirstPassEnds, SecondPassEnds, PostOne, PostFails, Answer, Goto,
       IInv, Types
  <2> QED
    BY <1>4, <2>1, <2>2
<1> QED
  BY <1>1, <1>2, <1>3, <1>5, <1>6, <1>7 DEF Next

LEMMA StepOK == IInv /\ TriesOK /\ [Next]_vars => IInv' /\ TriesOK'
<1> SUFFICES ASSUME IInv, TriesOK, [Next]_vars
             PROVE  IInv'
  BY TriesStepOK
<1>1. CASE UNCHANGED vars
  <2>1. /\ UNCHANGED <<apiVars, at, request, idx, text, room, status>>
        /\ Types' /\ ApiTypes' /\ ApiOK' /\ (Twice => Twice')
    BY <1>1 DEF vars, apiVars, textVars, postVars, IInv, Types, ApiTypes, ApiOK, Twice
  <2>2. ASSUME NEW v \in Workers PROVE LoopOK(v)' /\ TextOK(v)'
    BY <2>1, UntouchedOK DEF IInv, apiVars
  <2> QED
    BY <2>1, <2>2 DEF IInv
<1> QED
  BY <1>1, RestartOK, ServesOK, RequestOK, DeviceChangesOK DEF Next

THEOREM Invariance == Spec => [](IInv /\ TriesOK)
<1>1. Init => TriesOK
  BY RequestsAssumption DEF Init, TriesOK
<1> QED
  BY <1>1, InitOK, StepOK, PTL DEF Spec

(* TypeOK, for any workers, resource and requests: no loop runs past the   *)
(* end of its list, and no response is rendered more often than allowed.   *)
THEOREM TypeCorrect == Spec => []TypeOK
<1>1. IInv => TypeOK
  <2> SUFFICES ASSUME IInv PROVE TypeOK
    OBVIOUS
  <2>1. ready \in BOOLEAN /\ list \in BOOLEAN
    BY DEF IInv, ApiTypes
  <2>2. /\ inits \subseteq Workers /\ moved \subseteq Workers
        /\ value \in [Properties -> 0..ValueMax]
    BY DEF IInv, ApiTypes, Types
  <2>3. ASSUME NEW w \in Workers
        PROVE  /\ request[w].what \in Whats /\ idx[w] \in Nat /\ text[w] \in Nat /\ room[w] \in Nat
               /\ tries[w] \in 0..RetriesMax
               /\ posted[w] \in {"no", "OK", "error"} /\ status[w] \in {"none", "200", "400", "500"}
    BY DEF IInv, Types, RequestType
  <2>4. ASSUME NEW w \in Workers
        PROVE  /\ at[w] \in Passes => idx[w] <= 2 * Len(Walks(w))
               /\ at[w] \in {"size", "fill"} => idx[w] <= Len(Shown(w))
               /\ at[w] \in {"data", "action"} => idx[w] <= Len(Body(w))
    BY WalksOf DEF IInv, LoopOK, End
  <2> QED
    BY <2>1, <2>2, <2>3, <2>4 DEF TypeOK
<1> QED
  BY <1>1, Invariance, PTL

(* ResponseIsWhole: however the values change between the measuring and    *)
(* the rendering, and whoever initialises the API meanwhile.               *)
THEOREM ResponseCorrect == Spec => []ResponseIsWhole
<1>1. IInv => ResponseIsWhole
  BY DEF IInv, TextOK, Twice, ResponseIsWhole
<1> QED
  BY <1>1, Invariance, PTL

-----------------------------------------------------------------------------
(* Posts apply their items in order.  The invariant says which items a     *)
(* post has applied wherever it is in its two passes.                      *)

InOrder(body, s) == \A m, n \in DOMAIN s : m < n => Precedes(body, s[m], s[n])
Beginning(body, done) == \A i \in Settable(body), j \in done : Precedes(body, i, j) => i \in done

(* What a pass that has come to k items has applied. *)
DataUpTo(body, k) == {i \in Settable(body) : ~IsAction(body[i].key) /\ i <= k}
ActionsUpTo(body, k) == {i \in Settable(body) : IsAction(body[i].key) => i <= k}

Posting == {"one", "data", "action"} \cup Before
Handled(w) ==
  IF at[w] = "data" THEN DataUpTo(Body(w), idx[w])
  ELSE IF at[w] = "action" THEN ActionsUpTo(Body(w), idx[w]) ELSE {}

AppliedOK(w) ==
  /\ at[w] \in Posting => posted[w] = "no" /\ Range(applied[w]) = Handled(w)
  /\ InOrder(Body(w), applied[w]) /\ Beginning(Body(w), Range(applied[w]))
  /\ Range(applied[w]) \subseteq Settable(Body(w))
  /\ posted[w] = "OK" => Range(applied[w]) = Settable(Body(w))

PostOK(w) ==
  /\ at[w] = "one" => Len(Body(w)) = 1
  /\ ~NoItems(w) => AppliedOK(w)

PostInv == applied \in [Workers -> Seq(Nat)] /\ \A w \in Workers : PostOK(w)

LEMMA RangeAppend ==
  ASSUME NEW s \in Seq(Nat), NEW k \in Nat
  PROVE  /\ Append(s, k) \in Seq(Nat) /\ Range(Append(s, k)) = Range(s) \cup {k}
         /\ \A body : (\A i \in Range(s) : Precedes(body, i, k)) /\ InOrder(body, s)
                        => InOrder(body, Append(s, k))
<1> DEFINE t == Append(s, k)
<1>1. /\ t \in Seq(Nat) /\ DOMAIN t = 1..(Len(s) + 1) /\ t[Len(s) + 1] = k
      /\ DOMAIN s = 1..Len(s) /\ Len(s) \in Nat /\ \A n \in 1..Len(s) : t[n] = s[n]
  OBVIOUS
<1>2. 1..(Len(s) + 1) = 1..Len(s) \cup {Len(s) + 1}
  BY <1>1
<1> HIDE DEF t
<1>3. Range(t) = Range(s) \cup {k}
  BY <1>1, <1>2 DEF Range
<1>4. ASSUME NEW body, \A i \in Range(s) : Precedes(body, i, k), InOrder(body, s)
      PROVE  InOrder(body, t)
  <2> SUFFICES ASSUME NEW m \in DOMAIN t, NEW n \in DOMAIN t, m < n
               PROVE  Precedes(body, t[m], t[n])
    BY DEF InOrder
  <2>1. m \in DOMAIN s /\ t[m] = s[m] /\ s[m] \in Range(s)
    BY <1>1, <1>2 DEF Range
  <2>2. CASE n \in DOMAIN s
    BY <1>1, <1>4, <2>1, <2>2 DEF InOrder
  <2>3. CASE n = Len(s) + 1
    BY <1>1, <1>4, <2>1, <2>3
  <2> QED
    BY <1>1, <1>2, <2>2, <2>3
<1> QED
  BY <1>1, <1>3, <1>4 DEF t

LEMMA NothingApplied == Range(<<>>) = {} /\ \A body : InOrder(body, <<>>) /\ Beginning(body, {})
<1>1. DOMAIN <<>> = {}
  OBVIOUS
<1>2. Range(<<>>) = {}
  BY <1>1 DEF Range
<1> QED
  BY <1>1, <1>2 DEF InOrder, Beginning

(* A request that stays keeps its body. *)
LEMMA BodyKept ==
  ASSUME NEW v \in Workers, request'[v] = request[v]
  PROVE  Body(v)' = Body(v) /\ NoItems(v)' = NoItems(v)
BY DEF Body, NoItems, What

(* Where the worker's items, and what it applied of them, do not change. *)
LEMMA PostKept ==
  ASSUME NEW v \in Workers, PostOK(v), request'[v] = request[v], applied'[v] = applied[v], posted'[v] = posted[v],
         at'[v] \in Posting => at[v] \in Posting /\ Handled(v)' = Handled(v),
         at'[v] = "one" => at[v] = "one"
  PROVE  PostOK(v)'
<1>1. Body(v)' = Body(v) /\ NoItems(v)' = NoItems(v)
  BY BodyKept
<1>2. AppliedOK(v) => AppliedOK(v)'
  BY <1>1 DEF AppliedOK, InOrder, Beginning
<1> QED
  BY <1>1, <1>2 DEF PostOK

LEMMA SeqDomain ==
  ASSUME NEW S, NEW s \in Seq(S)
  PROVE  Len(s) \in Nat /\ DOMAIN s = 1..Len(s)
OBVIOUS

(* A step of one worker that leaves what the others handle. *)
LEMMA PostStepOK ==
  ASSUME PostInv, NEW w \in Workers, UNCHANGED request, PostOK(w)',
         applied' \in [Workers -> Seq(Nat)],
         \A v \in Workers \ {w} : at'[v] = at[v] /\ idx'[v] = idx[v] /\ applied'[v] = applied[v] /\ posted'[v] = posted[v]
  PROVE  PostInv'
<1>1. ASSUME NEW v \in Workers \ {w} PROVE PostOK(v)'
  <2>1. Body(v)' = Body(v)
    BY BodyKept
  <2>2. Handled(v)' = Handled(v)
    BY <2>1 DEF Handled, DataUpTo, ActionsUpTo
  <2> QED
    BY <2>1, <2>2, PostKept DEF PostInv
<1> QED
  BY <1>1 DEF PostInv

(* The steps before a pass, and those of other requests. *)
LEMMA PostIdleOK ==
  ASSUME IInv, PostInv, NEW w \in Workers, UNCHANGED <<request, postVars>>,
         at[w] \notin {"one", "data", "action"}, at'[w] \notin {"one", "data", "action"},
         at'[w] \in Before => at[w] \in Before,
         \A v \in Workers \ {w} : at'[v] = at[v] /\ idx'[v] = idx[v]
  PROVE  PostInv'
<1>1. Body(w)' = Body(w)
  BY DEF Body
<1>2. Handled(w)' = Handled(w)
  BY DEF Handled
<1>3. PostOK(w)'
  BY <1>1, <1>2, PostKept DEF PostInv, postVars, Posting
<1> QED
  BY <1>3, PostStepOK DEF PostInv, postVars

LEMMA ServesApart ==
  ASSUME IInv, NEW w \in Workers, Serves(w)
  PROVE  UNCHANGED request /\ \A v \in Workers \ {w} : at'[v] = at[v] /\ idx'[v] = idx[v]
BY DEF Serves, CheckInit, MarkInit, ApiInit, ResourcesSet, Route, ResourceCount, ResourceAt,
       Measured, Described, FindResource, PrintValue, Sized, Filled, Retry, ReadContent, PassFails,
       SkipItem, SetItem, ItemFails, ReadPastTokens, FirstPassEnds, SecondPassEnds, PostOne, PostFails, Answer, Goto,
       Allocated, Skip, textVars, IInv, Types

LEMMA ReadsOK ==
  ASSUME IInv, PostInv, NEW w \in Workers, Serves(w),
         at[w] \notin {"content", "one", "data", "action"}
  PROVE  PostInv'
<1>1. UNCHANGED <<request, postVars>>
  BY DEF Serves, CheckInit, MarkInit, ApiInit, ResourcesSet, Route, ResourceCount, ResourceAt,
       Measured, Described, FindResource, PrintValue, Sized, Filled, Retry, ReadContent, PassFails,
       SkipItem, SetItem, ItemFails, ReadPastTokens, FirstPassEnds, SecondPassEnds, PostOne, HasItem
<1>2. at'[w] \notin {"one", "data", "action"} /\ (at'[w] \in Before => at[w] \in Before)
  BY DEF Serves, CheckInit, MarkInit, ApiInit, ResourcesSet, Route, ResourceCount, ResourceAt,
       Measured, Described, FindResource, PrintValue, Sized, Filled, Retry, ReadContent, PassFails,
       SkipItem, SetItem, ItemFails, ReadPastTokens, FirstPassEnds, SecondPassEnds, PostOne, HasItem, Answer, Goto,
       Before, Starting, Passes, IInv, Types
<1> QED
  BY <1>1, <1>2, ServesApart, PostIdleOK

(* A post that fails answers, and keeps what it has applied. *)
LEMMA PostAnswerOK ==
  ASSUME IInv, PostInv, NEW w \in Workers, Serves(w),
         at'[w] = "idle", UNCHANGED applied, posted'[w] # "OK" \/ posted'[w] = posted[w],
         \A v \in Workers \ {w} : posted'[v] = posted[v]
  PROVE  PostInv'
<1>1. Body(w)' = Body(w) /\ NoItems(w)' = NoItems(w)
  BY ServesApart, BodyKept
<1>2. AppliedOK(w) => AppliedOK(w)'
  BY <1>1 DEF AppliedOK, InOrder, Beginning, Posting, Before, Starting
<1>3. PostOK(w)'
  BY <1>1, <1>2 DEF PostInv, PostOK
<1> QED
  BY <1>3, ServesApart, PostStepOK DEF PostInv

LEMMA ContentOK ==
  ASSUME IInv, PostInv, NEW w \in Workers, ReadContent(w)
  PROVE  PostInv'
<1>0. Serves(w) /\ at[w] = "content"
  BY DEF Serves, ReadContent
<1>1. CASE Goto(w, "data") /\ UNCHANGED posted
  <2>1. at'[w] = "data" /\ UNCHANGED <<idx, applied>> /\ idx'[w] = 0
    BY <1>0, <1>1 DEF Goto, IInv, Types, ReadContent, textVars, LoopOK, Before
  <2>2. Body(w)' = Body(w) /\ UNCHANGED request
    BY <1>0, ServesApart DEF Body
  <2>3. Body(w) \in Seq([key : Names, form : ItemForms]) /\ DOMAIN Body(w) = 1..Len(Body(w))
    BY BodyType, SeqDomain DEF IInv
  <2>4. DataUpTo(Body(w), 0) = {}
    BY <2>3 DEF DataUpTo, Settable
  <2>5. Handled(w)' = Handled(w)
    BY <1>0, <2>1, <2>2, <2>4 DEF Handled, DataUpTo, Settable
  <2>6. PostOK(w)'
    BY <1>0, <1>1, <2>1, <2>2, <2>5, PostKept DEF PostInv, Posting, Before
  <2> QED
    BY <1>0, <1>1, <2>1, <2>6, ServesApart, PostStepOK DEF PostInv
<1>2. CASE Answer(w, "500") /\ posted' = [posted EXCEPT ![w] = "error"]
  BY <1>0, <1>2, PostAnswerOK DEF ReadContent, Answer, Goto, IInv, Types
<1>3. CASE Answer(w, "400") /\ UNCHANGED posted
  BY <1>0, <1>3, PostAnswerOK DEF ReadContent, Answer, Goto, IInv, Types
<1> QED
  BY <1>1, <1>2, <1>3 DEF ReadContent, PostFails

LEMMA FailsOK ==
  ASSUME IInv, PostInv, NEW w \in Workers, PassFails(w) \/ ItemFails(w)
  PROVE  PostInv'
<1>1. /\ at'[w] = "idle" /\ UNCHANGED applied /\ posted'[w] = "error" /\ \A v \in Workers \ {w} : posted'[v] = posted[v]
  BY DEF PassFails, ItemFails, PostFails, Answer, Goto, IInv, Types
<1> QED
  BY <1>1, PostAnswerOK DEF Serves

(* The item a pass has come to, and what it makes of it. *)
LEMMA ItemType ==
  ASSUME IInv, NEW w \in Workers, HasItem(w)
  PROVE  /\ idx[w] \in Nat /\ idx[w] + 1 \in DOMAIN Body(w) /\ DOMAIN Body(w) = 1..Len(Body(w)) /\ Len(Body(w)) \in Nat
         /\ Key(w) = Body(w)[idx[w] + 1].key
<1>1. Body(w) \in Seq([key : Names, form : ItemForms]) /\ Len(Body(w)) \in Nat /\ DOMAIN Body(w) = 1..Len(Body(w))
  BY BodyType, SeqDomain DEF IInv
<1>2. idx[w] \in Nat /\ idx[w] < Len(Body(w))
  BY DEF HasItem, IInv, Types
<1> QED
  BY <1>1, <1>2 DEF Key, Item

LEMMA SkipOK ==
  ASSUME IInv, PostInv, NEW w \in Workers, SkipItem(w)
  PROVE  PostInv'
<1>1. Serves(w) /\ HasItem(w) /\ ~OfPass(w, Key(w)) /\ UNCHANGED <<at, applied, posted>> /\ idx'[w] = idx[w] + 1
  BY DEF Serves, SkipItem, Skip, postVars, IInv, Types
<1>2. at[w] \in {"data", "action"} /\ Body(w)' = Body(w) /\ UNCHANGED request
  BY <1>1, ServesApart DEF HasItem, Body
<1>3. /\ idx[w] \in Nat /\ DOMAIN Body(w) = 1..Len(Body(w)) /\ Key(w) = Body(w)[idx[w] + 1].key
  BY <1>1, ItemType
<1>4. Handled(w)' = Handled(w)
  <2>1. \A i \in DOMAIN Body(w) : i <= idx[w] + 1 <=> i <= idx[w] \/ i = idx[w] + 1
    BY <1>3
  <2>2. CASE at[w] = "data"
    <3>1. idx[w] + 1 \in Settable(Body(w)) => IsAction(Body(w)[idx[w] + 1].key)
      BY <1>1, <1>3, <2>2 DEF OfPass, Settable, IsAction
    <3>2. DataUpTo(Body(w), idx[w] + 1) = DataUpTo(Body(w), idx[w])
      BY <2>1, <3>1 DEF DataUpTo, Settable
    <3> QED
      BY <1>1, <1>2, <2>2, <3>2 DEF Handled, DataUpTo, Settable, IsAction
  <2>3. CASE at[w] = "action"
    <3>1. idx[w] + 1 \in Settable(Body(w)) => ~IsAction(Body(w)[idx[w] + 1].key)
      BY <1>1, <1>3, <2>3 DEF OfPass, Settable, IsAction
    <3>2. ActionsUpTo(Body(w), idx[w] + 1) = ActionsUpTo(Body(w), idx[w])
      BY <2>1, <3>1 DEF ActionsUpTo, Settable
    <3> QED
      BY <1>1, <1>2, <2>3, <3>2 DEF Handled, ActionsUpTo, Settable, IsAction
  <2> QED
    BY <1>2, <2>2, <2>3
<1>5. PostOK(w)'
  BY <1>1, <1>2, <1>4, PostKept DEF PostInv, Posting
<1> QED
  BY <1>1, <1>5, ServesApart, PostStepOK DEF PostInv

LEMMA SetOK ==
  ASSUME IInv, PostInv, NEW w \in Workers, SetItem(w)
  PROVE  PostInv'
<1> DEFINE k == idx[w] + 1
           body == Body(w)
<1>1. /\ Serves(w) /\ HasItem(w) /\ OfPass(w, Key(w)) /\ UNCHANGED <<at, posted>> /\ idx'[w] = k
      /\ applied' = [applied EXCEPT ![w] = Append(applied[w], k)]
  BY DEF Serves, SetItem, Skip, IInv, Types
<1>2. at[w] \in {"data", "action"} /\ Body(w)' = body
  BY <1>1, ServesApart DEF HasItem, Body
<1>3. /\ k \in Nat /\ k - 1 = idx[w] /\ DOMAIN body = 1..Len(body) /\ k \in DOMAIN body /\ Key(w) = body[k].key
  BY <1>1, ItemType
<1>4. k \in Settable(body) /\ (IsAction(body[k].key) <=> at[w] = "action")
  BY <1>1, <1>3 DEF OfPass, Settable, IsAction
<1>5. applied[w] \in Seq(Nat) /\ applied'[w] = Append(applied[w], k)
  BY <1>1 DEF PostInv
<1> HIDE DEF k, body
<1>6. Range(applied'[w]) = Range(applied[w]) \cup {k}
  BY <1>3, <1>5, RangeAppend
<1>16. ~NoItems(w) /\ AppliedOK(w)
  <2>1. body # <<>>
    BY <1>3
  <2> QED
    BY <2>1 DEF NoItems, PostInv, PostOK, body
<1>7. posted[w] = "no" /\ Range(applied[w]) = Handled(w)
  BY <1>2, <1>16 DEF AppliedOK, Posting
<1>8. \A i \in DOMAIN body : i <= k <=> i <= idx[w] \/ i = k
  BY <1>3
<1>9. ASSUME NEW i \in DOMAIN body, i <= idx[w] PROVE i < k
  BY <1>3, <1>9
<1>10. /\ Handled(w)' = Handled(w) \cup {k} /\ Beginning(body, Handled(w)')
       /\ \A i \in Handled(w) : i \in Settable(body) /\ Precedes(body, i, k)
  <2>1. CASE at[w] = "data"
    <3>1. Handled(w) = DataUpTo(body, idx[w]) /\ Handled(w)' = DataUpTo(body, k)
      BY <1>1, <1>2, <2>1 DEF Handled, DataUpTo, Settable, IsAction, body
    <3>2. DataUpTo(body, k) = DataUpTo(body, idx[w]) \cup {k}
      BY <1>4, <1>8, <2>1 DEF DataUpTo, Settable
    <3>3. \A i \in DataUpTo(body, idx[w]) : i \in Settable(body) /\ Precedes(body, i, k)
      BY <1>4, <1>9, <2>1 DEF DataUpTo, Settable, Precedes, IsAction
    <3>4. Beginning(body, DataUpTo(body, k))
      BY <1>3 DEF Beginning, DataUpTo, Settable, Precedes, IsAction
    <3> QED
      BY <3>1, <3>2, <3>3, <3>4
  <2>2. CASE at[w] = "action"
    <3>1. Handled(w) = ActionsUpTo(body, idx[w]) /\ Handled(w)' = ActionsUpTo(body, k)
      BY <1>1, <1>2, <2>2 DEF Handled, ActionsUpTo, Settable, IsAction, body
    <3>2. ActionsUpTo(body, k) = ActionsUpTo(body, idx[w]) \cup {k}
      BY <1>4, <1>8, <2>2 DEF ActionsUpTo, Settable
    <3>3. \A i \in ActionsUpTo(body, idx[w]) : i \in Settable(body) /\ Precedes(body, i, k)
      BY <1>4, <1>9, <2>2 DEF ActionsUpTo, Settable, Precedes, IsAction
    <3>4. Beginning(body, ActionsUpTo(body, k))
      BY <1>3 DEF Beginning, ActionsUpTo, Settable, Precedes, IsAction
    <3> QED
      BY <3>1, <3>2, <3>3, <3>4
  <2> QED
    BY <1>2, <2>1, <2>2
<1>11. Range(applied'[w]) = Handled(w)'
  BY <1>6, <1>7, <1>10
<1>12. InOrder(body, applied'[w])
  BY <1>3, <1>5, <1>7, <1>10, <1>16, RangeAppend DEF PostInv, AppliedOK, body
<1>13. Range(applied'[w]) \subseteq Settable(body) /\ at'[w] # "one" /\ posted'[w] = "no"
  BY <1>1, <1>2, <1>4, <1>7, <1>10, <1>11
<1>14. PostOK(w)'
  <2>1. InOrder(Body(w), applied[w])' /\ Beginning(Body(w), Range(applied[w]))' /\ Range(applied[w])' \subseteq Settable(Body(w))'
    BY <1>2, <1>10, <1>11, <1>12, <1>13 DEF InOrder, Beginning, Settable, Precedes, IsAction
  <2> QED
    BY <1>2, <1>11, <1>13, <2>1 DEF PostOK, AppliedOK
<1>15. applied' \in [Workers -> Seq(Nat)] /\ \A v \in Workers \ {w} : applied'[v] = applied[v]
  BY <1>1, <1>3, <1>5, RangeAppend DEF PostInv
<1> QED
  BY <1>1, <1>14, <1>15, ServesApart, PostStepOK

(* Of an object without items nothing is said. *)
LEMMA PastTokensOK ==
  ASSUME IInv, PostInv, NEW w \in Workers, ReadPastTokens(w)
  PROVE  PostInv'
<1>1. /\ Serves(w) /\ NoItems(w) /\ at'[w] # "one"
      /\ \A v \in Workers \ {w} : applied'[v] = applied[v] /\ posted'[v] = posted[v]
  BY DEF Serves, ReadPastTokens, Goto, postVars, IInv, Types, PostInv
<1>2. applied' \in [Workers -> Seq(Nat)]
  <2>1. Append(applied[w], 1) \in Seq(Nat)
    BY DEF PostInv
  <2> QED
    BY <2>1 DEF ReadPastTokens, postVars, PostInv
<1>3. PostOK(w)'
  BY <1>1, ServesApart, BodyKept DEF PostOK
<1> QED
  BY <1>1, <1>2, <1>3, ServesApart, PostStepOK

LEMMA PassEndsOK ==
  ASSUME IInv, PostInv, NEW w \in Workers, FirstPassEnds(w) \/ SecondPassEnds(w)
  PROVE  PostInv'
<1> DEFINE body == Body(w)
<1>1. Serves(w) /\ applied' = applied /\ at[w] \in {"data", "action"} /\ idx[w] = Len(body) /\ ~NoItems(w)
  BY DEF Serves, FirstPassEnds, SecondPassEnds, PassDone, postVars
<1>2. Body(w)' = body /\ UNCHANGED request
  BY <1>1, ServesApart DEF Body
<1>3. DOMAIN body = 1..Len(body) /\ Len(body) \in Nat
  BY BodyType, SeqDomain DEF IInv
<1> HIDE DEF body
<1>4. CASE FirstPassEnds(w)
  <2>1. at[w] = "data" /\ at'[w] = "action" /\ idx'[w] = 0 /\ UNCHANGED posted
    BY <1>4 DEF FirstPassEnds, Goto, postVars, IInv, Types
  <2>2. Handled(w) = DataUpTo(body, idx[w]) /\ Handled(w)' = ActionsUpTo(body, 0)
    BY <1>2, <2>1 DEF Handled, ActionsUpTo, Settable, IsAction, body
  <2>3. DataUpTo(body, idx[w]) = ActionsUpTo(body, 0)
    BY <1>1, <1>3 DEF ActionsUpTo, DataUpTo, Settable, IsAction
  <2>4. PostOK(w)'
    BY <1>1, <1>2, <2>1, <2>2, <2>3, PostKept DEF PostInv, Posting, body
  <2> QED
    BY <1>1, <2>1, <2>4, ServesApart, PostStepOK DEF PostInv
<1>5. CASE SecondPassEnds(w)
  <2>1. at[w] = "action" /\ at'[w] = "find" /\ posted'[w] = "OK" /\ \A v \in Workers \ {w} : posted'[v] = posted[v]
    BY <1>5 DEF SecondPassEnds, Goto, IInv, Types
  <2>2. Range(applied[w]) = ActionsUpTo(body, idx[w])
    BY <1>1, <2>1 DEF Handled, PostInv, PostOK, AppliedOK, Posting, body
  <2>3. ActionsUpTo(body, idx[w]) = Settable(body)
    BY <1>1, <1>3 DEF ActionsUpTo, Settable
  <2>4. PostOK(w)'
    BY <1>1, <1>2, <2>1, <2>2, <2>3 DEF PostInv, PostOK, AppliedOK, InOrder, Beginning, Posting, Before, Starting, body
  <2> QED
    BY <1>1, <2>1, <2>4, ServesApart, PostStepOK DEF PostInv
<1> QED
  BY <1>4, <1>5

LEMMA OneOK ==
  ASSUME IInv, PostInv, NEW w \in Workers, PostOne(w)
  PROVE  PostInv'
<1> DEFINE body == Body(w)
<1>1. Serves(w) /\ at[w] = "one" /\ at'[w] = "idle" /\ \A v \in Workers \ {w} : posted'[v] = posted[v]
  BY DEF Serves, PostOne, Goto, IInv, Types
<1>2. Body(w)' = body
  BY <1>1, ServesApart DEF Body
<1>3. Len(body) = 1
  BY <1>1 DEF PostInv, PostOK, AppliedOK
<1>4. DOMAIN body = 1..Len(body)
  BY BodyType, SeqDomain DEF IInv
<1> HIDE DEF body
<1>5. CASE body[1].key \in Properties /\ applied' = [applied EXCEPT ![w] = <<1>>] /\ posted' = [posted EXCEPT ![w] = "OK"]
  <2>1. Settable(body) = {1}
    BY <1>3, <1>4, <1>5 DEF Settable
  <2>2. <<1>> \in Seq(Nat) /\ DOMAIN <<1>> = 1..1 /\ <<1>>[1] = 1
    OBVIOUS
  <2>3. Range(<<1>>) = {1}
    BY <2>2 DEF Range
  <2>4. InOrder(body, <<1>>)
    BY <2>2 DEF InOrder
  <2>5. applied'[w] = <<1>> /\ posted'[w] = "OK" /\ applied' \in [Workers -> Seq(Nat)]
    BY <1>5, <2>2 DEF PostInv, IInv, Types
  <2>6. Beginning(body, {1})
    BY <2>1 DEF Beginning
  <2>8. InOrder(Body(w), applied[w])' /\ Beginning(Body(w), Range(applied[w]))' /\ Range(applied[w])' = Settable(Body(w))'
    BY <1>2, <2>1, <2>3, <2>4, <2>5, <2>6 DEF InOrder, Beginning, Settable, Precedes, IsAction
  <2>7. PostOK(w)'
    BY <1>1, <1>2, <2>8 DEF PostOK, AppliedOK, Posting, Before, Starting
  <2> QED
    BY <1>1, <1>5, <2>5, <2>7, ServesApart, PostStepOK DEF PostInv
<1>6. CASE UNCHANGED applied /\ posted' = [posted EXCEPT ![w] = "error"]
  BY <1>1, <1>6, PostAnswerOK DEF IInv, Types
<1> QED
  BY <1>5, <1>6 DEF PostOne, body

LEMMA PostRequestOK ==
  ASSUME IInv, PostInv, NEW w \in Workers, NEW r \in Requests, Request(w, r)
  PROVE  PostInv'
<1>1. /\ request'[w] = r /\ applied'[w] = <<>> /\ posted'[w] = "no" /\ at'[w] \in {"one", "measure", "check"}
      /\ at'[w] = "one" => r.what = "one"
  BY DEF Request, Goto, PostInv, IInv, Types
<1>2. applied' \in [Workers -> Seq(Nat)]
  BY DEF Request, PostInv
<1>3. PostOK(w)'
  <2>1. Body(w)' = r.body /\ Handled(w)' = {}
    BY <1>1 DEF Body, Handled
  <2>2. at'[w] = "one" => Len(r.body) = 1
    BY <1>1, RequestsAssumption
  <2>3. Range(applied[w])' = {} /\ InOrder(r.body, applied[w])' /\ Beginning(r.body, {})'
    BY <1>1, NothingApplied DEF InOrder, Beginning
  <2> QED
    BY <1>1, <2>1, <2>2, <2>3 DEF PostOK, AppliedOK
<1>4. ASSUME NEW v \in Workers \ {w} PROVE PostOK(v)'
  <2>1. request'[v] = request[v] /\ at'[v] = at[v] /\ idx'[v] = idx[v] /\ applied'[v] = applied[v] /\ posted'[v] = posted[v]
    BY DEF Request, Goto, PostInv, IInv, Types
  <2>2. Body(v)' = Body(v)
    BY <2>1 DEF Body
  <2>3. Handled(v)' = Handled(v)
    BY <2>1, <2>2 DEF Handled, DataUpTo, ActionsUpTo
  <2> QED
    BY <2>1, <2>2, <2>3, PostKept DEF PostInv
<1> QED
  BY <1>2, <1>3, <1>4 DEF PostInv

LEMMA PostNextOK == IInv /\ PostInv /\ [Next]_vars => PostInv'
<1> SUFFICES ASSUME IInv, PostInv, [Next]_vars PROVE PostInv'
  OBVIOUS
<1>1. ASSUME UNCHANGED <<at, request, idx, applied, posted>> PROVE PostInv'
  <2>1. ASSUME NEW v \in Workers PROVE PostOK(v)'
    <3>1. Body(v)' = Body(v)
      BY <1>1 DEF Body
    <3>2. Handled(v)' = Handled(v)
      BY <1>1, <3>1 DEF Handled, DataUpTo, ActionsUpTo
    <3> QED
      BY <1>1, <3>1, <3>2, PostKept DEF PostInv
  <2> QED
    BY <1>1, <2>1 DEF PostInv
<1>2. CASE UNCHANGED vars
  BY <1>1, <1>2 DEF vars, textVars, postVars
<1>3. CASE \E p \in Properties : DeviceChanges(p)
  BY <1>1, <1>3 DEF DeviceChanges, textVars, postVars
<1>4. CASE Restart
  <2>1. ASSUME NEW v \in Workers PROVE PostOK(v)'
    <3>1. at'[v] = "idle" /\ applied'[v] = <<>> /\ posted'[v] = "no"
      BY <1>4 DEF Restart
    <3>2. Range(applied[v])' = {} /\ InOrder(Body(v), applied[v])' /\ Beginning(Body(v), {})'
      BY <3>1, NothingApplied DEF InOrder, Beginning
    <3> QED
      BY <3>1, <3>2 DEF PostOK, AppliedOK, Posting, Before, Starting
  <2>2. applied' \in [Workers -> Seq(Nat)]
    BY <1>4 DEF Restart
  <2> QED
    BY <2>1, <2>2 DEF PostInv
<1>5. ASSUME NEW w \in Workers, Serves(w) PROVE PostInv'
  <2>1. CASE at[w] \notin {"content", "one", "data", "action"}
    BY <1>5, <2>1, ReadsOK
  <2>2. CASE at[w] \in {"content", "one", "data", "action"}
    <3>1. \/ ReadContent(w) \/ PassFails(w) \/ SkipItem(w) \/ SetItem(w) \/ ItemFails(w)
          \/ ReadPastTokens(w) \/ FirstPassEnds(w) \/ SecondPassEnds(w) \/ PostOne(w)
      BY <1>5, <2>2 DEF Serves, CheckInit, MarkInit, ApiInit, ResourcesSet, Route, ResourceCount, ResourceAt,
         Measured, Described, FindResource, PrintValue, Sized, Filled, Retry, Passes
    <3> QED
      BY <3>1, ContentOK, FailsOK, SkipOK, SetOK, PastTokensOK, PassEndsOK, OneOK
  <2> QED
    BY <2>1, <2>2
<1> QED
  BY <1>2, <1>3, <1>4, <1>5, PostRequestOK DEF Next

(* PostInOrder, for any number of workers that post any bodies: data       *)
(* before actions, none twice, none left out of a post that succeeds.      *)
THEOREM PostCorrect == Spec => []PostInOrder
<1>1. Init => PostInv
  <2> SUFFICES ASSUME Init PROVE PostInv
    OBVIOUS
  <2>1. ASSUME NEW v \in Workers PROVE PostOK(v)
    BY NothingApplied DEF Init, PostOK, AppliedOK, Posting, Before, Starting
  <2>2. applied \in [Workers -> Seq(Nat)]
    BY DEF Init
  <2> QED
    BY <2>1, <2>2 DEF PostInv
<1>2. PostInv => PostInOrder
  BY DEF PostInv, PostOK, AppliedOK, PostInOrder, InOrder, Beginning
<1> QED
  BY <1>1, <1>2, Invariance, PostNextOK, PTL DEF Spec

=============================================================================
