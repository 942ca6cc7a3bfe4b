------------------------------- MODULE WebApi -------------------------------
(***************************************************************************)
(* The web API, src/src/httpwebapi.c, as the handler of                    *)
(* src/src/example/html/wwebapi.c uses it: workers describe the resources, *)
(* read a resource and post to it, while the device changes its values.   *)
(* Nothing here takes a lock.                                              *)
(*                                                                         *)
(* A text is its length.  The one resource is a sequence of properties; a  *)
(* body is a sequence of keys with values.                                 *)
(***************************************************************************)
EXTENDS Integers, Sequences, SequencesExt

CONSTANTS
  Workers,     (* threads that run the handler                           *)
  Requests,    (* see RequestsAssumption                                 *)
  Order,       (* the properties of the resource, in order               *)
  Kind,        (* of each: "data", "fixed" without set_callback, "action" *)
  ValueMax,    (* bound: length of a value                               *)
  SlackMin, SlackDiv, RetriesMax   (* WEBAPI_RESPONSE_*                  *)

Properties == DOMAIN Kind
IsAction(p) == Kind[p] = "action"
NoName == "none"     (* no property is asked for: the whole resource is *)
Unknown == "other"   (* a name of no property                           *)
Names == Properties \cup {NoName, Unknown}
Descriptions == {"openapi", "wot"}
Whats == Descriptions \cup {"read", "post", "one"}

(* An item of a body is good, of another type than its property, or no     *)
(* string or primitive that fits the buffers.                              *)
ItemForms == {"good", "illtyped", "nested"}

ASSUME RequestsAssumption ==
  /\ Kind \in [Properties -> {"data", "fixed", "action"}] /\ Order \in Seq(Properties) /\ {NoName, Unknown} \cap Properties = {}
  /\ Requests \subseteq [what : Whats, property : Names, body : Seq([key : Names, form : ItemForms])]
  /\ \A r \in Requests : r.what = "one" => Len(r.body) = 1
  /\ {ValueMax, SlackMin} \subseteq Nat /\ {SlackDiv, RetriesMax} \subseteq Nat \ {0}

VARIABLES
  ready,     (* _upgrade_init                                            *)
  list,      (* _webapi_property_resources is not NULL                   *)
  inits,     (* workers that found the API not ready                     *)
  moved,     (* workers during whose request the list changed            *)
  value,     (* the length of each property's value                      *)
  at,        (* where each worker is                                     *)
  request,   (* what it serves                                           *)
  idx,       (* how far its loop has come                                *)
  text,      (* length of the text it measures or renders                *)
  room,      (* size of its allocation, 0 for none                       *)
  tries,     (* renderings that did not fit                              *)
  applied,   (* items of the body that were given to a set_callback      *)
  posted,    (* how webapi_post() ended: "no", "OK" or "error"           *)
  status     (* of the response: "none", "200", "400" or "500"           *)

apiVars == <<ready, list, inits, moved>>
textVars == <<idx, text, room, tries>>
postVars == <<applied, posted>>
vars == <<apiVars, value, at, request, textVars, postVars, status>>

Init ==
  /\ ready = FALSE /\ list = FALSE /\ inits = {} /\ moved = {}
  /\ value = [p \in Properties |-> 0]
  /\ at = [w \in Workers |-> "idle"]
  /\ request = [w \in Workers |-> [what |-> "read", property |-> NoName, body |-> <<>>]]
  /\ idx = [w \in Workers |-> 0] /\ text = [w \in Workers |-> 0]
  /\ room = [w \in Workers |-> 0] /\ tries = [w \in Workers |-> 0]
  /\ applied = [w \in Workers |-> <<>>] /\ posted = [w \in Workers |-> "no"]
  /\ status = [w \in Workers |-> "none"]

Passes == {"measure", "render"}
Goto(w, place) == at' = [at EXCEPT ![w] = place]
Answer(w, code) == Goto(w, "idle") /\ status' = [status EXCEPT ![w] = code]
What(w) == request[w].what
Body(w) == request[w].body

-----------------------------------------------------------------------------
(* A request, and the first one's initialisation.                          *)

Request(w, r) ==
  /\ at[w] = "idle"
  /\ Goto(w, IF r.what = "one" THEN "one" ELSE IF r.what = "wot" THEN "measure" ELSE "check")
  /\ request' = [request EXCEPT ![w] = r] /\ moved' = moved \ {w}
  /\ idx' = [idx EXCEPT ![w] = 0] /\ text' = [text EXCEPT ![w] = 0]
  /\ room' = [room EXCEPT ![w] = 0] /\ tries' = [tries EXCEPT ![w] = 0]
  /\ applied' = [applied EXCEPT ![w] = <<>>] /\ posted' = [posted EXCEPT ![w] = "no"]
  /\ status' = [status EXCEPT ![w] = "none"]
  /\ UNCHANGED <<ready, list, inits, value>>

CheckInit(w) ==
  /\ at[w] = "check"
  /\ IF ready THEN Goto(w, "route") /\ UNCHANGED inits
     ELSE Goto(w, "mark") /\ inits' = inits \cup {w}
  /\ UNCHANGED <<ready, list, moved, value, request, textVars, postVars, status>>

MarkInit(w) ==
  /\ at[w] = "mark" /\ Goto(w, "clear") /\ ready' = TRUE
  /\ UNCHANGED <<list, inits, moved, value, request, textVars, postVars, status>>

SetList(set) ==
  /\ list' = set
  /\ moved' = (IF list = set THEN moved ELSE moved \cup {v \in Workers : at[v] \in Passes})

(* webapi_init() clears the list, webapi_property_resources_set() sets it. *)
ApiInit(w) ==
  /\ at[w] = "clear" /\ Goto(w, "set") /\ SetList(FALSE)
  /\ UNCHANGED <<ready, inits, value, request, textVars, postVars, status>>

ResourcesSet(w) ==
  /\ at[w] = "set" /\ Goto(w, "route") /\ SetList(TRUE)
  /\ UNCHANGED <<ready, inits, value, request, textVars, postVars, status>>

(* Where a resource is asked for, it is looked up first. *)
Route(w) ==
  /\ at[w] = "route"
  /\ IF What(w) = "openapi" THEN Goto(w, "measure") /\ UNCHANGED status
     ELSE IF list THEN Goto(w, IF What(w) = "post" THEN "content" ELSE "find") /\ UNCHANGED status
     ELSE Answer(w, "400")
  /\ UNCHANGED <<apiVars, value, request, textVars, postVars>>

-----------------------------------------------------------------------------
(* webapi_openapi_json() and webapi_wot_json(), which an application calls *)
(* itself, measure a description, allocate it, and render it.  A pass     *)
(* looks for the resource several times, and it has text for some of them: *)
(* its paths; its properties and its actions; but never events.  To find   *)
(* how many resources there are (idx is even) and to find one (idx is odd) *)
(* are two walks of the list.                                              *)

Walks(w) == IF What(w) = "openapi" THEN <<1, 0>> ELSE <<1, 1, 0, 0>>
PassEnds(w) == idx[w] = 2 * Len(Walks(w))

Take(w, n) == text' = [text EXCEPT ![w] = @ + n]
Skip(w, n) == idx' = [idx EXCEPT ![w] = @ + n]

ResourceCount(w) ==
  /\ at[w] \in Passes /\ ~PassEnds(w) /\ idx[w] % 2 = 0
  /\ Skip(w, IF list THEN 1 ELSE 2)
  /\ UNCHANGED <<apiVars, value, at, request, text, room, tries, postVars, status>>

ResourceAt(w) ==
  /\ at[w] \in Passes /\ idx[w] % 2 = 1
  /\ IF list THEN Skip(w, 1) /\ Take(w, Walks(w)[(idx[w] + 1) \div 2]) /\ UNCHANGED at
     ELSE Goto(w, "crashed") /\ UNCHANGED <<idx, text>>
  /\ UNCHANGED <<apiVars, value, request, room, tries, postVars, status>>

Allocated(w, size) ==
  /\ room' = [room EXCEPT ![w] = size]
  /\ idx' = [idx EXCEPT ![w] = 0] /\ text' = [text EXCEPT ![w] = 0]

Measured(w) ==
  /\ at[w] = "measure" /\ PassEnds(w)
  /\ \/ Allocated(w, text[w] + 1) /\ Goto(w, "render") /\ UNCHANGED status
     \/ Answer(w, "500") /\ UNCHANGED <<room, idx, text>>
  /\ UNCHANGED <<apiVars, value, request, tries, postVars>>

Described(w) ==
  /\ at[w] = "render" /\ PassEnds(w) /\ Answer(w, "200")
  /\ UNCHANGED <<apiVars, value, request, textVars, postVars>>

-----------------------------------------------------------------------------
(* webapi_generate_simple_response(): it measures, allocates some more     *)
(* than that, and renders again while that was not enough.                *)

Shown(w) == IF request[w].property # NoName THEN <<request[w].property>> ELSE Order

Slack(n) == IF n \div SlackDiv < SlackMin THEN SlackMin ELSE n \div SlackDiv
BufferSize(n) == n + Slack(n) + 1

FindResource(w) ==
  /\ at[w] = "find"
  /\ LET p == request[w].property
     IN  IF ~list THEN Answer(w, "500") /\ UNCHANGED <<room, idx, text>>
         ELSE IF p = NoName \/ (p \in Properties /\ ~IsAction(p))
         THEN Goto(w, "size") /\ UNCHANGED <<status, room>>
              /\ idx' = [idx EXCEPT ![w] = 0] /\ text' = [text EXCEPT ![w] = 0]
         ELSE \/ Answer(w, "200") /\ Allocated(w, 1)
              \/ Answer(w, "500") /\ UNCHANGED <<room, idx, text>>
  /\ UNCHANGED <<apiVars, value, request, tries, postVars>>

(* A value, which is as long as it is now; a getter that fails gives none, *)
(* and an action has none.                                                 *)
PrintValue(w) ==
  /\ at[w] \in {"size", "fill"} /\ idx[w] < Len(Shown(w))
  /\ LET p == Shown(w)[idx[w] + 1]
     IN  Skip(w, 1) /\ \E n \in (IF IsAction(p) THEN {0} ELSE {value[p], 0}) : Take(w, n)
  /\ UNCHANGED <<apiVars, value, at, request, room, tries, postVars, status>>

AllPrinted(w) == idx[w] = Len(Shown(w))

Sized(w) ==
  /\ at[w] = "size" /\ AllPrinted(w)
  /\ \/ Allocated(w, BufferSize(text[w])) /\ Goto(w, "fill") /\ UNCHANGED status
     \/ Answer(w, "500") /\ UNCHANGED <<room, idx, text>>
  /\ UNCHANGED <<apiVars, value, request, tries, postVars>>

FilledToTheBrim(w) ==
  /\ at[w] = "fill" /\ AllPrinted(w) /\ text[w] <= room[w] /\ Answer(w, "200")
  /\ UNCHANGED <<apiVars, value, request, textVars, postVars>>

Filled(w) ==
  /\ at[w] = "fill" /\ AllPrinted(w) /\ text[w] < room[w] /\ Answer(w, "200")
  /\ UNCHANGED <<apiVars, value, request, textVars, postVars>>

RetryOnceMore(w) ==
  /\ at[w] = "fill" /\ AllPrinted(w) /\ text[w] >= room[w]
  /\ tries' = [tries EXCEPT ![w] = @ + 1]
  /\ \/ tries[w] < RetriesMax /\ Allocated(w, BufferSize(text[w])) /\ UNCHANGED <<at, status>>
     \/ Answer(w, "500") /\ room' = [room EXCEPT ![w] = 0] /\ UNCHANGED <<idx, text>>
  /\ UNCHANGED <<apiVars, value, request, postVars>>

Retry(w) ==
  /\ at[w] = "fill" /\ AllPrinted(w) /\ text[w] >= room[w]
  /\ tries' = [tries EXCEPT ![w] = @ + 1]
  /\ \/ tries'[w] < RetriesMax /\ Allocated(w, BufferSize(text[w])) /\ UNCHANGED <<at, status>>
     \/ Answer(w, "500") /\ room' = [room EXCEPT ![w] = 0] /\ UNCHANGED <<idx, text>>
  /\ UNCHANGED <<apiVars, value, request, postVars>>

-----------------------------------------------------------------------------
(* webapi_post().  The handler posts whole bodies, an application may post *)
(* to one property.                                                        *)

PostFails(w) ==
  /\ posted' = [posted EXCEPT ![w] = "error"] /\ Answer(w, "500") /\ UNCHANGED idx

ReadContent(w) ==
  /\ at[w] = "content"
  /\ \/ Goto(w, "data") /\ list /\ UNCHANGED <<status, posted>>
     \/ ~list /\ PostFails(w)
     \/ Answer(w, "400") /\ UNCHANGED posted
  /\ UNCHANGED <<apiVars, value, request, textVars, applied>>

(* No JSON object, or no memory for its tokens. *)
PassFails(w) ==
  /\ at[w] \in {"data", "action"} /\ idx[w] = 0 /\ PostFails(w)
  /\ UNCHANGED <<apiVars, value, request, text, room, tries, applied>>

(* The keys of a pass: the others are skipped.                             *)
OfAnyPass(w, p) == p \in Properties

OfPass(w, p) == p \in Properties /\ IsAction(p) = (at[w] = "action")

Item(w) == Body(w)[idx[w] + 1]
Key(w) == Item(w).key
HasItem(w) == at[w] \in {"data", "action"} /\ idx[w] < Len(Body(w))

SkipItem(w) ==
  /\ HasItem(w) /\ Item(w).form # "nested" /\ ~OfPass(w, Key(w)) /\ Skip(w, 1)
  /\ UNCHANGED <<apiVars, value, at, request, text, room, tries, postVars, status>>

(* webapi_prop_set_from_cstr(); an action has no value that stays. *)
SetFromCstr(p) ==
  \E n \in 0..ValueMax : value' = [value EXCEPT ![p] = IF IsAction(p) THEN @ ELSE n]

SetItem(w) ==
  /\ HasItem(w) /\ Item(w).form = "good" /\ OfPass(w, Key(w)) /\ Kind[Key(w)] # "fixed"
  /\ SetFromCstr(Key(w)) /\ applied' = [applied EXCEPT ![w] = Append(@, idx[w] + 1)]
  /\ Skip(w, 1)
  /\ UNCHANGED <<apiVars, at, request, text, room, tries, posted, status>>

(* It is not what its property takes, or the callback refuses it. *)
ItemFails(w) ==
  /\ HasItem(w) /\ (Item(w).form = "nested" \/ OfPass(w, Key(w))) /\ PostFails(w)
  /\ UNCHANGED <<apiVars, value, request, text, room, tries, applied>>

(* An object without items has one token, and a pass takes what is behind *)
(* it for its only item: that fails, is no key of the pass, names a        *)
(* property, or ends the program.                                          *)
NoItems(w) == What(w) = "post" /\ Body(w) = <<>>

ReadPastTokens(w) ==
  /\ at[w] \in {"data", "action"} /\ NoItems(w)
  /\ \/ Goto(w, "crashed") /\ UNCHANGED <<value, postVars>>
     \/ /\ Goto(w, IF at[w] = "data" THEN "action" ELSE "find")
        /\ posted' = [posted EXCEPT ![w] = IF at[w] = "data" THEN @ ELSE "OK"]
        /\ \/ UNCHANGED <<value, applied>>
           \/ /\ \E p \in Properties : OfPass(w, p) /\ SetFromCstr(p)
              /\ applied' = [applied EXCEPT ![w] = Append(@, 1)]
  /\ UNCHANGED <<apiVars, request, textVars, status>>

(* A pass has had an item, and the test for none at its end never holds. *)
PassDone(w) == ~NoItems(w) /\ idx[w] = Len(Body(w))

FirstPassEnds(w) ==
  /\ at[w] = "data" /\ PassDone(w) /\ Goto(w, "action")
  /\ idx' = [idx EXCEPT ![w] = 0]
  /\ UNCHANGED <<apiVars, value, request, text, room, tries, postVars, status>>

SecondPassEnds(w) ==
  /\ at[w] = "action" /\ PassDone(w) /\ Goto(w, "find")
  /\ posted' = [posted EXCEPT ![w] = "OK"]
  /\ UNCHANGED <<apiVars, value, request, textVars, applied, status>>

(* webapi_post() to one property, which may be an action. *)
PostOne(w) ==
  /\ at[w] = "one" /\ Goto(w, "idle") /\ status' = [status EXCEPT ![w] = "none"]
  /\ \/ /\ list /\ Body(w)[1].key \in Properties /\ Body(w)[1].form = "good"
        /\ Kind[Body(w)[1].key] # "fixed"
        /\ SetFromCstr(Body(w)[1].key) /\ applied' = [applied EXCEPT ![w] = <<1>>]
        /\ posted' = [posted EXCEPT ![w] = "OK"]
     \/ posted' = [posted EXCEPT ![w] = "error"] /\ UNCHANGED <<value, applied>>
  /\ UNCHANGED <<apiVars, request, textVars>>

-----------------------------------------------------------------------------
(* The device, which may change any value, and starts again after a crash. *)

DeviceChanges(p) ==
  /\ ~IsAction(p)
  /\ \E n \in 0..ValueMax : n # value[p] /\ value' = [value EXCEPT ![p] = n]
  /\ UNCHANGED <<apiVars, at, request, textVars, postVars, status>>

Crashed == \E w \in Workers : at[w] = "crashed"

Restart ==
  /\ Crashed
  /\ ready' = FALSE /\ list' = FALSE /\ inits' = {} /\ moved' = {}
  /\ value' = [p \in Properties |-> 0]
  /\ at' = [w \in Workers |-> "idle"]
  /\ idx' = [w \in Workers |-> 0] /\ text' = [w \in Workers |-> 0]
  /\ room' = [w \in Workers |-> 0] /\ tries' = [w \in Workers |-> 0]
  /\ applied' = [w \in Workers |-> <<>>] /\ posted' = [w \in Workers |-> "no"]
  /\ status' = [w \in Workers |-> "none"]
  /\ UNCHANGED request

Serves(w) ==
  \/ CheckInit(w) \/ MarkInit(w) \/ ApiInit(w) \/ ResourcesSet(w) \/ Route(w)
  \/ ResourceCount(w) \/ ResourceAt(w) \/ Measured(w) \/ Described(w)
  \/ FindResource(w) \/ PrintValue(w) \/ Sized(w) \/ Filled(w) \/ Retry(w)
  \/ ReadContent(w) \/ PassFails(w) \/ SkipItem(w) \/ SetItem(w) \/ ItemFails(w)
  \/ ReadPastTokens(w) \/ FirstPassEnds(w) \/ SecondPassEnds(w) \/ PostOne(w)

Next ==
  \/ Restart
  \/ /\ ~Crashed
     /\ \/ \E w \in Workers : Serves(w)
        \/ \E w \in Workers : \E r \in Requests : Request(w, r)
        \/ \E p \in Properties : DeviceChanges(p)

Spec == Init /\ [][Next]_vars

-----------------------------------------------------------------------------
(* Every variable keeps its type, and a loop ends where its list does. *)
TypeOK ==
  /\ {ready, list} \subseteq BOOLEAN /\ inits \subseteq Workers /\ moved \subseteq Workers
  /\ value \in [Properties -> 0..ValueMax]
  /\ \A w \in Workers :
       /\ request[w].what \in Whats /\ idx[w] \in Nat /\ text[w] \in Nat /\ room[w] \in Nat
       /\ tries[w] \in 0..RetriesMax
       /\ at[w] \in Passes => idx[w] <= 2 * Len(Walks(w))
       /\ at[w] \in {"size", "fill"} => idx[w] <= Len(Shown(w))
       /\ at[w] \in {"data", "action"} => idx[w] <= Len(Body(w))
       /\ posted[w] \in {"no", "OK", "error"} /\ status[w] \in {"none", "200", "400", "500"}

(* However the values change between measuring and rendering, a response   *)
(* of webapi_generate_simple_response() is the whole text with its NUL, or *)
(* none.  A description is whole unless the list changed during it, and no *)
(* one finds a resource gone that it has counted unless two workers both   *)
(* initialised the API; the tokens of an empty object are the other end.   *)
ResponseIsWhole ==
  \A w \in Workers :
    /\ status[w] = "200" => text[w] < room[w] \/ (What(w) \in Descriptions /\ w \in moved)
    /\ at[w] = "crashed" => NoItems(w) \/ \E u, v \in inits : u # v

(* The comment in webapi_post_bulk_json(): "data properties are always     *)
(* committed to the registry before any ACTION callback fires, regardless  *)
(* of the key order in the incoming JSON body."  What a post has applied   *)
(* is a beginning of that order, the data properties as the body has them *)
(* and then its actions, each key once, and the whole of it when it       *)
(* reports success.  Of an object without items nothing is promised.      *)
Settable(body) == {k \in DOMAIN body : body[k].key \in Properties}
Precedes(body, i, j) ==
  IF IsAction(body[i].key) = IsAction(body[j].key) THEN i < j ELSE IsAction(body[j].key)

PostInOrder ==
  \A w \in Workers :
    LET body == Body(w)
        done == Range(applied[w])
    IN  ~NoItems(w) =>
        /\ done \subseteq Settable(body)
        /\ \A m, n \in DOMAIN applied[w] : m < n => Precedes(body, applied[w][m], applied[w][n])
        /\ \A i \in Settable(body), j \in done : Precedes(body, i, j) => i \in done
        /\ posted[w] = "OK" => done = Settable(body)

=============================================================================
