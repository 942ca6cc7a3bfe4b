------------------------------ MODULE WebSocket ------------------------------
(***************************************************************************)
(* The WebSocket client, httpclient_websock_*() of src/src/httpclient.c,   *)
(* which is built with HTTP_WEBSOCK.                                       *)
(*                                                                         *)
(* The server's frames are a stream of bytes that the network cuts         *)
(* anywhere: each read takes some of the bytes it asks for, waits in vain,  *)
(* or finds the end.  A read that does not begin at a frame's first byte   *)
(* takes any byte for a head.  One thread uses the client.                 *)
(***************************************************************************)
EXTENDS Integers, Sequences, SequencesExt

CONSTANTS
  Frames,      (* the frames that the server may send                    *)
  FramesMax,   (* bound: frames of a connection                          *)
  ClosesMax    (* bound: how often the caller begins to close one        *)

Data == 0..2   (* the opcodes of a continuation, a text, a binary frame  *)
CloseCode == 8
PingPong == {9, 10}
Opcodes == Data \cup {CloseCode, 11} \cup PingPong

(* How a frame's length is written: in its head, in 16 or in 64 bits; and   *)
(* a frame with a mask, which a server must not send.                      *)
Forms == {"short", "two", "eight", "masked"}

ASSUME FramesAssumption ==
  /\ Frames \subseteq [op : Opcodes, form : Forms, len : Nat]
  /\ FramesMax \in Nat /\ ClosesMax \in Nat

VARIABLES
  at,      (* where the client is                                        *)
  sent,    (* the frames of the server                                   *)
  ended,   (* the server has closed the connection                       *)
  pos,     (* how many of the server's bytes were read                   *)
  frame,   (* the frame being read: its opcode and what is left of it    *)
  got,     (* the payloads given to the caller: opcode, first byte, end, *)
           (* for as long as none is lost                                *)
  buffer,  (* *buffer: "null", "owned" by the caller, or "freed"         *)
  result,  (* what the last read returned                                *)
  flags,   (* client->status                                             *)
  closes,  (* close frames that were written                             *)
  broken,  (* a write failed, or wrote a head the server cannot read     *)
  lost,    (* "no", or why frames may have been lost first              *)
  stale,   (* the flags with which this connection began                 *)
  begun,   (* how often the caller has begun to close it                 *)
  opener   (* who did first: "none", "caller" or "library"               *)

streamVars == <<sent, ended>>
readVars == <<pos, frame, got>>
callVars == <<buffer, result>>
closeVars == <<flags, closes, broken>>
ghostVars == <<lost, stale, begun, opener>>
vars == <<at, streamVars, readVars, callVars, closeVars, ghostVars>>

-----------------------------------------------------------------------------
HeadSize(f) == 2 + (CASE f.form = "short" -> 0 [] f.form = "two" -> 2 [] f.form = "eight" -> 8 [] f.form = "masked" -> 4)
Total(frames) == FoldLeft(LAMBDA sum, f : sum + (HeadSize(f) + f.len), 0, frames)
StartOf(k) == Total(SubSeq(sent, 1, k - 1))

(* The frame of which the next byte is the first, if there is one. *)
Next1 == {k \in DOMAIN sent : StartOf(k) = pos}
Unread == Total(sent) - pos

NoFrame == [op |-> 0, form |-> "short", left |-> 0, first |-> 0]

(* The outcomes of httpclient_read() for n bytes: some of them, or none.   *)
Reads(n) == 1..(IF n < Unread THEN n ELSE Unread)
Nothing == {"TIMEOUT"} \cup (IF ended /\ Unread = 0 THEN {"CONNECTION"} ELSE {})

Init ==
  /\ at = "closed" /\ sent = <<>> /\ ended = FALSE
  /\ pos = 0 /\ frame = NoFrame /\ got = <<>>
  /\ buffer = "null" /\ result = "none"
  /\ flags = {} /\ closes = 0 /\ broken = FALSE
  /\ lost = "no" /\ stale = {} /\ begun = 0 /\ opener = "none"

-----------------------------------------------------------------------------
(* The server.                                                             *)

ServerSends(f) ==
  /\ at # "closed" /\ ~ended /\ Len(sent) < FramesMax
  /\ \A k \in DOMAIN sent : sent[k].op # CloseCode
  /\ sent' = Append(sent, f)
  /\ UNCHANGED <<at, ended, readVars, callVars, closeVars, ghostVars>>

ServerEnds ==
  /\ at # "closed" /\ ~ended /\ ended' = TRUE
  /\ UNCHANGED <<at, sent, readVars, callVars, closeVars, ghostVars>>

-----------------------------------------------------------------------------
(* The upgrade.                                                            *)

(* httpclient_connect() and httpclient_websock_get(). *)
WebsockGet ==
  /\ at = "closed" /\ at' = "response"
  /\ UNCHANGED <<streamVars, readVars, callVars, closeVars, ghostVars>>

(* httpclient_websock_read_response() drops what came behind the head. *)
WebsockReadResponse ==
  /\ at = "response"
  /\ at' = "idle"
  /\ \E n \in 0..Unread : pos' = pos + n /\ lost' = (IF n > 0 THEN "early" ELSE "no")
  /\ UNCHANGED <<streamVars, frame, got, callVars, closeVars, stale, begun, opener>>

(* Another status, a header that is missing, or any failure. *)
WebsockReadResponseFails ==
  /\ at = "response" /\ at' = "over"
  /\ result' \in {"HEADER", "TIMEOUT", "CONNECTION"}
  /\ UNCHANGED <<streamVars, readVars, buffer, closeVars, ghostVars>>

-----------------------------------------------------------------------------
(* httpclient_websock_read(), which a caller does not call before it has   *)
(* freed the payload it was given.                                         *)

MayRead == at = "idle" /\ result # "data"
Lost(why) == lost' = (IF lost = "no" THEN why ELSE lost)
Return(code) == at' = (IF code = "CONNECTION" THEN "over" ELSE "idle") /\ result' = code

Given(payload) == got' = (IF lost = "no" THEN Append(got, payload) ELSE got)

(* A frame's head is decoded, and then its payload is read if it has one,  *)
(* whatever the opcode is.                                                 *)
Payload(op, n) ==
  IF n = 0 THEN Return("none") /\ frame' = NoFrame /\ buffer' = "null"
  ELSE \/ /\ at' = "payload" /\ buffer' = "owned" /\ result' = "none"
          /\ frame' = [NoFrame EXCEPT !.op = op, !.left = n, !.first = IF lost = "no" THEN pos' ELSE 0]
       \/ Return("MEMORY") /\ frame' = NoFrame /\ buffer' = "null"

LostIfNoMemory == IF result' = "MEMORY" THEN Lost("memory") ELSE UNCHANGED lost

(* websock_decode() has both bytes of a head, and they are a head's.  The   *)
(* rest of a frame with a mask is left, to be read as heads.               *)
DecodeHead ==
  /\ MayRead /\ 2 \in Reads(2)
  /\ \E k \in Next1 :
       LET f == sent[k] IN
       /\ pos' = pos + 2
       /\ \/ f.form = "short" /\ Payload(f.op, f.len) /\ LostIfNoMemory
          \/ f.form = "masked" /\ Return("HEADER") /\ buffer' = "null" /\ Lost("masked") /\ UNCHANGED frame
          \/ /\ f.form \in {"two", "eight"}
             /\ at' = "length" /\ frame' = [op |-> f.op, form |-> f.form, left |-> f.len, first |-> 0]
             /\ buffer' = "null" /\ result' = "none" /\ UNCHANGED lost
  /\ UNCHANGED <<streamVars, got, closeVars, stale, begun, opener>>

(* With one byte the other is taken for 0. *)
DecodeHalf ==
  /\ MayRead /\ 1 \in Reads(2)
  /\ pos' = pos + 1 /\ Lost("cut")
  /\ Return("none") /\ buffer' = "null"
  /\ UNCHANGED <<streamVars, frame, got, closeVars, stale, begun, opener>>

(* Two bytes that are no head say anything, a mask or a length that is an  *)
(* error code as an int32_t included.                                      *)
DecodeAnything ==
  /\ MayRead /\ 2 \in Reads(2) /\ Next1 = {}
  /\ pos' = pos + 2
  /\ \/ \E op \in Opcodes, n \in 0..2 : Payload(op, n)
     \/ \E code \in {"HEADER", "CONNECTION"} : Return(code) /\ buffer' = "null" /\ UNCHANGED frame
  /\ UNCHANGED <<streamVars, got, closeVars, ghostVars>>

DecodeNothing ==
  /\ MayRead
  /\ \E code \in Nothing : Return(IF code = "TIMEOUT" THEN "none" ELSE code)
  /\ buffer' = "null"
  /\ UNCHANGED <<streamVars, readVars, closeVars, ghostVars>>

(* A length of 16 bits, or the first half of one of 64 bits, which is 0:   *)
(* the rest of that frame is then taken for other frames.                  *)
Length ==
  /\ at = "length"
  /\ \/ /\ frame.form = "two" /\ 2 \in Reads(2)
        /\ pos' = pos + 2 /\ Payload(frame.op, frame.left) /\ LostIfNoMemory
     \/ /\ frame.form = "eight" /\ 4 \in Reads(4)
        /\ pos' = pos + 4 /\ Payload(frame.op, 0) /\ Lost("long")
  /\ UNCHANGED <<streamVars, got, closeVars, stale, begun, opener>>

(* When the length does not come at once the frame goes on with another. *)
LengthCut ==
  /\ at = "length" /\ Lost("cut")
  /\ pos' \in {pos} \cup {pos + n : n \in Reads(IF frame.form = "two" THEN 1 ELSE 3)}
  /\ \E n \in 0..2 : (n = 0 => frame.form = "eight") /\ Payload(frame.op, n)
  /\ UNCHANGED <<streamVars, got, closeVars, stale, begun, opener>>

(* Mutant of ReadPayload: one read is taken for the payload. *)
ReadPayloadOnce ==
  /\ at = "payload"
  /\ \E n \in Reads(frame.left) :
       /\ pos' = pos + n /\ frame' = NoFrame
       /\ Return("data") /\ Given(<<frame.op, frame.first, pos'>>)
  /\ UNCHANGED <<streamVars, buffer, closeVars, ghostVars>>

(* The payload is read piece by piece; what is done with it is up to the   *)
(* opcode.                                                                 *)
ReadPayload ==
  /\ at = "payload"
  /\ \E n \in Reads(frame.left) :
       /\ pos' = pos + n
       /\ \/ n < frame.left
             /\ frame' = [frame EXCEPT !.left = @ - n] /\ UNCHANGED <<at, callVars, flags, got>>
          \/ /\ n = frame.left /\ frame' = NoFrame
             /\ \/ frame.op \in Data
                   /\ Return("data") /\ Given(<<frame.op, frame.first, pos'>>)
                   /\ UNCHANGED <<buffer, flags>>
                \/ frame.op \in PingPong
                   /\ Return("none") /\ buffer' = "freed" /\ UNCHANGED <<got, flags>>
                \/ frame.op = CloseCode
                   /\ at' = "reply" /\ flags' = flags \cup {"server"} /\ UNCHANGED <<callVars, got>>
                \/ frame.op \notin Data \cup PingPong \cup {CloseCode}
                   /\ Return("HEADER") /\ buffer' = "freed" /\ UNCHANGED <<got, flags>>
  /\ UNCHANGED <<streamVars, closes, broken, ghostVars>>

(* Mutant of PayloadCut: the caller has the buffer that was freed. *)
PayloadCutDangling ==
  /\ at = "payload" /\ Lost("cut")
  /\ \E code \in Nothing : Return(IF code = "CONNECTION" THEN code ELSE "data")
  /\ buffer' = "freed" /\ frame' = NoFrame
  /\ UNCHANGED <<streamVars, pos, got, closeVars, stale, begun, opener>>

PayloadCut ==
  /\ at = "payload" /\ Lost("cut")
  /\ \E code \in Nothing : Return(code)
  /\ buffer' = "null" /\ frame' = NoFrame
  /\ UNCHANGED <<streamVars, pos, got, closeVars, stale, begun, opener>>

-----------------------------------------------------------------------------
(* websock_write().                                                        *)

(* Mutant of WriteClose: it is not remembered. *)
WriteCloseForgotten ==
  /\ UNCHANGED flags
  /\ \/ closes' = closes + 1 /\ UNCHANGED broken
     \/ broken' = TRUE /\ UNCHANGED closes

(* httpclient_websock_initiate_close(): it counts as done when it fails.   *)
WriteClose ==
  /\ flags' = flags \cup {"client"}
  /\ \/ closes' = closes + 1 /\ UNCHANGED broken
     \/ broken' = TRUE /\ UNCHANGED closes

Opens(who) == opener' = IF opener = "none" THEN who ELSE opener

(* The server's close frame is answered, unless it is an answer. *)
Reply ==
  /\ at = "reply"
  /\ Return("CONNECTION") /\ buffer' = "freed"
  /\ \/ "client" \in flags /\ UNCHANGED <<closeVars, opener>>
     \/ "client" \notin flags /\ WriteClose /\ Opens("library")
  /\ UNCHANGED <<streamVars, readVars, lost, stale, begun>>

(* The caller begins to close: nothing keeps it from doing so once more, or  *)
(* when the server has been answered.                                      *)
WebsockInitiateClose ==
  /\ at \in {"idle", "over"} /\ begun < ClosesMax
  /\ WriteClose /\ Opens("caller")
  /\ begun' = begun + 1
  /\ UNCHANGED <<at, streamVars, readVars, callVars, lost, stale>>

(* Texts, binary frames and pings.  A length of 65535 bytes or more is     *)
(* written in 4 bytes, with the bytes swapped of the lower 16 bits only.   *)
WebsockWrite ==
  /\ at \in {"idle", "over"}
  /\ broken' \in {broken, TRUE}
  /\ UNCHANGED <<at, streamVars, readVars, callVars, flags, closes, ghostVars>>

(* The caller frees a payload that it was given before it reads again. *)
WebsockFree ==
  /\ at = "idle" /\ result = "data"
  /\ buffer' = "null" /\ result' = "none"
  /\ UNCHANGED <<at, streamVars, readVars, closeVars, ghostVars>>

(* httpclient_close().  client->status is only cleared by httpclient_init(), *)
(* which a client that connects again has no need to call.                 *)
Close ==
  /\ at \in {"idle", "over"} /\ result # "data"
  /\ at' = "closed"
  /\ sent' = <<>> /\ ended' = FALSE
  /\ pos' = 0 /\ frame' = NoFrame /\ got' = <<>>
  /\ buffer' = "null" /\ result' = "none"
  /\ closes' = 0 /\ broken' = FALSE /\ lost' = "no" /\ begun' = 0 /\ opener' = "none"
  /\ flags' \in {flags, {}} /\ stale' = flags'

-----------------------------------------------------------------------------
Next ==
  \/ \E f \in Frames : ServerSends(f)
  \/ ServerEnds \/ WebsockGet \/ WebsockReadResponse \/ WebsockReadResponseFails
  \/ DecodeHead \/ DecodeHalf \/ DecodeAnything \/ DecodeNothing
  \/ Length \/ LengthCut \/ ReadPayload \/ PayloadCut
  \/ Reply \/ WebsockInitiateClose \/ WebsockWrite \/ WebsockFree \/ Close

Spec == Init /\ [][Next]_vars

-----------------------------------------------------------------------------
(* Properties.                                                             *)

EndOf(k) == StartOf(k + 1)
Whole == {k \in DOMAIN sent : EndOf(k) <= pos}
WholeData == {k \in Whole : sent[k].op \in Data /\ sent[k].len > 0}
PayloadOf(k) == <<sent[k].op, StartOf(k) + HeadSize(sent[k]), EndOf(k)>>

(* Every variable keeps its type, and the caller has a payload exactly when  *)
(* a read has said so: it neither leaks one nor frees one twice.           *)
TypeOK ==
  /\ at \in {"closed", "response", "idle", "length", "payload", "reply", "over"}
  /\ sent \in Seq(Frames) /\ ended \in BOOLEAN /\ pos \in 0..Total(sent)
  /\ frame \in [op : Opcodes, form : Forms, left : Nat, first : Nat]
  /\ got \in Seq(Data \X Nat \X Nat)
  /\ result \in {"none", "data", "TIMEOUT", "CONNECTION", "HEADER", "MEMORY"}
  /\ buffer = "owned" <=> at \in {"payload", "reply"} \/ result = "data"
  /\ buffer \in {"null", "owned", "freed"}
  /\ flags \subseteq {"server", "client"} /\ stale \subseteq flags /\ closes \in Nat
  /\ broken \in BOOLEAN /\ lost \in {"no", "early", "cut", "long", "masked", "memory"}
  /\ begun \in 0..ClosesMax /\ opener \in {"none", "caller", "library"}

(* The caller is given the payloads of the server's data frames, each once  *)
(* and whole, in their order, however the network cuts them, as long as    *)
(* nothing of a frame timed out, came with the head of the response, had a  *)
(* length of 64 bits or a mask, or found no memory: the code loses the     *)
(* beginning of the next frame then.                                       *)
FramesInOrder ==
  lost = "no" =>
    /\ Range(got) = {PayloadOf(k) : k \in WholeData}
    /\ \A m, n \in DOMAIN got : m < n => got[m][3] <= got[n][2]

(* The library adds at most one close frame to those that the caller sends,  *)
(* and none when the caller was the first to close; and the server's is    *)
(* always answered, unless a write fails or the flags of a connection      *)
(* before are still set.  (A close frame without a code is not seen at     *)
(* all.)                                                                   *)
CloseAnswered ==
  /\ closes <= begun + (IF opener = "library" THEN 1 ELSE 0)
  /\ (\E k \in Whole : sent[k].op = CloseCode /\ sent[k].len > 0)
        /\ lost = "no" /\ stale = {} /\ at # "reply"
     => "server" \in flags /\ (closes > 0 \/ broken)

=============================================================================
