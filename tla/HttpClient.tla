----------------------------- MODULE HttpClient -----------------------------
(***************************************************************************)
(* The response reader of the HTTP client, src/src/httpclient.c: what      *)
(* httpclient_read_response_ex(), httpclient_read_next_ex(),               *)
(* httpclient_read_complete_ex() and httpclient_read_response() make of    *)
(* the bytes of one reply, which arrive in pieces of any size.             *)
(*                                                                         *)
(* HttpReply says what the bytes are.  read_buffer holds, for each of its  *)
(* bytes, the place in the reply that it came from, so that parts, what    *)
(* the caller was given, says which bytes those were.                      *)
(***************************************************************************)
EXTENDS HttpReply

CONSTANTS
  ResponseInitial,  (* HTTP_CLIENT_RESPONSE_INITIAL_LENGTH            *)
  ResponseMax,      (* HTTP_CLIENT_MAX_RESPONSE_LENGTH                *)
  Replies,          (* the replies a server may give                  *)
  Retries           (* those it may give after a reconnect            *)

ASSUME ResponseAssumption == ResponseInitial \in Nat \ {0} /\ ResponseMax \in Nat \ {0}
(* ending is what follows the bytes: nothing, a clean close, a broken one,   *)
(* or urgent data, whatever comes behind that.                             *)
ASSUME RepliesAssumption ==
  \A r \in Replies \cup Retries :
    /\ r.wire \in Seq(Bytes)
    /\ r.framing \in Framings
    /\ r.length \in 0..SizeMax
    /\ r.ending \in {"open", "close", "reset", "urgent"}

VARIABLES
  reply,    (* the reply of the server on this connection                 *)
  sent,     (* how many of its bytes have arrived                         *)
  ended,    (* its ending has arrived too                                 *)
  got,      (* how many bytes were taken from the socket                  *)
  buf,      (* client->read_buffer: which byte of the reply is in a place,
               <<>> when there is no buffer                               *)
  start,    (* client->read_start                                         *)
  end,      (* client->read_end                                           *)
  limit,    (* of httpclient_read_head(): the bytes left to the heads     *)
  scanned,  (* of httpclient_read_head()                                  *)
  state,    (* client->body_state                                         *)
  left,     (* client->body_left                                          *)
  error,    (* client->body_error                                         *)
  whole,    (* the caller is httpclient_read_response()                   *)
  size,     (* its allocation for the body, without the NUL               *)
  call,     (* the call the client is in, "idle" between calls            *)
  result,   (* what the last call returned                                *)
  parts     (* the bytes the caller was given, as places in the reply     *)

netVars == <<reply, sent, ended>>
bufVars == <<got, buf, start, end>>
headVars == <<limit, scanned>>
bodyVars == <<state, left, error>>
callVars == <<whole, size, call, result, parts>>
vars == <<netVars, bufVars, headVars, bodyVars, callVars>>

-----------------------------------------------------------------------------
Slots == 0..BufMax-1
NoBuffer == <<>>
NewBuffer == [i \in Slots |-> 0]      \* what malloc() gives: bytes of nothing
Byte(i) == IF buf[i] = 0 THEN "unset" ELSE reply.wire[buf[i]]
Unused == {i \in Slots : start <= i /\ i < end}
LineFeeds == {i \in Unused : Byte(i) = "LF"}

States == {"NONE", "LENGTH", "CLOSE", "CHUNK_SIZE", "CHUNK_DATA", "CHUNK_END",
           "TRAILER", "DONE", "ERROR"}
Calls == {"idle", "head", "alloc", "next", "complete"}
Errors == {"TIMEOUT", "CONNECTION", "HEADER", "CONTENT", "LENGTH", "MEMORY", "ERROR"}
Results == Errors \cup {"none", "ok", "part", "end", "body", "PARM"}

(* Mutant of ChunkSize: no limit to the size. *)
ChunkSizeUnbounded(line) ==
  LET other == SelectInSeq(line, LAMBDA b : b \notin DOMAIN Digit)
      digits == IF other = 0 THEN line ELSE SubSeq(line, 1, other - 1)
  IN  IF digits = <<>> \/ (other # 0 /\ line[other] # ";")
      THEN [error |-> "CONTENT"]
      ELSE [error |-> "none", size |-> FoldLeft(LAMBDA sum, b : 16 * sum + Digit[b], 0, digits)]

(* httpclient_parse_chunk_size(): hex digits, then nothing or an extension. *)
ChunkSize(line) ==
  LET other == SelectInSeq(line, LAMBDA b : b \notin DOMAIN Digit)
      digits == IF other = 0 THEN line ELSE SubSeq(line, 1, other - 1)
      n == FoldLeft(LAMBDA sum, b : 16 * sum + Digit[b], 0, digits)
  IN  CASE digits = <<>> -> [error |-> "CONTENT"]
        [] digits # <<>> /\ n > SizeMax -> [error |-> "LENGTH"]
        [] digits # <<>> /\ n <= SizeMax /\ other # 0 /\ line[other] # ";" -> [error |-> "CONTENT"]
        [] OTHER -> [error |-> "none", size |-> n]

(* What the framing sets body_state and body_left to. *)
Framed ==
  CASE reply.framing = "chunked" -> [state |-> "CHUNK_SIZE", left |-> 0]
    [] reply.framing = "close" -> [state |-> "CLOSE", left |-> 0]
    [] reply.framing = "length" /\ reply.length > 0 -> [state |-> "LENGTH", left |-> reply.length]
    [] OTHER -> [state |-> "DONE", left |-> 0]

Init ==
  /\ reply \in Replies /\ sent = 0 /\ ended = FALSE
  /\ got = 0 /\ buf = NoBuffer /\ start = 0 /\ end = 0
  /\ limit = 0 /\ scanned = 0
  /\ state = "NONE" /\ left = 0 /\ error = "none"
  /\ whole = FALSE /\ size = 0 /\ call = "idle" /\ result = "none" /\ parts = <<>>

-----------------------------------------------------------------------------
(* The network.                                                            *)

Arrive ==
  /\ sent' \in sent+1..Len(reply.wire)
  /\ UNCHANGED <<reply, ended, bufVars, headVars, bodyVars, callVars>>

ArriveEnding ==
  /\ sent = Len(reply.wire) /\ ~ended /\ reply.ending # "open"
  /\ ended' = TRUE
  /\ UNCHANGED <<reply, sent, bufVars, headVars, bodyVars, callVars>>

-----------------------------------------------------------------------------
(* httpclient_read_more().                                                 *)

(* The unused bytes are moved to the start when they reach the end. *)
Compacted ==
  CASE start = end -> [buf |-> buf, start |-> 0, end |-> 0]
    [] start # end /\ end = BufMax ->
         [buf |-> [i \in Slots |-> IF i < end - start THEN buf[start + i] ELSE buf[i]],
          start |-> 0, end |-> end - start]
    [] OTHER -> [buf |-> buf, start |-> start, end |-> end]

Full == start = 0 /\ end = BufMax

(* What has arrived, but no more than fits and no more than most. *)
Receive(most) ==
  LET b == Compacted
      n == Lesser(sent - got, Lesser(most, BufMax - b.end))
  IN  /\ ~Full
      /\ sent > got
      /\ buf' = [i \in Slots |-> IF b.end <= i /\ i < b.end + n THEN got + 1 + i - b.end ELSE b.buf[i]]
      /\ start' = b.start
      /\ end' = b.end + n
      /\ got' = got + n

(* What the peer brings about, and what select() or mbedTLS may do any time. *)
Outcomes == {"LENGTH", "TIMEOUT", "closed", "CONNECTION"}
Failures == {"ERROR", "MEMORY"}

(* Nothing, and why: "closed" is a clean end of the stream.  A broken       *)
(* connection may take bytes that have arrived with it.  Where nothing is   *)
(* there to be read, select() reports urgent data as an exception.         *)
Nothing(why) ==
  \/ why = "LENGTH" /\ Full
  \/ why = "TIMEOUT" /\ ~Full /\ sent = got /\ ~ended
  \/ why = "closed" /\ ~Full /\ sent = got /\ ended /\ reply.ending = "close"
  \/ why = "CONNECTION" /\ ~Full /\ ended /\ reply.ending = "reset"
  \/ why = "CONNECTION" /\ ~Full /\ sent = got /\ ended /\ reply.ending = "urgent"
  \/ why \in Failures /\ ~Full

Compact ==
  /\ buf' = Compacted.buf
  /\ start' = Compacted.start
  /\ end' = Compacted.end
  /\ UNCHANGED got

(* A call returns r; httpclient_read_response() then completes. *)
Return(r) ==
  /\ result' = r
  /\ call' = IF whole THEN "complete" ELSE "idle"

(* Mutant of Fail: the error is returned but not kept. *)
FailForgotten(r) ==
  /\ UNCHANGED <<state, error>>
  /\ Return(r)

Fail(r) ==
  /\ state' = "ERROR"
  /\ error' = r
  /\ Return(r)

-----------------------------------------------------------------------------
(* httpclient_read_response_ex(), also as httpclient_read_response() calls *)
(* it: reads heads up to the first one that is not interim.                *)

(* The read buffer is freed, and the body is lost before it began. *)
HeadFails(r) ==
  /\ buf' = NoBuffer
  /\ state' = "ERROR" /\ error' = r
  /\ call' = "idle" /\ result' = r
  /\ limit' = 0 /\ scanned' = 0
  /\ UNCHANGED <<netVars, got, whole, size, parts>>

ReadResponse ==
  /\ call = "idle" /\ buf = NoBuffer /\ result = "none"
  /\ buf' = NewBuffer
  /\ call' = "head"
  /\ start' = 0 /\ end' = 0
  /\ limit' = HeadMax /\ scanned' = 0
  /\ whole' \in BOOLEAN
  /\ UNCHANGED <<netVars, got, bodyVars, size, result, parts>>

ReadResponseNoMemory ==
  /\ call = "idle" /\ buf = NoBuffer /\ result = "none"
  /\ HeadFails("MEMORY")
  /\ UNCHANGED <<start, end, left>>

(* The last response was not completed. *)
ReadResponseTooEarly ==
  /\ call = "idle" /\ buf # NoBuffer
  /\ result' = "PARM"
  /\ UNCHANGED <<netVars, bufVars, headVars, bodyVars, whole, size, call, parts>>

(* httpclient_find_head_end(): what ends the head, or is not allowed in it. *)
HeadMarks ==
  {i \in Slots : /\ scanned <= i /\ i < Lesser(end, limit)
                 /\ Byte(i) \in {"bad", "interim", "final"}}
HeadMark(b) == HeadMarks # {} /\ Byte(Min(HeadMarks)) = b

HeadBad ==
  /\ call = "head" /\ HeadMark("bad")
  /\ HeadFails("HEADER")
  /\ start' = 0 /\ end' = 0 /\ UNCHANGED left

(* An interim head is dropped; what follows it moves to the start. *)
HeadInterim ==
  /\ call = "head" /\ HeadMark("interim")
  /\ LET length == Min(HeadMarks) + 1
     IN  /\ buf' = [i \in Slots |-> IF i + length < end THEN buf[i + length] ELSE buf[i]]
         /\ end' = end - length
         /\ limit' = limit - length
  /\ scanned' = 0
  /\ UNCHANGED <<netVars, got, start, bodyVars, callVars>>

HeadTooLong ==
  /\ call = "head" /\ HeadMarks = {} /\ end >= limit
  /\ HeadFails("LENGTH")
  /\ start' = 0 /\ end' = 0 /\ UNCHANGED left

HeadMore ==
  /\ call = "head" /\ HeadMarks = {} /\ end < limit
  /\ Receive(BufMax)
  /\ scanned' = end
  /\ UNCHANGED <<netVars, limit, bodyVars, callVars>>

HeadCut(why) ==
  /\ call = "head" /\ HeadMarks = {} /\ end < limit
  /\ Nothing(why)
  /\ HeadFails(IF why = "closed" THEN "CONNECTION" ELSE why)
  /\ start' = 0 /\ end' = 0 /\ UNCHANGED left

(* The head is complete: httpclient_body_framing() decides what follows.   *)
HeadFinal ==
  /\ call = "head" /\ HeadMark("final") /\ reply.framing \notin Errors
  /\ start' = Min(HeadMarks) + 1
  /\ state' = Framed.state
  /\ left' = Framed.left
  /\ call' = IF whole THEN "alloc" ELSE "idle"
  /\ result' = "ok"
  /\ limit' = 0 /\ scanned' = 0
  /\ UNCHANGED <<netVars, got, buf, end, error, whole, size, parts>>

(* A bad status line or field, or a framing that is not supported.         *)
HeadRefused ==
  /\ call = "head" /\ HeadMark("final") /\ reply.framing \in Errors
  /\ HeadFails(reply.framing)
  /\ \/ reply.framing = "HEADER" /\ start' = 0 /\ end' = 0 /\ UNCHANGED left
     \/ reply.framing # "HEADER" /\ start' = Min(HeadMarks) + 1 /\ left' = 0 /\ UNCHANGED end

-----------------------------------------------------------------------------
(* httpclient_read_next_ex(): one turn of its loop.                        *)

ReadNext ==
  /\ call = "idle" /\ ~whole /\ result # "none"
  /\ call' = "next"
  /\ UNCHANGED <<netVars, bufVars, headVars, bodyVars, whole, size, result, parts>>

NextOver ==
  /\ call = "next" /\ state \in {"DONE", "ERROR", "NONE"}
  /\ Return(CASE state = "DONE" -> "end" [] state = "ERROR" -> error [] state = "NONE" -> "PARM")
  /\ UNCHANGED <<netVars, bufVars, headVars, bodyVars, whole, size, parts>>

(* Mutant of NeedsMore: one byte too many after a chunk. *)
NeedsMoreByOne ==
  CASE state \in {"LENGTH", "CLOSE", "CHUNK_DATA"} -> start = end
    [] state \in {"CHUNK_SIZE", "TRAILER"} -> LineFeeds = {}
    [] state = "CHUNK_END" -> end - start <= 2
    [] OTHER -> FALSE

(* Whether the state wants more than there is, and how much at most: no     *)
(* more than the body has left, where that is known.                       *)
NeedsMore ==
  CASE state \in {"LENGTH", "CLOSE", "CHUNK_DATA"} -> start = end
    [] state \in {"CHUNK_SIZE", "TRAILER"} -> LineFeeds = {}
    [] state = "CHUNK_END" -> end - start < 2
    [] OTHER -> FALSE
Most == IF state = "LENGTH" THEN left ELSE BufMax

NextMore ==
  /\ call = "next" /\ NeedsMore
  /\ Receive(Most)
  /\ UNCHANGED <<netVars, headVars, bodyVars, callVars>>

(* Mutant of NextCut: every body ends with a clean close. *)
NextCutIsEnd(why) ==
  /\ call = "next" /\ NeedsMore
  /\ Nothing(why)
  /\ Compact
  /\ CASE why = "closed" -> state' = "DONE" /\ UNCHANGED <<error, result, call>>
       [] why = "TIMEOUT" -> Return(why) /\ UNCHANGED <<state, error>>
       [] OTHER -> Fail(why)
  /\ UNCHANGED <<netVars, headVars, left, whole, size, parts>>

(* Mutant of NextCut: no body ends with a clean close, which is read again. *)
NextCutReadsOn(why) ==
  /\ call = "next" /\ NeedsMore
  /\ Nothing(why)
  /\ Compact
  /\ CASE why = "closed" -> UNCHANGED <<state, error, result, call>>
       [] why = "TIMEOUT" -> Return(why) /\ UNCHANGED <<state, error>>
       [] OTHER -> Fail(why)
  /\ UNCHANGED <<netVars, headVars, left, whole, size, parts>>

(* Only a body that ends with the connection ends with a clean close, and   *)
(* only a timeout leaves the reader where it was.                          *)
NextCut(why) ==
  /\ call = "next" /\ NeedsMore
  /\ Nothing(why)
  /\ Compact
  /\ CASE why = "closed" /\ state = "CLOSE" -> state' = "DONE" /\ UNCHANGED <<error, result, call>>
       [] why = "closed" /\ state # "CLOSE" -> Fail("CONNECTION")
       [] why = "TIMEOUT" -> Return(why) /\ UNCHANGED <<state, error>>
       [] OTHER -> Fail(why)
  /\ UNCHANGED <<netVars, headVars, left, whole, size, parts>>

(* Mutant of Grown: doubled, whatever the part needs. *)
GrownTwice(n) ==
  IF n <= size - Len(parts) THEN size ELSE Lesser(ResponseMax, 2 * size)

(* The body bytes at hand are the caller's.  httpclient_read_response()    *)
(* adds them to the response, which grows up to its limit, and goes on.    *)
Grown(n) ==
  IF n <= size - Len(parts) THEN size
  ELSE Lesser(ResponseMax, Greater(2 * size, Len(parts) + n))

Give(n) == parts' = parts \o [k \in 1..n |-> buf[start + k - 1]]

Taken(n) ==
  \/ /\ ~whole
     /\ Give(n)
     /\ Return("part")
     /\ UNCHANGED size
  \/ /\ whole /\ n <= ResponseMax - Len(parts)
     /\ Give(n)
     /\ size' = Grown(n)
     /\ UNCHANGED <<result, call>>
  \/ /\ whole /\ n <= ResponseMax - Len(parts) /\ n > size - Len(parts)
     /\ Return("MEMORY")
     /\ UNCHANGED <<parts, size>>
  \/ /\ whole /\ n > ResponseMax - Len(parts)
     /\ Return("LENGTH")
     /\ UNCHANGED <<parts, size>>

NextPart ==
  /\ call = "next" /\ state \in {"LENGTH", "CLOSE", "CHUNK_DATA"} /\ ~NeedsMore
  /\ LET n == IF state = "CLOSE" THEN end - start ELSE Lesser(end - start, left)
     IN  /\ start' = start + n
         /\ left' = IF state = "CLOSE" THEN left ELSE left - n
         /\ Taken(n)
  /\ state' = CASE state = "CLOSE" \/ left' > 0 -> state
                [] state = "LENGTH" /\ left' = 0 -> "DONE"
                [] state = "CHUNK_DATA" /\ left' = 0 -> "CHUNK_END"
  /\ UNCHANGED <<netVars, got, buf, end, headVars, error, whole>>

(* httpclient_read_line(). *)
Line == Stripped([k \in 1..Min(LineFeeds) - start |-> Byte(start + k - 1)])

NextSize ==
  /\ call = "next" /\ state = "CHUNK_SIZE" /\ ~NeedsMore
  /\ start' = Min(LineFeeds) + 1
  /\ LET chunk == ChunkSize(Line)
     IN  IF chunk.error = "none"
         THEN /\ left' = chunk.size
              /\ state' = IF chunk.size > 0 THEN "CHUNK_DATA" ELSE "TRAILER"
              /\ UNCHANGED <<error, result, call>>
         ELSE Fail(chunk.error) /\ UNCHANGED left
  /\ UNCHANGED <<netVars, got, buf, end, headVars, whole, size, parts>>

(* Mutant of NextChunkEnd: what ends a chunk is skipped unseen. *)
NextChunkEndUnseen ==
  /\ call = "next" /\ state = "CHUNK_END" /\ ~NeedsMore
  /\ start' = start + 2 /\ state' = "CHUNK_SIZE"
  /\ UNCHANGED <<netVars, got, buf, end, headVars, left, error, callVars>>

NextChunkEnd ==
  /\ call = "next" /\ state = "CHUNK_END" /\ ~NeedsMore
  /\ IF Byte(start) = "CR" /\ Byte(start + 1) = "LF"
     THEN start' = start + 2 /\ state' = "CHUNK_SIZE" /\ UNCHANGED <<error, result, call>>
     ELSE Fail("CONTENT") /\ UNCHANGED start
  /\ UNCHANGED <<netVars, got, buf, end, headVars, left, whole, size, parts>>

NextTrailer ==
  /\ call = "next" /\ state = "TRAILER" /\ ~NeedsMore
  /\ start' = Min(LineFeeds) + 1
  /\ state' = IF Line = <<>> THEN "DONE" ELSE "TRAILER"
  /\ UNCHANGED <<netVars, got, buf, end, headVars, left, error, callVars>>

-----------------------------------------------------------------------------
(* The rest of httpclient_read_response(), and the end of a response.      *)

(* The first allocation: the announced length, or a guess. *)
Alloc ==
  /\ call = "alloc"
  /\ LET announced == reply.framing \in {"length", "none"}
         n == IF announced THEN left ELSE Lesser(ResponseInitial, ResponseMax)
     IN  \/ n > ResponseMax /\ Return("LENGTH") /\ UNCHANGED size
         \/ n <= ResponseMax /\ Return("MEMORY") /\ UNCHANGED size
         \/ n <= ResponseMax /\ size' = n /\ call' = "next" /\ UNCHANGED result
  /\ UNCHANGED <<netVars, bufVars, headVars, bodyVars, whole, parts>>

(* httpclient_read_complete_ex(), by httpclient_read_response() or the     *)
(* caller, who need not have read the body to its end.                     *)
Complete ==
  /\ call = "complete" \/ (call = "idle" /\ ~whole /\ state # "NONE")
  /\ buf' = NoBuffer /\ start' = 0 /\ end' = 0
  /\ state' = "NONE"
  /\ call' = "idle"
  /\ result' = IF call = "complete" /\ result = "end" THEN "body" ELSE result
  /\ UNCHANGED <<netVars, got, headVars, left, error, whole, size, parts>>

(* httpclient_close(), then httpclient_connect() to another server.        *)
Reconnect ==
  /\ call = "idle" /\ result # "none"
  /\ \E r \in Retries :
       /\ reply' = r /\ sent' = 0 /\ ended' = FALSE
  /\ got' = 0 /\ buf' = NoBuffer /\ start' = 0 /\ end' = 0
  /\ state' = "NONE"
  /\ whole' = FALSE /\ size' = 0 /\ call' = "idle" /\ result' = "none" /\ parts' = <<>>
  /\ UNCHANGED <<headVars, left, error>>

-----------------------------------------------------------------------------
Network == Arrive \/ ArriveEnding

Caller ==
  \/ ReadResponse \/ ReadResponseNoMemory \/ ReadResponseTooEarly
  \/ ReadNext
  \/ Reconnect

(* What the client does within a call, and what may break it there. *)
Client ==
  \/ HeadBad \/ HeadInterim \/ HeadTooLong \/ HeadMore \/ HeadFinal \/ HeadRefused
  \/ NextOver \/ NextMore \/ NextPart \/ NextSize \/ NextChunkEnd \/ NextTrailer
  \/ Alloc
  \/ \E why \in Outcomes : HeadCut(why) \/ NextCut(why)

Breaks == \E why \in Failures : HeadCut(why) \/ NextCut(why)

Next == Network \/ Caller \/ Client \/ Breaks \/ Complete

Spec == Init /\ [][Next]_vars

(* A call goes on by itself, every wait in it has a timeout.  Nothing is    *)
(* asked of the network, of the caller or of what may break.               *)
Fairness == WF_vars(Client) /\ WF_vars(call = "complete" /\ Complete)

LiveSpec == Spec /\ Fairness

-----------------------------------------------------------------------------
(* Properties.                                                             *)

(* What the whole reply says, and what has arrived of it so far.           *)
Whole == Meaning(reply.wire, reply.framing, reply.length, reply.ending = "close")
SoFar == Meaning(SubSeq(reply.wire, 1, sent), reply.framing, reply.length,
                 ended /\ reply.ending = "close")

(* Every variable keeps its type; read_start and read_end stay in order and *)
(* within read_buffer, and no length of a chunk exceeds what the code's     *)
(* signed results can hold.                                                *)
TypeOK ==
  /\ reply \in Replies \cup Retries /\ sent \in 0..Len(reply.wire) /\ ended \in BOOLEAN
  /\ got \in 0..sent
  /\ buf = NoBuffer \/ buf \in [Slots -> 0..Len(reply.wire)]
  /\ end \in 0..BufMax /\ start \in 0..BufMax
  /\ buf # NoBuffer => start <= end
  /\ limit \in 0..HeadMax /\ scanned \in 0..BufMax
  /\ state \in States /\ left \in 0..SizeMax /\ error \in Errors \cup {"none"}
  /\ whole \in BOOLEAN /\ size \in 0..ResponseMax
  /\ call \in Calls /\ result \in Results
  /\ parts \in Seq(1..Len(reply.wire))

(* However the bytes arrive, with timeouts anywhere between them, what the  *)
(* caller was given is the body up to some place: no byte of the framing,   *)
(* none twice, none left out, none that the buffer's compaction has mixed.  *)
PartsAreBody == IsPrefix(parts, Whole.body)

(* The body ends for the caller exactly where it does in the reply; it is   *)
(* called malformed, or too long, only when it is, and a broken connection  *)
(* is reported only when the connection broke before the body was whole,    *)
(* was reset, or brought urgent data.  A body that was cut is never taken   *)
(* for a whole one.                                                        *)
EndIsReplys ==
  /\ state = "DONE" /\ result \notin {"LENGTH", "MEMORY"} =>
       Whole.verdict = "end" /\ parts = Whole.body
  /\ state = "ERROR" /\ error \in {"HEADER", "CONTENT", "LENGTH"} => Whole.verdict = error
  /\ state = "ERROR" /\ error = "CONNECTION" =>
       ended /\ (reply.ending \in {"reset", "urgent"} \/ Whole.verdict = "cut")

(* httpclient_read_response() copies the body into an allocation that grows *)
(* with it: what was copied always fits it, and a body that it returns is   *)
(* the whole one.                                                          *)
ResponseFits ==
  /\ whole => Len(parts) <= size
  /\ result = "body" => Whole.verdict = "end" /\ parts = Whole.body

(* A reader that is done does not go on.  The documentation of             *)
(* httpclient_read_next_ex(): "After the end of the body every call        *)
(* returns 0, and after an error every call returns that error again,      *)
(* except after a timeout": no such call moves the reader or gives a part. *)
(* And its comment: "Not past a Content-Length body: on a kept-alive       *)
(* connection the next bytes belong to the next response."                 *)
EndIsFinal ==
  [][/\ call = "next" /\ result \in {"end"} \cup (Errors \ {"TIMEOUT"}) /\ state # "NONE" /\ ~whole
       => result' = result /\ parts' = parts /\ got' = got
     /\ state = "LENGTH" /\ got' > got => got' <= Last(Whole.body)]_vars

(* A call gives up waiting only while what has arrived leaves open what the *)
(* reply is: the reader never asks the network for a byte more than the     *)
(* reply needs.                                                            *)
WaitsOnlyWhenCut ==
  [][call' # call /\ call \in {"head", "next"} /\ result' = "TIMEOUT" /\ state # "ERROR"
     => SoFar.verdict = "cut"]_vars

(* Every call returns, whatever the server has sent or left out, once it    *)
(* sends no more: the loops of httpclient_read_head(),                     *)
(* httpclient_read_line() and httpclient_read_next_ex() end.  A call that  *)
(* is given one line of a trailer after the other does not return.         *)
CallReturns == (call # "idle") ~> (call = "idle")

=============================================================================
