---------------------------- MODULE HttpRequest -----------------------------
(***************************************************************************)
(* Requests and their bodies on one connection of the server:              *)
(* httpserver_read_request_ex(), httpserver_read_content_ex(),             *)
(* httpserver_read_all_content_ex() and httpserver_free_request() of       *)
(* src/src/httpserver.c, called by a worker and its handlers one request   *)
(* after the other, while the client's bytes arrive in pieces of any size. *)
(*                                                                         *)
(* A byte is one of the classes that the reader tells apart: "G" begins a  *)
(* request line, "h" goes on with a head, and the last byte of a head says *)
(* what follows it: "E0" to "E4" a body of that length, "EC" chunks, and   *)
(* "EB" and "EL" (a bad length) a head that is refused, "EO" an odd one in *)
(* which the parser does not find the end.  The buffer holds, for each of  *)
(* its bytes, the place in what the client sent that it came from.         *)
(***************************************************************************)
EXTENDS Integers, Sequences, TLC, SequencesExt

CONSTANTS
  BufMax,      (* HTTP_SERVER_MAX_XMIT_CONTENT_LENGTH, of rw_buffer      *)
  LineMax,     (* sizeof(line) in httpserver_read_chunked_content_ex()   *)
  ContentMax,  (* CFG_HTTPSERVER_CONTENT_MAX                             *)
  Long,        (* how many values an unsigned long has                   *)
  Word,        (* how many values user->reader.chunk_left has            *)
  Clients      (* what a client may send, how its connection ends, and   *)
               (* a bound: whether its requests may stray                *)

Heads == [E0 |-> 0, E1 |-> 1, E2 |-> 2, E4 |-> 4, EC |-> 0, EB |-> 0, EL |-> 0, EO |-> 0]
Digit == [b \in {"0", "1", "2"} |-> CASE b = "0" -> 0 [] b = "1" -> 1 [] b = "2" -> 2]
Blanks == {" ", "CR", "LF"}
Bytes == DOMAIN Heads \cup DOMAIN Digit \cup Blanks \cup {"G", "h", "d", ";", "+", "-", "x", "NUL"}
Endings == {"open", "close", "reset"}

ASSUME SizesAssumption == BufMax \in Nat \ {0} /\ LineMax \in Nat \ 0..2 /\ ContentMax \in Nat
ASSUME WidthsAssumption == Word \in Nat \ {0} /\ Long \in Nat /\ Word <= Long
ASSUME ClientsAssumption ==
  \A c \in Clients : c.wire \in Seq(Bytes) /\ c.ending \in Endings /\ c.tls \in BOOLEAN /\ c.strays \in BOOLEAN

VARIABLES
  client,   (* what the client sends, over TLS or not                    *)
  sent,     (* how many of its bytes have arrived                        *)
  ended,    (* the end of its connection has arrived too                 *)
  got,      (* how many bytes were taken from the socket                 *)
  gone,     (* user->peer_closed                                         *)
  buf,      (* user->rw_buffer, NoBuffer when it is not allocated        *)
  fill,     (* how many bytes the call has put at its start              *)
  pending,  (* user->pending                                             *)
  reader,   (* user->reader                                              *)
  keep,     (* user->keep_alive                                          *)
  line,     (* the line that httpserver_read_line() has so far           *)
  call,     (* where the worker is                                       *)
  all,      (* in httpserver_read_all_content_ex()                       *)
  result,   (* what the last read of the body returned                   *)
  first,    (* where the request begins that the worker has              *)
  parts,    (* the bytes of its body that the handler was given          *)
  served,   (* how many requests the worker has had on this connection   *)
  misled,   (* a line that says no size, or an odd head, was taken       *)
  strayed   (* chunks were left unread, or read on after an error, or a  *)
            (* length was forgotten                                      *)

netVars == <<client, sent, ended>>
sockVars == <<got, gone>>
bodyVars == <<reader, keep, line, all, result, parts>>
workVars == <<first, served, misled, strayed>>
vars == <<netVars, sockVars, buf, fill, pending, bodyVars, call, workVars>>

-----------------------------------------------------------------------------
(* What the client's bytes mean, read all at once (RFC 9112).              *)

Lesser(m, n) == IF m <= n THEN m ELSE n
Places(m, n) == [k \in 1..n+1-m |-> m + k - 1]

(* What is read of a body: its bytes, the place of the last one that        *)
(* belongs to it when it is whole, and else what is wrong with it.          *)
Reading(body, last, how) == [body |-> body, last |-> last, how |-> how]

(* A body of n bytes at p. *)
Announced(w, p, n) ==
  IF p + n <= Len(w) + 1 THEN Reading(Places(p, p + n - 1), p + n - 1, "whole")
  ELSE Reading(Places(p, Len(w)), 0, "cut")

(* Where the line that begins at p ends, and the size that it says: its     *)
(* digits, up to an extension.                                             *)
LineEnds(w, p) == {i \in p+1..Len(w) : w[i] = "LF" /\ w[i-1] = "CR"}
LineEnd(w, p) == Min(LineEnds(w, p))
NoLine(w, p) == LineEnds(w, p) = {} \/ LineEnd(w, p) - p >= LineMax - 1
Hex(digits) == FoldLeft(LAMBDA sum, b : 16 * sum + Digit[b], 0, digits)
SizeOf(w, p, n) ==
  LET other == {i \in p..n : w[i] \notin DOMAIN Digit}
      last == IF other = {} THEN n ELSE Min(other) - 1
  IN  IF last < p \/ (other # {} /\ w[last + 1] # ";") THEN -1 ELSE Hex(SubSeq(w, p, last))

(* What begins at place p, a chunk's size line or a line of the trailer,   *)
(* or n bytes of a chunk, given the readings of what follows.              *)
DataAt(w, read, p, n) ==
  IF p + n + 1 > Len(w) THEN Reading(Places(p, Lesser(Len(w), p + n - 1)), 0, "cut")
  ELSE IF ~(w[p + n] = "CR" /\ w[p + n + 1] = "LF") THEN Reading(Places(p, p + n - 1), 0, "bad")
  ELSE LET rest == read[p + n + 2]["size"]
       IN  Reading(Places(p, p + n - 1) \o rest.body, rest.last, rest.how)
ReadAt(w, read, p, at) ==
  LET e == LineEnd(w, p)
      size == SizeOf(w, p, e - 2)
  IN  IF NoLine(w, p) THEN Reading(<<>>, 0, IF Len(w) - p >= LineMax - 2 THEN "long" ELSE "cut")
      ELSE IF at = "trailer"
      THEN IF e = p + 1 THEN Reading(<<>>, e, "whole") ELSE read[e + 1]["trailer"]
      ELSE IF e = p + 1 THEN Reading(<<>>, 0, "empty")
      ELSE IF size = -1 THEN Reading(<<>>, 0, "bad")
      ELSE IF size >= Word THEN Reading(<<>>, 0, "wide")
      ELSE IF size = 0 THEN read[e + 1]["trailer"]
      ELSE DataAt(w, read, e + 1, size)

(* The chunks from a place on. *)
ReadOf(w) ==
  LET read[p \in 1..Len(w)+1] == [at \in {"size", "trailer"} |-> ReadAt(w, read, p, at)]
  IN  read
ChunksFrom(w, begin) == ReadOf(w)[begin]["size"]

(* The requests of w: where each begins, and its body.  The last one may   *)
(* be cut, and after a bad one nothing has a meaning.                      *)
HeadEndsAt(w, p) == {i \in p..Lesser(Len(w), p + BufMax - 1) : w[i] \in DOMAIN Heads}
HeadEndAt(w, p) == Min(HeadEndsAt(w, p))
IsRequest(w, p) == HeadEndsAt(w, p) # {} /\ w[p] = "G" /\ w[HeadEndAt(w, p)] \notin {"EB", "EL"}
BodyAt(w, p) ==
  LET e == HeadEndAt(w, p)
  IN  IF w[e] = "EC" THEN ChunksFrom(w, e + 1)
      ELSE IF w[e] = "EO" THEN Reading(<<>>, 0, "odd")
      ELSE Announced(w, e + 1, Heads[w[e]])
RequestAt(w, p) ==
  [first |-> p, body |-> BodyAt(w, p).body, last |-> BodyAt(w, p).last, how |-> BodyAt(w, p).how]
RequestsAt(w, read, p) ==
  IF ~IsRequest(w, p) THEN <<>>
  ELSE <<RequestAt(w, p)>> \o (IF BodyAt(w, p).how = "whole" THEN read[BodyAt(w, p).last + 1] ELSE <<>>)
Requests(w) ==
  LET read[p \in 1..Len(w)+1] == RequestsAt(w, read, p)
  IN  read[1]

Asked == Requests(client.wire)

-----------------------------------------------------------------------------
Slots == 0..BufMax-1
NoBuffer == <<>>
NewBuffer == [i \in Slots |-> 0]
NoReader == [chunked |-> FALSE, complete |-> FALSE, left |-> 0, length |-> 0, payload |-> 0, plen |-> 0]
Byte(place) == client.wire[place]
InBuf(m, n) == [k \in 1..n+1-m |-> buf[m + k - 1]]

Turns == {"head", "read", "size", "trailer", "data", "newline"}
Codes == {"ERROR", "CONNECTION", "HEADER", "LENGTH", "MEMORY", "TLS"}

Init ==
  /\ client \in Clients /\ sent = 0 /\ ended = FALSE
  /\ got = 0 /\ gone = FALSE
  /\ buf = NoBuffer /\ fill = 0 /\ pending = <<>>
  /\ reader = NoReader /\ keep = FALSE /\ line = <<>>
  /\ call = "idle" /\ all = FALSE /\ result = "none"
  /\ first = 0 /\ parts = <<>> /\ served = 0 /\ misled = FALSE /\ strayed = FALSE

-----------------------------------------------------------------------------
(* The network.                                                            *)

Arrive ==
  /\ sent' \in sent+1..Len(client.wire)
  /\ UNCHANGED <<client, ended, sockVars, buf, fill, pending, bodyVars, call, workVars>>

ArriveEnding ==
  /\ sent = Len(client.wire) /\ ~ended /\ client.ending # "open"
  /\ ended' = TRUE
  /\ UNCHANGED <<client, sent, sockVars, buf, fill, pending, bodyVars, call, workVars>>

(* httpserver_read(): n bytes that have arrived. *)
Receive(n) ==
  /\ ~gone /\ n > 0
  /\ got' = got + n
  /\ UNCHANGED gone
Arrived(most) == Lesser(sent - got, most)

(* Or none, and why.  A reset may take bytes that have arrived with it.    *)
Whys == {"timeout", "closed", "reset", "gone"}
Nothing(why) ==
  /\ \/ why = "timeout" /\ ~gone /\ sent = got /\ ~ended
     \/ why = "closed" /\ ~gone /\ sent = got /\ ended /\ client.ending = "close"
     \/ why = "reset" /\ ~gone /\ ended /\ client.ending = "reset"
     \/ why = "gone" /\ gone
  /\ gone' = (why # "timeout")
  /\ UNCHANGED got

(* What httpserver_read() returns then.  recv() returns -1 for a reset,    *)
(* which is the code of a timeout, and 0 for a close; mbedtls_ssl_read()   *)
(* returns one of its errors for both.                                     *)
Code(why) ==
  CASE why = "timeout" -> "ERROR"
    [] why = "gone" -> "CONNECTION"
    [] why \in {"closed", "reset"} /\ client.tls -> "TLS"
    [] why = "reset" /\ ~client.tls -> "ERROR"
    [] why = "closed" /\ ~client.tls -> "end"

-----------------------------------------------------------------------------
(* httpserver_read_request_ex(), in the loop of the worker.                *)

(* The worker ends and the connection is closed: httpserver_user_close()   *)
(* frees what the request and the connection still have.                   *)
Close ==
  /\ call' = "closed"
  /\ buf' = NoBuffer /\ fill' = 0 /\ pending' = <<>>
  /\ reader' = NoReader /\ line' = <<>> /\ all' = FALSE

ReadRequestNoMemory ==
  /\ call = "idle" /\ buf = NoBuffer
  /\ Close
  /\ UNCHANGED <<netVars, sockVars, keep, result, parts, workVars>>

(* Starts with what arrived after the previous request. *)
ReadRequest ==
  /\ call = "idle"
  /\ call' = "head"
  /\ LET b == IF buf = NoBuffer THEN NewBuffer ELSE buf
     IN  buf' = [i \in Slots |-> IF i < Len(pending) THEN pending[i + 1] ELSE b[i]]
  /\ fill' = Len(pending)
  /\ pending' = <<>>
  /\ UNCHANGED <<netVars, sockVars, bodyVars, workVars>>

HeadEnds == {i \in Slots : i < fill /\ Byte(buf[i]) \in DOMAIN Heads}

HeadTooLong ==
  /\ call = "head" /\ HeadEnds = {} /\ fill >= BufMax
  /\ Close
  /\ UNCHANGED <<netVars, sockVars, keep, result, parts, workVars>>

HeadMore ==
  /\ call = "head" /\ HeadEnds = {} /\ fill < BufMax
  /\ LET n == Arrived(BufMax - fill)
     IN  /\ Receive(n)
         /\ buf' = [i \in Slots |-> IF fill <= i /\ i < fill + n THEN got + 1 + i - fill ELSE buf[i]]
         /\ fill' = fill + n
  /\ UNCHANGED <<netVars, pending, bodyVars, call, workVars>>

(* The worker calls again after a timeout: what has come is kept for that. *)
HeadTimesOut(why) ==
  /\ call = "head" /\ HeadEnds = {} /\ fill < BufMax
  /\ Nothing(why) /\ Code(why) = "ERROR"
  /\ call' = "idle"
  /\ pending' = InBuf(0, fill - 1)
  /\ fill' = 0
  /\ UNCHANGED <<netVars, buf, bodyVars, workVars>>

(* Any other error, no memory for it, or one timeout too many. *)
HeadCut(why) ==
  /\ call = "head" /\ HeadEnds = {} /\ fill < BufMax
  /\ Nothing(why)
  /\ Code(why) = "ERROR" => fill > 0
  /\ Close
  /\ UNCHANGED <<netVars, keep, result, parts, workVars>>

GiveUp ==
  /\ call = "idle"
  /\ Close
  /\ UNCHANGED <<netVars, sockVars, keep, result, parts, workVars>>

HeadEnd == Min(HeadEnds)
Ended == Byte(buf[HeadEnd])

(* A request line or a length that is refused, or no memory for the        *)
(* endpoint or for the bytes of the next request.                          *)
HeadRefused ==
  /\ call = "head" /\ HeadEnds # {}
  /\ Close
  /\ UNCHANGED <<netVars, sockVars, keep, result, parts, workVars>>

(* A request begins.  The worker decides whether to keep the connection.    *)
Begins ==
  /\ keep' \in BOOLEAN
  /\ call' = "handler"
  /\ fill' = 0
  /\ first' = buf[0] /\ served' = served + 1
  /\ parts' = <<>> /\ result' = "none"
  /\ UNCHANGED <<netVars, sockVars, buf, line, all>>

(* The head is whole.  Bytes after it are the beginning of the body, which *)
(* stay in the buffer, and those after the body begin the next request;    *)
(* after chunks that is not yet known.                                     *)
HeadDone ==
  /\ call = "head" /\ HeadEnds # {}
  /\ Byte(buf[0]) = "G" /\ Ended \notin {"EB", "EL", "EO"}
  /\ LET begin == HeadEnd + 1
         left == fill - begin
         length == Heads[Ended]
         own == IF Ended = "EC" THEN left ELSE Lesser(left, length)
     IN  /\ reader' = [NoReader EXCEPT !.chunked = (Ended = "EC"), !.length = length,
                                       !.payload = IF own > 0 THEN begin ELSE 0, !.plen = own]
         /\ pending' = InBuf(begin + own, fill - 1)
  /\ Begins
  /\ UNCHANGED <<misled, strayed>>

(* httpparse_headers() stops at a CR without a LF, before or behind a       *)
(* Transfer-Encoding, and then the bytes after the head are dropped; or a  *)
(* bare LF ends the request line, an empty line follows, and what is behind *)
(* that is taken for the next request.                                     *)
HeadOdd ==
  /\ call = "head" /\ HeadEnds # {}
  /\ Byte(buf[0]) = "G" /\ Ended = "EO"
  /\ \/ \E chunked \in BOOLEAN : reader' = [NoReader EXCEPT !.chunked = chunked] /\ pending' = <<>>
     \/ \E m \in 1..HeadEnd : reader' = NoReader /\ pending' = InBuf(m, fill - 1)
  /\ Begins
  /\ misled' = TRUE /\ UNCHANGED strayed

(* A handler strays that leaves chunks unread or reads on after an error   *)
(* within them: the next bytes are then not what the reader takes them for. *)
Strays(now) ==
  /\ now => client.strays
  /\ strayed' = (strayed \/ now)

(* Without memory for the value of Content-Length in alloc_headers() the    *)
(* request has none, and what follows it is taken for the next request.    *)
HeadForgets ==
  /\ call = "head" /\ HeadEnds # {}
  /\ Byte(buf[0]) = "G" /\ Ended \in {"E1", "E2", "E4", "EL"}
  /\ reader' = NoReader /\ pending' = InBuf(HeadEnd + 1, fill - 1)
  /\ Begins
  /\ Strays(TRUE) /\ UNCHANGED misled

-----------------------------------------------------------------------------
(* httpserver_read_content_ex(), called by a handler or, again and again,  *)
(* by httpserver_read_all_content_ex().                                    *)

Failed == result \in Codes

ReadContent ==
  /\ call = "handler"
  /\ call' = "content"
  /\ Strays(reader.chunked /\ Failed)
  /\ UNCHANGED <<netVars, sockVars, buf, fill, pending, bodyVars, first, served, misled>>

(* The announced length is allocated at once, chunks as they come. *)
ReadAllContent ==
  /\ call = "handler" /\ result = "none"
  /\ \/ (reader.chunked \/ reader.length <= ContentMax)
        /\ call' = "content" /\ all' = TRUE /\ UNCHANGED result
     \/ ~reader.chunked /\ reader.length > ContentMax
        /\ result' = "LENGTH" /\ UNCHANGED <<call, all>>
     \/ ~reader.chunked /\ reader.length \in 1..ContentMax
        /\ result' = "MEMORY" /\ UNCHANGED <<call, all>>
  /\ UNCHANGED <<netVars, sockVars, buf, fill, pending, reader, keep, line, parts, workVars>>

(* Mutant of Ends: an error ends chunks as their end does. *)
EndsAlways(r) ==
  /\ call' = "handler" /\ all' = FALSE
  /\ result' = IF all THEN "body" ELSE r
  /\ UNCHANGED parts

(* The read returns r and no bytes.  httpserver_read_all_content_ex() then *)
(* returns what it has, but for chunks that ended with an error.           *)
Ends(r) ==
  /\ call' = "handler" /\ all' = FALSE
  /\ result' = IF all /\ (r = "end" \/ ~reader.chunked) THEN "body" ELSE r
  /\ parts' = IF all /\ reader.chunked /\ r # "end" THEN <<>> ELSE parts

(* The read returns the bytes more. *)
Give(more) ==
  \/ /\ ~all
     /\ parts' = parts \o more
     /\ result' = "part" /\ call' = "handler" /\ UNCHANGED all
  \/ /\ all /\ (reader.chunked => Len(parts) + Len(more) <= ContentMax)
     /\ parts' = parts \o more
     /\ call' = "content" /\ UNCHANGED <<all, result>>
  \/ /\ all /\ reader.chunked /\ Len(parts) + Len(more) > ContentMax
     /\ Ends("LENGTH")
  \/ /\ all /\ reader.chunked
     /\ Ends("MEMORY")

ContentOver ==
  /\ call = "content"
  /\ IF reader.chunked THEN reader.complete ELSE reader.payload = 0 /\ reader.length = 0
  /\ Ends("end")
  /\ UNCHANGED <<netVars, sockVars, buf, fill, pending, reader, keep, line, workVars>>

ContentPayload ==
  /\ call = "content" /\ ~reader.chunked /\ reader.payload # 0
  /\ Give(InBuf(reader.payload, reader.payload + reader.plen - 1))
  /\ reader' = [reader EXCEPT !.payload = 0, !.plen = 0, !.length = @ - reader.plen]
  /\ UNCHANGED <<netVars, sockVars, buf, fill, pending, keep, line, workVars>>

ContentBegins ==
  /\ call = "content"
  /\ IF reader.chunked THEN ~reader.complete ELSE reader.payload = 0 /\ reader.length > 0
  /\ call' = CASE ~reader.chunked -> "read"
               [] reader.chunked /\ reader.left = 0 -> "size"
               [] reader.chunked /\ reader.left > 0 -> "data"
  /\ fill' = 0 /\ line' = <<>>
  /\ UNCHANGED <<netVars, sockVars, buf, pending, reader, keep, all, result, parts, workVars>>

(* A body of an announced length: no further than its end. *)
ReadBody ==
  /\ call = "read"
  /\ LET n == Arrived(Lesser(reader.length, BufMax))
     IN  /\ Receive(n)
         /\ buf' = [i \in Slots |-> IF i < n THEN got + 1 + i ELSE buf[i]]
         /\ Give(Places(got + 1, got + n))
         /\ reader' = [reader EXCEPT !.length = @ - n]
  /\ UNCHANGED <<netVars, fill, pending, keep, line, workVars>>

(* Mutant of BodyCut: a timeout is waited for again. *)
BodyCutWaits(why) ==
  /\ call \in {"read", "size", "data", "newline"} /\ (call # "read" => reader.plen = 0)
  /\ Nothing(why)
  /\ IF why = "timeout" THEN UNCHANGED <<call, all, result, parts, fill, line>>
     ELSE Ends(Code(why)) /\ fill' = 0 /\ line' = <<>>
  /\ UNCHANGED <<netVars, buf, pending, reader, keep, workVars>>

(* The bytes of a call that ends without all it wants are lost. *)
BodyCut(why) ==
  /\ call \in {"read", "size", "data", "newline"} /\ (call # "read" => reader.plen = 0)
  /\ Nothing(why)
  /\ Ends(Code(why))
  /\ fill' = 0 /\ line' = <<>>
  /\ UNCHANGED <<netVars, buf, pending, reader, keep, workVars>>

-----------------------------------------------------------------------------
(* httpserver_read_line(), httpserver_read_exact() and                     *)
(* httpserver_buffer_consume(): bytes of chunks, first those that came     *)
(* with the head.                                                          *)

Payload(n) ==
  LET rest == reader.plen - n
  IN  [reader EXCEPT !.plen = rest, !.payload = IF rest = 0 THEN 0 ELSE @ + n]

LineBytes == [i \in DOMAIN line |-> Byte(line[i])]
LineDone == Len(line) >= 2 /\ SubSeq(LineBytes, Len(line) - 1, Len(line)) = <<"CR", "LF">>

TakeByte ==
  /\ \/ call \in {"size", "trailer"} /\ ~LineDone /\ Len(line) < LineMax - 1
     \/ call = "newline" /\ Len(line) < 2
  /\ \/ reader.plen > 0 /\ line' = Append(line, buf[reader.payload])
        /\ reader' = Payload(1) /\ UNCHANGED sockVars
     \/ reader.plen = 0 /\ line' = Append(line, got + 1)
        /\ sent > got /\ Receive(1) /\ UNCHANGED reader
  /\ UNCHANGED <<netVars, buf, fill, pending, keep, call, all, result, parts, workVars>>

LineTooLong ==
  /\ call \in {"size", "trailer"} /\ ~LineDone /\ Len(line) >= LineMax - 1
  /\ Ends("LENGTH")
  /\ line' = <<>>
  /\ UNCHANGED <<netVars, sockVars, buf, fill, pending, reader, keep, workVars>>

UpTo(text, stops) ==
  LET k == SelectInSeq(text, LAMBDA b : b \in stops) IN IF k = 0 THEN text ELSE SubSeq(text, 1, k - 1)
NoBlanks(text) ==
  LET k == SelectInSeq(text, LAMBDA b : b \notin Blanks) IN IF k = 0 THEN <<>> ELSE SubSeq(text, k, Len(text))

SizeText == NoBlanks(UpTo(SubSeq(LineBytes, 1, Len(line) - 2), {";", "NUL"}))

(* strtoul() of what the line says up to an extension or a NUL: behind      *)
(* blanks it takes a sign and 0x, what is too large is the largest, and    *)
(* what is negative wraps; -1 when no digits come or something follows.    *)
ChunkSize(text) ==
  LET sign == IF text # <<>> /\ text[1] \in {"+", "-"} THEN 1 ELSE 0
      hex == IF Len(text) > sign + 1 /\ text[sign + 1] = "0" /\ text[sign + 2] = "x" THEN 2 ELSE 0
      digits == SubSeq(text, sign + hex + 1, Len(text))
      size == Hex(digits)
  IN  IF digits = <<>> \/ \E i \in DOMAIN digits : digits[i] \notin DOMAIN Digit THEN -1
      ELSE IF size >= Long THEN Long - 1
      ELSE IF text[1] = "-" /\ size > 0 THEN Long - size ELSE size

(* What is taken for a size is not what the line says. *)
Misleads(size) == SizeOf(LineBytes, 1, Len(line) - 2) # size \/ size >= Word

(* An empty line has the length 0, which is returned as the end is, and so  *)
(* is a size of which nothing is left in user->reader.chunk_left.          *)
SizeLine ==
  /\ call = "size" /\ LineDone
  /\ \E text \in {SizeText} : \E size \in {ChunkSize(text)} :
       \/ Len(line) = 2 /\ Ends("end") /\ misled' = TRUE /\ UNCHANGED <<reader, fill>>
       \/ Len(line) > 2 /\ size = -1 /\ Ends("HEADER") /\ UNCHANGED <<reader, fill, misled>>
       \/ /\ Len(line) > 2 /\ size # -1
          /\ misled' = (misled \/ Misleads(size))
          /\ \/ size = 0 /\ call' = "trailer" /\ UNCHANGED <<reader, fill, all, result, parts>>
             \/ size > 0 /\ size % Word = 0 /\ Ends("end") /\ UNCHANGED <<reader, fill>>
             \/ /\ size % Word > 0
                /\ call' = "data" /\ fill' = 0 /\ reader' = [reader EXCEPT !.left = size % Word]
                /\ UNCHANGED <<all, result, parts>>
  /\ line' = <<>>
  /\ UNCHANGED <<netVars, sockVars, buf, pending, keep, first, served, strayed>>

TrailerLine ==
  /\ call = "trailer" /\ LineDone /\ Len(line) > 2
  /\ line' = <<>>
  /\ UNCHANGED <<netVars, sockVars, buf, fill, pending, reader, keep, call, all, result, parts, workVars>>

(* Mutant of ChunksEnd: the connection is kept, whatever came after. *)
ChunksEndKept ==
  /\ reader' = [reader EXCEPT !.complete = TRUE]
  /\ UNCHANGED keep
  /\ Ends("end")

(* Bytes that came after the last chunk are the next request.  They are    *)
(* not kept, so the connection is not either.                              *)
ChunksEnd ==
  /\ reader' = [reader EXCEPT !.complete = TRUE]
  /\ keep' = (keep /\ reader.plen = 0)
  /\ Ends("end")

TrailerEnds ==
  /\ call = "trailer" /\ LineDone /\ Len(line) = 2
  /\ ChunksEnd
  /\ line' = <<>>
  /\ UNCHANGED <<netVars, sockVars, buf, fill, pending, workVars>>

(* A close ends the trailer as its empty line does. *)
TrailerCut(why) ==
  /\ call = "trailer" /\ reader.plen = 0
  /\ Nothing(why)
  /\ IF Code(why) = "end" THEN ChunksEnd ELSE Ends(Code(why)) /\ UNCHANGED <<reader, keep>>
  /\ line' = <<>>
  /\ UNCHANGED <<netVars, buf, fill, pending, workVars>>

(* Mutant of Want: the whole chunk, whatever the buffer holds. *)
WantChunk == reader.left

(* A chunk is read into the buffer, in pieces of its size. *)
Want == Lesser(reader.left, BufMax)

DataMore ==
  /\ call = "data" /\ fill < Want
  /\ LET n == IF reader.plen > 0 THEN Lesser(reader.plen, Want - fill) ELSE Arrived(Want - fill)
         from(k) == IF reader.plen > 0 THEN buf[reader.payload + k] ELSE got + 1 + k
     IN  /\ n > 0
         /\ buf' = [i \in Slots |-> IF fill <= i /\ i < fill + n THEN from(i - fill) ELSE buf[i]]
         /\ fill' = fill + n
         /\ \/ reader.plen > 0 /\ reader' = Payload(n) /\ UNCHANGED sockVars
            \/ reader.plen = 0 /\ Receive(n) /\ UNCHANGED reader
  /\ UNCHANGED <<netVars, pending, keep, line, call, all, result, parts, workVars>>

DataDone ==
  /\ call = "data" /\ fill = Want
  /\ reader' = [reader EXCEPT !.left = @ - Want]
  /\ IF reader.left = Want
     THEN call' = "newline" /\ line' = <<>> /\ UNCHANGED <<fill, all, result, parts>>
     ELSE Give(InBuf(0, fill - 1)) /\ fill' = 0 /\ UNCHANGED line
  /\ UNCHANGED <<netVars, sockVars, buf, pending, keep, workVars>>

Newline ==
  /\ call = "newline" /\ Len(line) = 2
  /\ IF LineDone THEN Give(InBuf(0, fill - 1)) ELSE Ends("HEADER")
  /\ fill' = 0 /\ line' = <<>>
  /\ UNCHANGED <<netVars, sockVars, buf, pending, reader, keep, workVars>>

-----------------------------------------------------------------------------
(* The end of a request.                                                   *)

(* Mutant of FreeRequest: a body that was not read is forgotten. *)
FreeRequestAlways ==
  /\ call' = "idle"
  /\ buf' = NoBuffer /\ reader' = NoReader
  /\ UNCHANGED <<fill, pending, line, all>>

(* httpserver_free_request(): the connection is kept when the worker has   *)
(* decided so and the body was read, or has arrived.                       *)
FreeRequest ==
  IF reader.length > reader.plen \/ ~keep
  THEN Close
  ELSE /\ call' = "idle"
       /\ buf' = NoBuffer /\ reader' = NoReader
       /\ UNCHANGED <<fill, pending, line, all>>

(* The handler, or the worker by itself with a 401 or a 404, has answered, *)
(* chunks read to their end or not.                                        *)
Answered ==
  /\ call = "handler"
  /\ FreeRequest
  /\ Strays(reader.chunked /\ result \notin {"end", "body"})
  /\ UNCHANGED <<netVars, sockVars, keep, result, parts, first, served, misled>>

HandlerFails ==
  /\ call = "handler"
  /\ Close
  /\ UNCHANGED <<netVars, sockVars, keep, result, parts, workVars>>

(* The worker is given another connection. *)
NextConnection ==
  /\ call = "closed"
  /\ client' \in Clients /\ sent' = 0 /\ ended' = FALSE
  /\ got' = 0 /\ gone' = FALSE
  /\ keep' = FALSE /\ call' = "idle" /\ result' = "none"
  /\ first' = 0 /\ parts' = <<>> /\ served' = 0 /\ misled' = FALSE /\ strayed' = FALSE
  /\ UNCHANGED <<buf, fill, pending, reader, line, all>>

-----------------------------------------------------------------------------
Network == Arrive \/ ArriveEnding

Worker ==
  \/ ReadRequest \/ ReadRequestNoMemory \/ GiveUp \/ NextConnection
  \/ ReadContent \/ ReadAllContent \/ Answered \/ HandlerFails

Reader ==
  \/ HeadTooLong \/ HeadMore \/ HeadDone \/ HeadOdd \/ HeadForgets \/ HeadRefused
  \/ ContentOver \/ ContentPayload \/ ContentBegins \/ ReadBody
  \/ TakeByte \/ LineTooLong \/ SizeLine \/ TrailerLine \/ TrailerEnds
  \/ DataMore \/ DataDone \/ Newline
  \/ \E why \in Whys : HeadTimesOut(why) \/ HeadCut(why) \/ BodyCut(why) \/ TrailerCut(why)

Next == Network \/ Worker \/ Reader

(* Every wait for the client has a timeout, so that a call goes on by       *)
(* itself.  Nothing is asked of the client or of the handlers.             *)
Spec == Init /\ [][Next]_vars /\ WF_vars(Reader)

-----------------------------------------------------------------------------
(* Properties.                                                             *)

AtRequest == call \in {"handler", "content"} \cup (Turns \ {"head"})

(* Every variable keeps its type; no piece of a body is larger than the    *)
(* buffer and no byte is left of a payload that is not there.              *)
TypeOK ==
  /\ client \in Clients /\ sent \in 0..Len(client.wire) /\ ended \in BOOLEAN
  /\ got \in 0..sent /\ gone \in BOOLEAN
  /\ buf = NoBuffer \/ buf \in [Slots -> 0..Len(client.wire)]
  /\ fill \in 0..BufMax /\ pending \in Seq(1..Len(client.wire)) /\ Len(pending) <= BufMax
  /\ reader.chunked \in BOOLEAN /\ reader.complete \in BOOLEAN
  /\ reader.left \in 0..Word-1 /\ reader.length \in Nat
  /\ reader.payload + reader.plen \in 0..BufMax /\ (reader.payload = 0 <=> reader.plen = 0)
  /\ keep \in BOOLEAN /\ line \in Seq(1..Len(client.wire)) /\ Len(line) < LineMax
  /\ call \in {"idle", "content", "handler", "closed"} \cup Turns
  /\ all \in BOOLEAN /\ result \in {"none", "part", "end", "body"} \cup Codes
  /\ first \in 0..Len(client.wire) /\ served \in Nat /\ parts \in Seq(1..Len(client.wire))
  /\ misled \in BOOLEAN /\ strayed \in BOOLEAN

(* The requests that the worker serves are those of the client, in their   *)
(* order: none is left out, none is made of the bytes of another's body,   *)
(* and what a handler is given is that request's body up to some place.    *)
(* This ends when chunks were left unread or read on after an error, when  *)
(* a length was forgotten for want of memory, and with an odd head or a    *)
(* size line that is empty, malformed or too wide for the reader, which    *)
(* the code takes only from a client that sent such a one.                 *)
ServesWhatIsAsked ==
  /\ AtRequest /\ ~misled /\ ~strayed =>
       /\ served <= Len(Asked)
       /\ first = Asked[served].first
       /\ IsPrefix(parts, Asked[served].body)
  /\ misled /\ ~strayed => Asked # <<>> /\ Last(Asked).how \in {"empty", "bad", "wide", "odd"}

(* Between two requests of a kept connection every byte after the last one *)
(* that was taken from the socket is kept, in its order, for the next: the  *)
(* pipelined requests, and what came of a head before a timeout; until     *)
(* chunks were left unread or misread, as above.                           *)
NothingLost ==
  call = "idle" /\ ~gone /\ ~misled /\ ~strayed =>
    \/ served = 0 /\ pending = Places(1, got)
    \/ served > 0 /\ Asked[served].how = "whole" /\ pending = Places(Asked[served].last + 1, got)

(* As long as the client has not closed the connection, and over TLS even  *)
(* then, the end of a body is reported only when the handler was given all *)
(* of it.  A body is called malformed or too long only when it is.  This   *)
(* ends where the two before it end.                                       *)
EndIsBodys ==
  call = "handler" /\ ~misled /\ ~strayed =>
    /\ (~gone \/ client.tls) /\ (result = "end" \/ (result = "body" /\ reader.chunked))
         => Asked[served].how = "whole" /\ parts = Asked[served].body
    /\ result = "HEADER" => Asked[served].how = "bad"
    /\ result = "LENGTH" =>
         Asked[served].how = "long" \/ reader.length > ContentMax \/ Len(Asked[served].body) > ContentMax

(* Every read of a request or of a body returns, whatever the client sent  *)
(* or left out, once it sends no more: a read that is given one line of a  *)
(* trailer after the other does not.                                       *)
ReadReturns == (call \in Turns \cup {"content"}) ~> (call \in {"idle", "handler", "closed"})

=============================================================================
