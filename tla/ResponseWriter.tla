--------------------------- MODULE ResponseWriter ---------------------------
(***************************************************************************)
(* What a worker and its handlers write on a connection: a response of a   *)
(* known length, httpserver_write_response(), or one in chunks,            *)
(* httpserver_chunked_response(), its appends, flushes and                 *)
(* httpserver_chunked_complete(), of src/src/httpserver.c.                 *)
(*                                                                         *)
(* Text is counted, not spelled.  What is on the wire is a sequence of     *)
(* frames: a head, a piece of content, a chunk with the size that it says  *)
(* and the bytes that it has, the last chunk, or the cut where the client  *)
(* stopped reading.                                                        *)
(***************************************************************************)
EXTENDS Integers, Sequences, SequencesExt

CONSTANTS
  MAX,         (* HTTP_SERVER_MAX_CHUNK_LENGTH, the size of rw_buffer    *)
  SizeMax,     (* the largest size that "%.3x" writes in three digits    *)
  HeaderSize,  (* of the status line and of each header the server adds  *)
  HandlerHeaders, (* the sizes of the headers that a handler may add     *)
  Lengths,     (* of texts and contents                                  *)
  CallsMax,    (* bound: appends and flushes of one response             *)
  MisreadsMax  (* bound: misread errors of one connection                *)

Reserve == 32  (* a buffer with less than this left is flushed first     *)
Spare == 8      (* kept free for the end of a chunk and of the response   *)
ChunkHead == 5 (* the three digits of a chunk's size and their CRLF      *)

Headers == {"Server", "Connection", "Content-Type", "Content-Length", "Transfer-Encoding"}

ASSUME BufferAssumption == MAX \in Nat /\ MAX > Reserve + Spare /\ SizeMax \in Nat /\ SizeMax >= MAX - Spare
ASSUME TextAssumption == Lengths \subseteq Nat /\ CallsMax \in Nat /\ MisreadsMax \in Nat
ASSUME HeadersAssumption ==
  HeaderSize \in [Headers \cup {"status"} -> Nat \ {0}] /\ HandlerHeaders \subseteq Seq(Nat \ {0})

VARIABLES
  at,     (* where the worker or its handler is                          *)
  gone,   (* user->peer_closed                                           *)
  idx,    (* user->write_idx                                             *)
  size,   (* user->send_bytes                                            *)
  top,    (* how much of rw_buffer has been written                      *)
  wire,   (* what has gone to the client of this response                *)
  left,   (* what a loop has still to write                              *)
  taken,  (* the bytes that the calls have taken from the handler        *)
  result, (* what the last call returned: "ok", or why not               *)
  calls,  (* appends and flushes of this response                        *)
  misread (* history: how many errors of this connection's handlers were *)
          (* reported as successes; only MisreadsMax is compared with it *)

bufVars == <<idx, size, top>>
outVars == <<wire, gone>>
vars == <<at, outVars, bufVars, left, taken, result, calls, misread>>

-----------------------------------------------------------------------------
Frame(what, says, data) == [what |-> what, says |-> says, data |-> data]
Cut == Frame("cut", 0, 0)
LastChunk == Frame("last", 0, 0)
Content(n) == Frame("content", n, n)

(* A chunk's size is written over the place that was kept for it.  More    *)
(* than three digits would not fit there, which no size says.              *)
Chunk == Frame("chunk", IF size <= SizeMax THEN size ELSE 0, idx - ChunkHead)

(* Of all that was written to the buffer, the place behind the last byte. *)
Higher(m, n) == IF m > n THEN m ELSE n
Lesser(m, n) == IF m < n THEN m ELSE n

(* httpserver_write() waits for the socket, and fails for good when it     *)
(* cannot write; any part may have gone out by then.                       *)
Write(frames) ==
  /\ ~gone
  /\ wire' = wire \o frames
  /\ UNCHANGED gone
WriteFails(frames) ==
  /\ gone' = TRUE
  /\ IF gone THEN UNCHANGED wire
     ELSE \E k \in 0..Len(frames) - 1 : wire' = wire \o SubSeq(frames, 1, k) \o <<Cut>>

-----------------------------------------------------------------------------
(* Heads.                                                                  *)

(* httpparse_append_headers() ends at the first header that does not fit.  *)
(* It is given what is left of the buffer, and counts from its start.      *)
AppendHeaders(head, sizes) ==
  LET Add(sum, n) ==
        IF sum.fits /\ sum.count + n < MAX - head.count
        THEN [sum EXCEPT !.count = @ + n] ELSE [sum EXCEPT !.fits = FALSE]
  IN  FoldLeft(Add, [head EXCEPT !.fits = TRUE], sizes)

(* The handler's headers, then the server's own: how long the head is, and  *)
(* which of them it has.                                                   *)
HeadOf(more, own) ==
  LET status == [count |-> HeaderSize["status"], fits |-> TRUE]
      groups == <<more>> \o [k \in DOMAIN own |-> <<HeaderSize[own[k]]>>]
      head == [k \in 0..Len(groups) |-> FoldLeft(AppendHeaders, status, SubSeq(groups, 1, k))]
  IN  [count |-> head[Len(groups)].count + 2,
       has |-> {own[k] : k \in {j \in DOMAIN own : head[j + 1].fits}}]

ContentHead(more) == HeadOf(more, <<"Server", "Connection", "Content-Type", "Content-Length">>)
ChunkedHead(more) == HeadOf(more, <<"Server", "Connection", "Transfer-Encoding", "Content-Type">>)

(* A head says how long the content is, or that it comes in chunks; one    *)
(* that does not, or not whether the connection is kept, is "bare".        *)
Chunks == -1
HeadFrame(head, says) ==
  Frame(IF {"Connection", IF says = Chunks THEN "Transfer-Encoding" ELSE "Content-Length"} \subseteq head.has
        THEN "head" ELSE "bare", says, 0)

-----------------------------------------------------------------------------
Init ==
  /\ at = "idle" /\ gone = FALSE
  /\ idx = 0 /\ size = 0 /\ top = 0
  /\ wire = <<>> /\ left = 0 /\ taken = 0
  /\ result = "ok" /\ calls = 0 /\ misread = 0

(* httpserver_read_request_ex() has a request, and a new rw_buffer for it. *)
Request ==
  /\ at = "idle" /\ ~gone
  /\ at' = "handler"
  /\ top' = 0 /\ wire' = <<>> /\ left' = 0 /\ taken' = 0 /\ result' = "ok" /\ calls' = 0
  /\ UNCHANGED <<gone, idx, size, misread>>

(* httpserver_write_response(). *)
WriteResponse(n, more) ==
  /\ at = "handler"
  /\ LET head == ContentHead(more)
     IN  /\ top' = Higher(top, head.count + 1)
         /\ \/ Write(<<HeadFrame(head, n)>>)
               /\ at' = (IF n = 0 THEN "answered" ELSE "content") /\ left' = n /\ taken' = n
               /\ UNCHANGED result
            \/ WriteFails(<<HeadFrame(head, n)>>)
               /\ at' = "answered" /\ result' = "CONNECTION" /\ UNCHANGED <<left, taken>>
  /\ UNCHANGED <<idx, size, calls, misread>>

WriteContent ==
  /\ at = "content"
  /\ LET n == Lesser(left, MAX)
     IN  \/ Write(<<Content(n)>>)
            /\ left' = left - n /\ at' = (IF left = n THEN "answered" ELSE "content")
            /\ UNCHANGED result
         \/ WriteFails(<<Content(n)>>)
            /\ at' = "answered" /\ result' = "CONNECTION" /\ UNCHANGED left
  /\ UNCHANGED <<bufVars, taken, calls, misread>>

(* httpserver_chunked_response() empties the buffer, but goes on counting   *)
(* where an unfinished response has left send_bytes.                       *)
ChunkedResponse(more) ==
  /\ at = "handler"
  /\ at' = "chunked"
  /\ LET head == ChunkedHead(more)
     IN  /\ idx' = 0 /\ top' = Higher(top, head.count + 1)
         /\ \/ Write(<<HeadFrame(head, Chunks)>>) /\ UNCHANGED result
            \/ WriteFails(<<HeadFrame(head, Chunks)>>) /\ result' = "ERROR"
  /\ UNCHANGED <<size, left, taken, calls, misread>>

-----------------------------------------------------------------------------
(* Chunks.                                                                 *)

(* Mutant of Fill: room for the text, but not for the chunk's head. *)
FillAfterHead(i, s, n, high) ==
  LET begin == IF i = 0 THEN ChunkHead ELSE i
      more == Lesser(n, MAX - 1 - begin)
  IN  /\ idx' = begin + more /\ size' = s + more
      /\ top' = Higher(high, begin + more + 1)
      /\ taken' = taken + more

(* _chunked_alloc() and _chunked_commit(): as much of n bytes as fits into  *)
(* a buffer that has s of them and is filled up to i, and the NUL.         *)
Fill(i, s, n, high) ==
  LET begin == IF i = 0 THEN ChunkHead ELSE i
      more == Lesser(n, MAX - Spare - i)
  IN  /\ idx' = begin + more /\ size' = s + more
      /\ top' = Higher(high, begin + more + 1)
      /\ taken' = taken + more

(* Mutant of Flush: the next chunk counts these bytes too. *)
FlushCounting ==
  /\ idx' = 0 /\ UNCHANGED size
  /\ top' = Higher(top, idx + 2)

(* _chunked_flush() leaves the buffer empty, written or not. *)
Flush ==
  /\ idx' = 0 /\ size' = 0
  /\ top' = Higher(top, idx + 2)

(* Mutant of Full: a buffer is used up to its end. *)
FullAtEnd == idx >= MAX - Spare + 1

Full == idx >= MAX - Reserve

(* Appends n bytes to the buffer, or to an empty one behind a flush. *)
Append1(n, flush) ==
  \/ ~flush /\ Fill(idx, size, n, top) /\ UNCHANGED outVars
  \/ flush /\ Write(<<Chunk>>) /\ Fill(0, 0, n, Higher(top, idx + 2))

AppendFails == WriteFails(<<Chunk>>) /\ Flush /\ result' = "CONNECTION"

(* httpserver_chunked_append_fmtstr() formats a text of n bytes, of which  *)
(* it leaves out what an empty buffer cannot hold.                         *)
AppendFmt(n) ==
  /\ at = "chunked" /\ n > 0 /\ calls < CallsMax
  /\ calls' = calls + 1
  /\ LET flush == (idx # 0 /\ idx + n > MAX - Spare) \/ Full
     IN  \/ Append1(n, flush) /\ result' = "ok"
         \/ flush /\ AppendFails /\ UNCHANGED taken
  /\ UNCHANGED <<at, left, misread>>

(* Which an empty text is refused by. *)
AppendFmtNothing ==
  /\ at = "chunked" /\ calls < CallsMax
  /\ calls' = calls + 1 /\ result' = "CONTENT"
  /\ UNCHANGED <<at, outVars, bufVars, left, taken, misread>>

(* httpserver_chunked_append_str() appends all of a text, chunk by chunk. *)
AppendStr(n) ==
  /\ at = "chunked" /\ n > 0 /\ calls < CallsMax
  /\ calls' = calls + 1
  /\ at' = "append" /\ left' = n
  /\ UNCHANGED <<outVars, bufVars, taken, result, misread>>

AppendPiece ==
  /\ at = "append"
  /\ \/ /\ Append1(left, Full)
        /\ left' = left - (taken' - taken)
        /\ at' = (IF left' = 0 THEN "chunked" ELSE "append")
        /\ result' = "ok"
     \/ /\ Full /\ AppendFails
        /\ at' = "chunked" /\ left' = 0 /\ UNCHANGED taken
  /\ UNCHANGED <<calls, misread>>

ChunkedFlush ==
  /\ at = "chunked" /\ calls < CallsMax
  /\ calls' = calls + 1
  /\ \/ idx = 0 /\ UNCHANGED <<outVars, bufVars>> /\ result' = "ok"
     \/ idx > 0 /\ Write(<<Chunk>>) /\ Flush /\ result' = "ok"
     \/ idx > 0 /\ AppendFails
  /\ UNCHANGED <<at, left, taken, misread>>

(* Mutant of Pending: what is in the buffer waits for a flush. *)
PendingFlushed == <<LastChunk>>

Pending == IF idx > 0 THEN <<Chunk, LastChunk>> ELSE <<LastChunk>>

(* httpserver_chunked_complete(): the chunk that is not yet written, in a  *)
(* write of its own when the buffer is too full for the last one too.      *)
ChunkedComplete ==
  /\ at = "chunked"
  /\ at' = "answered"
  /\ idx' = 0 /\ size' = 0
  /\ top' = Higher(top, IF idx = 0 THEN 6 ELSE IF idx < MAX - Spare THEN idx + 2 + 6 ELSE idx + 2)
  /\ \/ Write(Pending) /\ result' = "ok"
     \/ WriteFails(Pending) /\ result' = "CONNECTION"
  /\ UNCHANGED <<left, taken, calls, misread>>

-----------------------------------------------------------------------------
(* The end of a request.                                                   *)

(* A handler ends with the error of a call, or with one of its own: the     *)
(* method is not for it, or a file is not there.                           *)
HandlerFails ==
  /\ at \in {"handler", "chunked"}
  /\ at' = "answered" /\ result' = (IF result = "ok" THEN "ERROR" ELSE result)
  /\ UNCHANGED <<outVars, bufVars, left, taken, calls, misread>>

(* wnlog_memlog_handler() assigns a comparison in place of the result that  *)
(* it compares, of the head and of the text alike: 1, a success, is        *)
(* returned when the head or a piece failed, and when the method is not    *)
(* GET.  The chunks have no end then, and text may be left in the buffer.  *)
ErrorMisread ==
  /\ at = "chunked" /\ misread < MisreadsMax
  /\ at' = "answered" /\ result' = "ok" /\ misread' = misread + 1
  /\ UNCHANGED <<outVars, bufVars, left, taken, calls>>

(* The worker reads the next request, *)
Kept ==
  /\ at = "answered" /\ result = "ok"
  /\ at' = "idle"
  /\ UNCHANGED <<outVars, bufVars, left, taken, result, calls, misread>>

(* or closes the connection, and is given another. *)
Close ==
  /\ at \in {"answered", "idle"}
  /\ at' = "idle" /\ gone' = FALSE
  /\ idx' = 0 /\ size' = 0 /\ top' = 0
  /\ wire' = <<>> /\ left' = 0 /\ taken' = 0 /\ result' = "ok" /\ calls' = 0 /\ misread' = 0

-----------------------------------------------------------------------------
Loop == WriteContent \/ AppendPiece

Next ==
  \/ Request \/ Kept \/ Close \/ HandlerFails \/ ErrorMisread
  \/ \E more \in HandlerHeaders : ChunkedResponse(more) \/ \E n \in Lengths : WriteResponse(n, more)
  \/ \E n \in Lengths : AppendFmt(n) \/ AppendStr(n)
  \/ AppendFmtNothing \/ ChunkedFlush \/ ChunkedComplete \/ Loop

(* A write waits no longer than user->write_timeout, so that a loop goes on. *)
Spec == Init /\ [][Next]_vars /\ WF_vars(Loop)

-----------------------------------------------------------------------------
(* Properties.                                                             *)

DataOf(frames) == FoldLeft(LAMBDA sum, f : sum + f.data, 0, frames)
Frames == [what : {"head", "bare", "content", "chunk", "last", "cut"}, says : Nat \cup {Chunks}, data : Int]

(* Every variable keeps its type, and nothing is ever written behind the    *)
(* end of rw_buffer, the NUL of a text or of an ending included; a flush   *)
(* never finds the buffer too full for the end of its chunk.               *)
TypeOK ==
  /\ at \in {"idle", "handler", "content", "chunked", "append", "answered"}
  /\ gone \in BOOLEAN /\ idx \in 0..MAX - 3 /\ size \in Nat /\ top \in 0..MAX
  /\ wire \in Seq(Frames) /\ left \in Nat /\ taken \in Nat
  /\ result \in {"ok", "ERROR", "CONNECTION", "CONTENT"} /\ calls \in 0..CallsMax
  /\ misread \in 0..MisreadsMax

(* The client can always tell the frames of a response apart: a head that   *)
(* says how the body is framed, chunks that have the bytes that they say,  *)
(* none of them empty, which would be the last one, and nothing behind the  *)
(* last chunk or a cut.  Only behind a misread error may a chunk say more  *)
(* than it has.                                                            *)
FramesAgree ==
  \A k \in DOMAIN wire :
    /\ wire[k].what \in (IF k = 1 THEN {"head", "cut"} ELSE {"content", "chunk", "last", "cut"})
    /\ wire[k].what = "chunk" => wire[k].data > 0 /\ (misread = 0 => wire[k].says = wire[k].data)
    /\ wire[k].what \in {"last", "cut"} => k = Len(wire)

(* As long as the client reads, and until a handler misreads an error, the  *)
(* bytes that the calls have taken from the handler are as many as are on   *)
(* the wire and in the buffer.  A connection is used for another request   *)
(* only when the response to the one before is whole: its content has the  *)
(* length that was said, or its chunks end with the last one.              *)
NothingLost ==
  ~gone /\ misread = 0 =>
    /\ DataOf(wire) + size + (IF at = "content" THEN left ELSE 0) = taken
    /\ at = "idle" /\ wire # <<>> =>
         IF wire[1].says = Chunks THEN wire[Len(wire)] = LastChunk ELSE DataOf(wire) = wire[1].says

(* Every append and every response returns, however long the text is.      *)
WriteReturns == (at \in {"content", "append"}) ~> (at \in {"chunked", "answered"})

=============================================================================
